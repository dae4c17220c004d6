------------------------ MODULE ContractCallsProofs ------------------------
(***************************************************************************)
(* Proofs about the client's calls: Sound (ContractCallsInvariant) holds   *)
(* in every state, and with it what a call sends, what it reports and what *)
(* becomes of ether are as ContractCalls states them. Of plans for expired *)
(* accounts, what the builder computes is what Expiry computes, but for a  *)
(* drift that their roundings cannot exceed.                               *)
(***************************************************************************)
EXTENDS ContractCallsInvariant, BuilderProofs

-----------------------------------------------------------------------------
(* What no step of a call changes; and what its steps do change.           *)

Like(t, u) ==
  /\ t.target = u.target /\ t.op = u.op /\ t.options = u.options /\ t.via = u.via
  /\ t.ethTo = u.ethTo /\ t.standard = u.standard /\ t.asked = u.asked
  /\ t.promised = u.promised

Stages == {"new", "block", "estimate", "sent", "done"}

Becomes(t, u, stage, hash, confirmation, ret) ==
  /\ IsTask(t) /\ Like(t, u)
  /\ t.stage = stage /\ t.hash = hash /\ t.confirmation = confirmation /\ t.ret = ret

LEMMA TaskFacts ==
  ASSUME NEW t, IsTask(t), NEW v
  PROVE  /\ v \in Stages =>
              Becomes([t EXCEPT !.stage = v], t, v, t.hash, t.confirmation, t.ret)
         /\ Becomes([t EXCEPT !.gas = v], t, t.stage, t.hash, t.confirmation, t.ret)
         /\ Becomes([t EXCEPT !.hash = v], t, t.stage, v, t.confirmation, t.ret)
         /\ Becomes([t EXCEPT !.confirmation = v], t, t.stage, t.hash, v, t.ret)
         /\ Becomes(Settled(t, v), t, "done", t.hash, t.confirmation, v)
<1>1. v \in Stages => Becomes([t EXCEPT !.stage = v], t, v, t.hash, t.confirmation, t.ret)
  BY DEF IsTask, Like, Becomes, Stages
<1>2. Becomes([t EXCEPT !.gas = v], t, t.stage, t.hash, t.confirmation, t.ret)
  BY DEF IsTask, Like, Becomes
<1>3. Becomes([t EXCEPT !.hash = v], t, t.stage, v, t.confirmation, t.ret)
  BY DEF IsTask, Like, Becomes
<1>4. Becomes([t EXCEPT !.confirmation = v], t, t.stage, t.hash, v, t.ret)
  BY DEF IsTask, Like, Becomes
<1>5. Becomes(Settled(t, v), t, "done", t.hash, t.confirmation, v)
  <2> DEFINE u == [stage |-> "done", target |-> t.target, op |-> t.op, options |-> t.options,
                   gas |-> t.gas, via |-> t.via, ethTo |-> t.ethTo, standard |-> t.standard,
                   asked |-> t.asked, promised |-> t.promised,
                   hash |-> t.hash, confirmation |-> t.confirmation, ret |-> v]
  <2>1. t = [stage |-> t.stage, target |-> t.target, op |-> t.op, options |-> t.options,
             gas |-> t.gas, via |-> t.via, ethTo |-> t.ethTo, standard |-> t.standard,
             asked |-> t.asked, promised |-> t.promised,
             hash |-> t.hash, confirmation |-> t.confirmation, ret |-> t.ret]
    BY DEF IsTask
  <2>2. DOMAIN t = DOMAIN u
    BY <2>1
  <2>3. Settled(t, v) = [f \in DOMAIN t |-> IF f = "stage" THEN "done"
                                            ELSE IF f = "ret" THEN v ELSE t[f]]
    BY <2>1 DEF Settled
  <2>4. u = [f \in DOMAIN u |-> u[f]]
    OBVIOUS
  <2>5. ASSUME NEW f \in DOMAIN t
        PROVE u[f] = IF f = "stage" THEN "done" ELSE IF f = "ret" THEN v ELSE t[f]
    BY <2>1, <2>5
  <2>6. Settled(t, v) = u
    BY <2>2, <2>3, <2>4, <2>5
  <2>7. Becomes(u, t, "done", t.hash, t.confirmation, v)
    BY DEF IsTask, Like, Becomes
  <2> QED
    BY <2>6, <2>7
<1> QED
  BY <1>1, <1>2, <1>3, <1>4, <1>5

(* What a call waits for is a number of confirmations.                     *)
LEMMA DesiredFacts ==
  ASSUME NEW t, IsTask(t)
  PROVE  DesiredConf(t) \in Nat
<1>1. t.options.confirmations \in 0..MaxConfirmations /\ MaxConfirmations \in Nat
  BY CallsAssumption DEF IsTask, CallOptionFields
<1> QED
  BY <1>1, CallsAssumption DEF DesiredConf

(* The listeners keep what the call is, and say what they heard.           *)
LEMMA OnHashFacts ==
  ASSUME NEW t, IsTask(t), t.stage # "idle"
  PROVE  LET u == OnHash(t)
         IN  \/ u = t
             \/ Becomes(u, t, "done", "resolved", t.confirmation, "hash")
<1> DEFINE s == Settled(t, "hash")
<1>1. Becomes(s, t, "done", t.hash, t.confirmation, "hash")
  BY TaskFacts
<1> HIDE DEF s
<1>2. Becomes([s EXCEPT !.hash = "resolved"], s, "done", "resolved", t.confirmation, "hash")
  <2>1. IsTask(s)
    BY <1>1 DEF Becomes
  <2>2. Becomes([s EXCEPT !.hash = "resolved"], s, s.stage, "resolved", s.confirmation, s.ret)
    BY <2>1, TaskFacts
  <2> QED
    BY <1>1, <2>2 DEF Becomes
<1>3. Becomes([s EXCEPT !.hash = "resolved"], t, "done", "resolved", t.confirmation, "hash")
  BY <1>1, <1>2 DEF Becomes, Like
<1> QED
  BY <1>3 DEF OnHash, s

(* What an error makes of a call.                                          *)
Failed(u, t) ==
  /\ IsTask(u) /\ Like(u, t) /\ u.stage \in {t.stage, "done"}
  /\ u.hash \in {t.hash, "rejected"} /\ u.confirmation \in {t.confirmation, "rejected"}
  /\ t.confirmation # "initial" => u.confirmation = t.confirmation
  /\ u.ret \in {t.ret, "error"}

LEMMA OnErrorFacts ==
  ASSUME NEW t, IsTask(t)
  PROVE  Failed(OnError(t), t)
<1> DEFINE s == Settled(t, "error")
<1>1. Becomes(s, t, "done", t.hash, t.confirmation, "error")
  BY TaskFacts
<1> HIDE DEF s
<1>2. Becomes([s EXCEPT !.hash = "rejected"], s, "done", "rejected", t.confirmation, "error")
  <2>1. IsTask(s)
    BY <1>1 DEF Becomes
  <2>2. Becomes([s EXCEPT !.hash = "rejected"], s, s.stage, "rejected", s.confirmation, s.ret)
    BY <2>1, TaskFacts
  <2> QED
    BY <1>1, <2>2 DEF Becomes
<1>3. Failed([s EXCEPT !.hash = "rejected"], t)
  BY <1>1, <1>2 DEF Becomes, Like, Failed
<1>4. Becomes([s EXCEPT !.confirmation = "rejected"], s, "done", t.hash, "rejected", "error")
  <2>1. IsTask(s)
    BY <1>1 DEF Becomes
  <2>2. Becomes([s EXCEPT !.confirmation = "rejected"], s, s.stage, s.hash, "rejected", s.ret)
    BY <2>1, TaskFacts
  <2> QED
    BY <1>1, <2>2 DEF Becomes
<1>5. t.confirmation = "initial" => Failed([s EXCEPT !.confirmation = "rejected"], t)
  BY <1>1, <1>4 DEF Becomes, Like, Failed
<1>6. Becomes([t EXCEPT !.confirmation = "rejected"], t, t.stage, t.hash, "rejected", t.ret)
  BY TaskFacts
<1>7. t.confirmation = "initial" => Failed([t EXCEPT !.confirmation = "rejected"], t)
  BY <1>6 DEF Becomes, Like, Failed
<1>8. Failed(t, t)
  BY DEF Failed, Like
<1> QED
  BY <1>3, <1>5, <1>7, <1>8 DEF OnError, s

(* What a receipt, or a confirmation that suffices, makes of a call.       *)
Assured(u, t) ==
  /\ IsTask(u) /\ Like(u, t) /\ u.stage \in {t.stage, "done"}
  /\ u.hash = t.hash /\ u.confirmation = "resolved" /\ u.ret \in {t.ret, "receipt"}

LEMMA ConfirmedFacts ==
  ASSUME NEW t, IsTask(t)
  PROVE  Assured(Confirmed(t), t)
<1> DEFINE s == Settled(t, "receipt")
<1>1. Becomes(s, t, "done", t.hash, t.confirmation, "receipt")
  BY TaskFacts
<1> HIDE DEF s
<1>2. Becomes([s EXCEPT !.confirmation = "resolved"], s, "done", t.hash, "resolved", "receipt")
  <2>1. IsTask(s)
    BY <1>1 DEF Becomes
  <2>2. Becomes([s EXCEPT !.confirmation = "resolved"], s, s.stage, s.hash, "resolved", s.ret)
    BY <2>1, TaskFacts
  <2> QED
    BY <1>1, <2>2 DEF Becomes
<1>3. Assured([s EXCEPT !.confirmation = "resolved"], t)
  BY <1>1, <1>2 DEF Becomes, Like, Assured
<1>4. Becomes([t EXCEPT !.confirmation = "resolved"], t, t.stage, t.hash, "resolved", t.ret)
  BY TaskFacts
<1>5. Assured([t EXCEPT !.confirmation = "resolved"], t)
  BY <1>4 DEF Becomes, Assured
<1> QED
  BY <1>3, <1>5 DEF Confirmed, s

LEMMA OnConfirmationFacts ==
  ASSUME NEW t, IsTask(t), NEW n \in Nat
  PROVE  LET u == OnConfirmation(t, n)
         IN  u = t \/ (Assured(u, t) /\ n >= DesiredConf(t))
BY ConfirmedFacts DEF OnConfirmation

LEMMA OnReceiptFacts ==
  ASSUME NEW t, IsTask(t)
  PROVE  LET u == OnConfirmation(OnReceipt(t), 0)
         IN  u = t \/ (Assured(u, t) /\ DesiredConf(t) = 0)
<1> DEFINE r == OnReceipt(t)
<1>1. r = t \/ (Assured(r, t) /\ DesiredConf(t) = 0)
  BY ConfirmedFacts DEF OnReceipt
<1> HIDE DEF r
<1>2. IsTask(r)
  BY <1>1 DEF Assured
<1>3. OnConfirmation(r, 0) = r
  <2>1. DesiredConf(r) \in Nat
    BY <1>2, DesiredFacts
  <2>2. DesiredConf(r) # 0 => ~(0 >= DesiredConf(r))
    BY <2>1
  <2> QED
    BY <2>2 DEF OnConfirmation
<1> QED
  BY <1>1, <1>3 DEF r

-----------------------------------------------------------------------------
(* What is true of a call and its transaction stays true as the chain goes *)
(* on.                                                                     *)

LEMMA SameAsked ==
  ASSUME NEW t, NEW u, Like(t, u)
  PROVE  /\ DesiredConf(t) = DesiredConf(u) /\ TypeOf(t) = TypeOf(u)
         /\ Simulates(t) = Simulates(u) /\ MarksIt(t) = MarksIt(u)
BY DEF Like, DesiredConf, TypeOf, Simulates, MarksIt

(* A transaction with the same contents: where the call stands is another. *)
Alike(tx, sent) ==
  /\ IsTx(tx) /\ tx # NoTx
  /\ sent # NoTx /\ tx.accounts = sent.accounts /\ tx.actions = sent.actions
  /\ tx.value = sent.value /\ tx.ethTo = sent.ethTo /\ tx.network = sent.network

StandsAt(new, tx, status, confirmations) ==
  Alike(new, tx) /\ new.status = status /\ new.confirmations = confirmations

LEMMA TxFacts ==
  ASSUME NEW tx, IsTx(tx), tx # NoTx
  PROVE  /\ tx.status \in {"sent", "pooled", "refused", "mined", "reverted", "lost"}
         /\ tx.confirmations \in Nat
         /\ \A status \in {"pooled", "refused", "mined", "reverted", "lost"} : \A heard :
              StandsAt([tx EXCEPT !.status = status, !.heard = heard], tx,
                       status, tx.confirmations)
         /\ \A n \in Nat :
              StandsAt([tx EXCEPT !.confirmations = n], tx, tx.status, n)
<1>1. tx = [status |-> tx.status, network |-> tx.network, target |-> tx.target,
            from |-> tx.from, value |-> tx.value, gas |-> tx.gas, ethTo |-> tx.ethTo,
            accounts |-> tx.accounts, actions |-> tx.actions,
            confirmations |-> tx.confirmations, heard |-> tx.heard]
      /\ tx.status \in {"sent", "pooled", "refused", "mined", "reverted", "lost"}
      /\ tx.confirmations \in Nat
  BY DEF IsTx
<1>2. NoTx.status = "none"
  BY DEF NoTx
<1>3. ASSUME NEW status \in {"pooled", "refused", "mined", "reverted", "lost"}, NEW heard
      PROVE  StandsAt([tx EXCEPT !.status = status, !.heard = heard], tx,
                      status, tx.confirmations)
  <2> DEFINE new == [tx EXCEPT !.status = status, !.heard = heard]
             n == [status |-> status, network |-> tx.network, target |-> tx.target,
                   from |-> tx.from, value |-> tx.value, gas |-> tx.gas, ethTo |-> tx.ethTo,
                   accounts |-> tx.accounts, actions |-> tx.actions,
                   confirmations |-> tx.confirmations, heard |-> heard]
  <2>1. DOMAIN tx = DOMAIN n
    BY <1>1
  <2>2. new = [f \in DOMAIN tx |-> IF f = "status" THEN status
                                   ELSE IF f = "heard" THEN heard ELSE tx[f]]
    BY <1>1
  <2>3. n = [f \in DOMAIN n |-> n[f]]
    OBVIOUS
  <2>4. ASSUME NEW f \in DOMAIN tx
        PROVE  n[f] = IF f = "status" THEN status ELSE IF f = "heard" THEN heard ELSE tx[f]
    BY <1>1, <2>4
  <2>5. new = n
    BY <2>1, <2>2, <2>3, <2>4
  <2>6. n.status = status
    OBVIOUS
  <2>7. n # NoTx
    BY <1>2, <2>6
  <2>8. IsTx(n)
    BY <1>1 DEF IsTx
  <2>9. Alike(n, tx)
    BY <2>7, <2>8 DEF Alike
  <2> QED
    BY <2>5, <2>9 DEF StandsAt
<1>4. ASSUME NEW n \in Nat
      PROVE  StandsAt([tx EXCEPT !.confirmations = n], tx, tx.status, n)
  <2> DEFINE new == [tx EXCEPT !.confirmations = n]
  <2>1. IsTx(new) /\ new.status = tx.status
    BY <1>1 DEF IsTx
  <2>2. new # NoTx
    BY <1>1, <1>2, <2>1
  <2> QED
    BY <1>1, <2>1, <2>2 DEF Alike, StandsAt
<1> QED
  BY <1>1, <1>3, <1>4

Bound(c, t, tx, of) == Belongs(c, t) /\ Carries(t, tx, of) /\ CarriesStandard(c, t, tx, of)

LEMMA BoundStill ==
  ASSUME NEW c, NEW t, NEW u, NEW tx, NEW new, NEW of,
         Bound(c, u, tx, of), Like(t, u), new = tx \/ Alike(new, tx)
  PROVE  Bound(c, t, new, of)
<1>1. Belongs(c, t)
  BY DEF Bound, Belongs, Like
<1>2. new # NoTx => /\ tx # NoTx /\ new.accounts = tx.accounts /\ new.actions = tx.actions
                    /\ new.value = tx.value /\ new.ethTo = tx.ethTo
  BY DEF Alike
<1>3. Carries(t, new, of)
  <2>1. MarksIt(t) = MarksIt(u)
    BY SameAsked
  <2> QED
    BY <1>2, <2>1 DEF Bound, Carries, Like, IsBatch
<1>4. CarriesStandard(c, t, new, of)
  BY <1>2 DEF Bound, CarriesStandard, Like
<1> QED
  BY <1>1, <1>3, <1>4 DEF Bound

LEMMA SoundParts ==
  ASSUME NEW c, NEW t, NEW tx, NEW of, t.stage # "idle"
  PROVE  CallSound(c, t, tx, of) <=>
           IsTx(tx) /\ IsTask(t) /\ Truthful(t, tx) /\ Bound(c, t, tx, of)
BY DEF CallSound, Bound

LEMMA StageKnown ==
  ASSUME NEW t, IsTask(t)
  PROVE  t.stage \in Stages /\ t.stage # "idle"
BY DEF IsTask, Stages

(* A transaction that a node takes, refuses, includes, reverts or that is  *)
(* given up, and what the call hears of it.                                *)
LEMMA AcceptTruth ==
  ASSUME NEW t, IsTask(t), NEW tx, Truthful(t, tx), tx # NoTx, tx.status = "sent",
         NEW new, new # NoTx, new.status = "pooled"
  PROVE  Truthful(OnHash(t), new)
<1> DEFINE u == OnHash(t)
<1>1. u = t \/ Becomes(u, t, "done", "resolved", t.confirmation, "hash")
  BY StageKnown, OnHashFacts
<1> HIDE DEF u
<1>2. Truthful(u, new)
  BY <1>1 DEF Becomes, Truthful
<1> QED
  BY <1>2 DEF u

LEMMA ErrorTruth ==
  ASSUME NEW t, IsTask(t), NEW tx, Truthful(t, tx), tx # NoTx,
         NEW new, new # NoTx,
         \/ tx.status = "sent" /\ new.status = "refused"
         \/ tx.status = "pooled" /\ new.status \in {"reverted", "lost"}
  PROVE  Truthful(OnError(t), new)
<1> DEFINE u == OnError(t)
<1>1. Failed(u, t)
  BY OnErrorFacts
<1> HIDE DEF u
<1>2. Truthful(u, new)
  BY <1>1 DEF Failed, Truthful
<1> QED
  BY <1>2 DEF u

LEMMA AssuredTruth ==
  ASSUME NEW t, IsTask(t), NEW tx, Truthful(t, tx), tx # NoTx,
         tx.status \in {"pooled", "mined"},
         NEW new, new # NoTx, new.status = "mined", new.confirmations \in Nat,
         tx.status = "mined" => tx.confirmations \in Nat /\ new.confirmations >= tx.confirmations,
         NEW u, u = t \/ (Assured(u, t) /\ new.confirmations >= DesiredConf(t))
  PROVE  Truthful(u, new)
<1>1. CASE u = t
  <2>1. DesiredConf(t) \in Nat
    BY DesiredFacts
  <2> QED
    BY <1>1, <2>1 DEF Truthful
<1>2. CASE Assured(u, t) /\ new.confirmations >= DesiredConf(t)
  <2>1. DesiredConf(u) = DesiredConf(t)
    BY <1>2, SameAsked DEF Assured
  <2> QED
    BY <1>2, <2>1 DEF Assured, Truthful
<1> QED
  BY <1>1, <1>2

-----------------------------------------------------------------------------
(* A call that is about to send what it carries.                           *)

Tells(task, op) ==
  /\ Fine(op)
  /\ MarksIt(task) => op.actions = task.promised
  /\ \A x \in task.standard :
       LET its == StandardOperation(x, task.asked)
       IN  op.accounts = its.accounts /\ op.actions = its.actions

Ready(c, task, of) ==
  /\ IsTask(task) /\ task.stage \in {"new", "block", "estimate"}
  /\ Truthful(task, NoTx) /\ Bound(c, task, NoTx, of)

LEMMA TransactionFacts ==
  ASSUME NEW task, NEW op
  PROVE  LET tx == Transaction(task, op)
         IN  /\ IsTx(tx) /\ tx # NoTx /\ tx.status = "sent"
             /\ tx.accounts = op.accounts /\ tx.actions = op.actions
             /\ tx.value = task.options.value /\ tx.ethTo = task.ethTo
<1> DEFINE tx == Transaction(task, op)
<1>1. tx.status = "sent" /\ tx.accounts = op.accounts /\ tx.actions = op.actions
      /\ tx.value = task.options.value /\ tx.ethTo = task.ethTo
  BY DEF Transaction
<1>2. NoTx.status = "none"
  BY DEF NoTx
<1>3. IsTx(tx)
  BY DEF Transaction, IsTx
<1> QED
  BY <1>1, <1>2, <1>3

LEMMA SentFacts ==
  ASSUME NEW task, IsTask(task)
  PROVE  LET u == Sent(task)
         IN  /\ IsTask(u) /\ Like(u, task) /\ u.stage \in {"sent", "done"}
             /\ u.hash = task.hash /\ u.confirmation = task.confirmation
             /\ u.ret \in {task.ret, "error", "hash"}
<1>1. Becomes(Settled(task, "error"), task, "done", task.hash, task.confirmation, "error")
  BY TaskFacts
<1>2. Becomes(Settled(task, "hash"), task, "done", task.hash, task.confirmation, "hash")
  BY TaskFacts
<1>3. Becomes([task EXCEPT !.stage = "sent"], task, "sent", task.hash, task.confirmation,
              task.ret)
  BY TaskFacts DEF Stages
<1> QED
  BY <1>1, <1>2, <1>3 DEF Sent, Becomes

(* The transaction carries what the call is bound to.                      *)
LEMMA SendSound ==
  ASSUME NEW c, NEW task, NEW op, NEW of, Ready(c, task, of), Tells(task, op)
  PROVE  /\ CallSound(c, Sent(task), Transaction(task, op), of)
         /\ Like(Sent(task), task) /\ Sent(task).stage # "idle"
<1> DEFINE u == Sent(task)   tx == Transaction(task, op)
<1>1. /\ IsTask(u) /\ Like(u, task) /\ u.stage \in {"sent", "done"}
      /\ u.hash = task.hash /\ u.confirmation = task.confirmation
      /\ u.ret \in {task.ret, "error", "hash"}
  BY SentFacts DEF Ready
<1>2. /\ IsTx(tx) /\ tx # NoTx /\ tx.status = "sent"
      /\ tx.accounts = op.accounts /\ tx.actions = op.actions
      /\ tx.value = task.options.value /\ tx.ethTo = task.ethTo
  BY TransactionFacts
<1> HIDE DEF u, tx
<1>3. NoTx.status = "none"
  BY DEF NoTx
<1>4. Truthful(u, tx)
  BY <1>1, <1>2, <1>3 DEF Ready, Truthful
<1>5. Bound(c, u, NoTx, of)
  BY <1>1, BoundStill DEF Ready
<1>6. IsBatch(tx)
  BY <1>2 DEF Tells, Fine, Built, IsBatch
<1>7. MarksIt(u) = MarksIt(task)
  BY <1>1, SameAsked
<1>8. Carries(u, tx, of)
  BY <1>1, <1>2, <1>5, <1>6, <1>7 DEF Bound, Carries, Tells, Like
<1>9. CarriesStandard(c, u, tx, of)
  BY <1>1, <1>2, <1>5 DEF Bound, CarriesStandard, Tells, Like
<1>10. Bound(c, u, tx, of)
  BY <1>5, <1>8, <1>9 DEF Bound
<1>11. CallSound(c, u, tx, of)
  BY <1>1, <1>2, <1>4, <1>10, SoundParts
<1> QED
  BY <1>1, <1>11 DEF u, tx

-----------------------------------------------------------------------------
(* A step of one call: what it comes to is sound, and the call is for what *)
(* it was for.                                                             *)

Stepped(c, task, of) ==
  \E t, tx :
    /\ calls' = [calls EXCEPT ![c] = t] /\ txs' = [txs EXCEPT ![c] = tx]
    /\ CallSound(c, t, tx, of) /\ t.stage # "idle" /\ Like(t, task)

LEMMA NothingSent ==
  ASSUME Sound, NEW c \in Calls, txs[c] = NoTx, UNCHANGED txs
  PROVE  txs' = [txs EXCEPT ![c] = NoTx]
BY DEF Sound

LEMMA WaitSound ==
  ASSUME NEW c, NEW task, NEW of, Ready(c, task, of), NEW stage \in {"block", "estimate"}
  PROVE  LET t == [task EXCEPT !.stage = stage]
         IN  /\ CallSound(c, t, NoTx, of) /\ t.stage # "idle" /\ Like(t, task)
<1> DEFINE t == [task EXCEPT !.stage = stage]
<1>1. Becomes(t, task, stage, task.hash, task.confirmation, task.ret)
  BY TaskFacts DEF Stages, Ready
<1> HIDE DEF t
<1>2. Truthful(t, NoTx)
  <2>1. NoTx.status = "none"
    BY DEF NoTx
  <2> QED
    BY <1>1, <2>1 DEF Becomes, Ready, Truthful
<1>3. Bound(c, t, NoTx, of)
  BY <1>1, BoundStill DEF Becomes, Ready
<1>4. IsTx(NoTx)
  BY DEF IsTx
<1>5. t.stage # "idle" /\ IsTask(t) /\ Like(t, task)
  BY <1>1 DEF Becomes
<1> QED
  BY <1>2, <1>3, <1>4, <1>5, SoundParts DEF t

LEMMA GasReady ==
  ASSUME NEW c, NEW task, NEW op, NEW of, Ready(c, task, of), Tells(task, op), NEW gas
  PROVE  LET t == [task EXCEPT !.gas = gas]
         IN  Ready(c, t, of) /\ Tells(t, op) /\ Like(t, task)
<1> DEFINE t == [task EXCEPT !.gas = gas]
<1>1. Becomes(t, task, task.stage, task.hash, task.confirmation, task.ret)
  BY TaskFacts DEF Ready
<1> HIDE DEF t
<1>2. Truthful(t, NoTx)
  <2>1. NoTx.status = "none"
    BY DEF NoTx
  <2> QED
    BY <1>1, <2>1 DEF Becomes, Ready, Truthful
<1>3. Bound(c, t, NoTx, of)
  BY <1>1, BoundStill DEF Becomes, Ready
<1>4. Tells(t, op)
  BY <1>1, SameAsked DEF Becomes, Tells, Like
<1> QED
  BY <1>1, <1>2, <1>3, <1>4 DEF Ready, Becomes, t

LEMMA LikeOn ==
  ASSUME NEW a, NEW b, NEW d, Like(a, b), Like(b, d)
  PROVE  Like(a, d)
BY DEF Like

LEMMA SendStep ==
  ASSUME NEW c, NEW task, NEW op, NEW of, Ready(c, task, of), Tells(task, op),
         NEW gas, Send(c, [task EXCEPT !.gas = gas], op)
  PROVE  Stepped(c, task, of)
<1> DEFINE t == [task EXCEPT !.gas = gas]
<1>1. Ready(c, t, of) /\ Tells(t, op) /\ Like(t, task)
  BY GasReady
<1>2. txs' = [txs EXCEPT ![c] = Transaction(t, op)] /\ calls' = [calls EXCEPT ![c] = Sent(t)]
  BY DEF Send
<1> HIDE DEF t
<1>3. /\ CallSound(c, Sent(t), Transaction(t, op), of)
      /\ Like(Sent(t), t) /\ Sent(t).stage # "idle"
  BY <1>1, SendSound
<1>4. Like(Sent(t), task)
  BY <1>1, <1>3, LikeOn
<1> QED
  BY <1>2, <1>3, <1>4 DEF Stepped

LEMMA PrepareStep ==
  ASSUME Sound, NEW c \in Calls, txs[c] = NoTx,
         NEW task, NEW op, NEW of, Ready(c, task, of), Tells(task, op), Prepare(c, task, op)
  PROVE  Stepped(c, task, of)
<1>1. CASE calls' = [calls EXCEPT ![c] = [task EXCEPT !.stage = "estimate"]] /\ UNCHANGED txs
  <2>1. txs' = [txs EXCEPT ![c] = NoTx]
    BY <1>1, NothingSent
  <2> DEFINE t == [task EXCEPT !.stage = "estimate"]
  <2>2. CallSound(c, t, NoTx, of) /\ t.stage # "idle" /\ Like(t, task)
    BY WaitSound
  <2>3. calls' = [calls EXCEPT ![c] = t]
    BY <1>1
  <2> HIDE DEF t
  <2> QED
    BY <2>1, <2>2, <2>3 DEF Stepped
<1>2. CASE \E gas : Send(c, [task EXCEPT !.gas = gas], op)
  BY <1>2, SendStep
<1> QED
  BY <1>1, <1>2 DEF Prepare

LEMMA CallStep ==
  ASSUME Sound, NEW c \in Calls, txs[c] = NoTx,
         NEW task, NEW op, NEW of, Ready(c, task, of), Tells(task, op),
         callContractFunction(c, task, op)
  PROVE  Stepped(c, task, of)
<1>1. CASE calls' = [calls EXCEPT ![c] = [task EXCEPT !.stage = "block"]] /\ UNCHANGED txs
  <2>1. txs' = [txs EXCEPT ![c] = NoTx]
    BY <1>1, NothingSent
  <2> DEFINE t == [task EXCEPT !.stage = "block"]
  <2>2. CallSound(c, t, NoTx, of) /\ t.stage # "idle" /\ Like(t, task)
    BY WaitSound
  <2>3. calls' = [calls EXCEPT ![c] = t]
    BY <1>1
  <2> HIDE DEF t
  <2> QED
    BY <2>1, <2>2, <2>3 DEF Stepped
<1>2. CASE Prepare(c, task, op)
  BY <1>2, PrepareStep
<1> QED
  BY <1>1, <1>2 DEF callContractFunction

(* A step of one call leaves everything sound, if it leaves the client and *)
(* the operations so, the other calls keep what they are bound to, and no  *)
(* two calls mark one operation.                                           *)
LEMMA Frame ==
  ASSUME Sound, NEW c \in Calls, NEW task, Stepped(c, task, ops'),
         ClientSound(client'), OperationsSound(ops'),
         \A d \in Calls \ {c} : CallSound(d, calls[d], txs[d], ops'),
         \A d \in Calls \ {c} :
           MarksIt(task) => ~(Begun(d) /\ MarksIt(calls[d]) /\ calls[d].op = task.op)
  PROVE  Sound'
<1>1. PICK t, tx :
        /\ calls' = [calls EXCEPT ![c] = t] /\ txs' = [txs EXCEPT ![c] = tx]
        /\ CallSound(c, t, tx, ops') /\ t.stage # "idle" /\ Like(t, task)
  BY DEF Stepped
<1>2. /\ calls' = [d \in Calls |-> calls'[d]] /\ txs' = [d \in Calls |-> txs'[d]]
      /\ calls'[c] = t /\ txs'[c] = tx
      /\ \A d \in Calls \ {c} : calls'[d] = calls[d] /\ txs'[d] = txs[d]
  BY <1>1 DEF Sound
<1>3. \A d \in Calls : CallSound(d, calls'[d], txs'[d], ops')
  BY <1>1, <1>2
<1>4. MarksIt(t) = MarksIt(task) /\ t.op = task.op
  BY <1>1, SameAsked DEF Like
<1>5. MarkedOnce'
  BY <1>2, <1>4 DEF Sound, MarkedOnce, Begun
<1> QED
  BY <1>2, <1>3, <1>5 DEF Sound

LEMMA CallFrame ==
  ASSUME Sound, NEW c \in Calls, Begun(c), Stepped(c, calls[c], ops), UNCHANGED ops,
         ClientSound(client')
  PROVE  Sound'
<1>1. ASSUME NEW d \in Calls \ {c}
      PROVE  MarksIt(calls[c]) => ~(Begun(d) /\ MarksIt(calls[d]) /\ calls[d].op = calls[c].op)
  BY <1>1 DEF Sound, MarkedOnce
<1> QED
  BY <1>1, Frame DEF Sound

(* An operation that is built further, or marked.                          *)
LEMMA OperationFrame ==
  ASSUME Sound, NEW o \in Operations \cup Calls, NEW op, ops' = [ops EXCEPT ![o] = op],
         Fine(op), op.committed \in BOOLEAN, o \in Operations => op.proxy \in Proxies,
         \A d \in Calls \ {o} : Begun(d) /\ MarksIt(calls[d]) /\ calls[d].op = o =>
           op.committed /\ op.actions = ops[o].actions
  PROVE  /\ OperationsSound(ops')
         /\ \A d \in Calls \ {o} : CallSound(d, calls[d], txs[d], ops')
<1>1. /\ ops' = [n \in Operations \cup Calls |-> ops'[n]] /\ ops'[o] = op
      /\ \A n \in (Operations \cup Calls) \ {o} : ops'[n] = ops[n]
  BY DEF Sound, OperationsSound
<1>2. OperationsSound(ops')
  BY <1>1 DEF Sound, OperationsSound, Fine
<1>3. ASSUME NEW d \in Calls \ {o}
      PROVE  CallSound(d, calls[d], txs[d], ops')
  <2>1. CallSound(d, calls[d], txs[d], ops)
    BY DEF Sound
  <2>2. CASE ~Begun(d)
    BY <2>1, <2>2 DEF CallSound, Begun
  <2>3. CASE Begun(d)
    <3>1. /\ IsTx(txs[d]) /\ IsTask(calls[d]) /\ Truthful(calls[d], txs[d])
          /\ Bound(d, calls[d], txs[d], ops)
      BY <2>1, <2>3, SoundParts DEF Begun
    <3>2. MarksIt(calls[d]) => calls[d].op \in Operations \cup Calls
      BY <3>1 DEF Bound, Belongs, MarksIt
    <3>3. Carries(calls[d], txs[d], ops')
      BY <1>1, <2>3, <3>1, <3>2 DEF Bound, Carries
    <3>4. CarriesStandard(d, calls[d], txs[d], ops')
      BY <1>1, <3>1 DEF Bound, CarriesStandard
    <3>5. Bound(d, calls[d], txs[d], ops')
      BY <3>1, <3>3, <3>4 DEF Bound
    <3> QED
      BY <2>3, <3>1, <3>5, SoundParts DEF Begun
  <2> QED
    BY <2>2, <2>3
<1> QED
  BY <1>2, <1>3

-----------------------------------------------------------------------------
(* A call that begins.                                                     *)

Fresh(t, target, o, options, ethTo, standard, promised) ==
  /\ IsTask(t) /\ t.stage = "new" /\ t.target = target /\ t.op = o /\ t.options = options
  /\ t.ethTo = ethTo /\ t.standard = standard /\ t.asked = client.network
  /\ t.promised = promised /\ t.hash = "initial" /\ t.confirmation = "initial"
  /\ t.ret = "none"

LEMMA NewCallFacts ==
  ASSUME NEW target, NEW o, NEW options \in CallOptionFields
  PROVE  Fresh(NewCall(target, o, options), target, o, options, ZERO, {}, <<>>)
<1> DEFINE t == NewCall(target, o, options)
<1>1. /\ t.stage = "new" /\ t.target = target /\ t.op = o /\ t.options = options
      /\ t.ethTo = ZERO /\ t.standard = {} /\ t.asked = client.network /\ t.promised = <<>>
      /\ t.hash = "initial" /\ t.confirmation = "initial" /\ t.ret = "none"
  BY DEF NewCall
<1>2. t = [stage |-> t.stage, target |-> t.target, op |-> t.op, options |-> t.options,
           gas |-> t.gas, via |-> t.via, ethTo |-> t.ethTo, standard |-> t.standard,
           asked |-> t.asked, promised |-> t.promised,
           hash |-> t.hash, confirmation |-> t.confirmation, ret |-> t.ret]
  BY DEF NewCall
<1> HIDE DEF t
<1>3. IsTask(t)
  BY <1>1, <1>2 DEF IsTask
<1> QED
  BY <1>1, <1>3 DEF Fresh, t

(* A fresh call, with fields that the methods that begin it fill in.       *)
LEMMA FreshFields ==
  ASSUME NEW t, NEW target, NEW o, NEW options, NEW ethTo, NEW standard, NEW promised,
         Fresh(t, target, o, options, ethTo, standard, promised), NEW v
  PROVE  /\ Fresh([t EXCEPT !.ethTo = v], target, o, options, v, standard, promised)
         /\ Fresh([t EXCEPT !.promised = v], target, o, options, ethTo, standard, v)
         /\ v \subseteq Standards =>
              Fresh([t EXCEPT !.standard = v], target, o, options, ethTo, v, promised)
<1>1. t = [stage |-> t.stage, target |-> t.target, op |-> t.op, options |-> t.options,
           gas |-> t.gas, via |-> t.via, ethTo |-> t.ethTo, standard |-> t.standard,
           asked |-> t.asked, promised |-> t.promised,
           hash |-> t.hash, confirmation |-> t.confirmation, ret |-> t.ret]
      /\ t.options \in CallOptionFields /\ t.standard \subseteq Standards
  BY DEF Fresh, IsTask
<1>2. Fresh([t EXCEPT !.ethTo = v], target, o, options, v, standard, promised)
  BY <1>1 DEF Fresh, IsTask
<1>3. Fresh([t EXCEPT !.promised = v], target, o, options, ethTo, standard, v)
  BY <1>1 DEF Fresh, IsTask
<1>4. v \subseteq Standards =>
        Fresh([t EXCEPT !.standard = v], target, o, options, ethTo, v, promised)
  BY <1>1 DEF Fresh, IsTask
<1> QED
  BY <1>2, <1>3, <1>4

LEMMA CommitCallFacts ==
  ASSUME NEW o, NEW op, NEW options \in CallOptionFields
  PROVE  Fresh(CommitCall(o, op, options), op.proxy, o, options,
               Or(op.sendEthTo, Or(options.from, client.from)), {}, op.actions)
<1> DEFINE t == NewCall(op.proxy, o, options)
           to == Or(op.sendEthTo, Or(options.from, client.from))
           u == [t EXCEPT !.promised = op.actions]
           w == [u EXCEPT !.ethTo = to]
<1>1. CommitCall(o, op, options) = w
  BY DEF CommitCall, NewCall
<1>2. Fresh(t, op.proxy, o, options, ZERO, {}, <<>>)
  BY NewCallFacts
<1> HIDE DEF t, to
<1>3. Fresh(u, op.proxy, o, options, ZERO, {}, op.actions)
  BY <1>2, FreshFields
<1> HIDE DEF u
<1>4. Fresh(w, op.proxy, o, options, to, {}, op.actions)
  BY <1>3, FreshFields
<1> QED
  BY <1>1, <1>4 DEF to

LEMMA FreshReady ==
  ASSUME NEW c, NEW t, NEW target, NEW o, NEW options, NEW ethTo, NEW standard, NEW promised,
         Fresh(t, target, o, options, ethTo, standard, promised), NEW of,
         Belongs(c, t), Carries(t, NoTx, of), CarriesStandard(c, t, NoTx, of)
  PROVE  Ready(c, t, of)
<1>1. Truthful(t, NoTx)
  BY DEF Fresh, Truthful
<1> QED
  BY <1>1 DEF Fresh, Ready, Bound

LEMMA CommittedFacts ==
  ASSUME NEW op, Fine(op), op.committed \in BOOLEAN, NEW options
  PROVE  LET new == Committed(op, options)
         IN  /\ Fine(new) /\ new.committed \in BOOLEAN /\ new.proxy = op.proxy
             /\ new.accounts = op.accounts /\ new.actions = op.actions
             /\ options.given /\ options.confirmationType # ConfirmationType.Simulate =>
                  new.committed
<1> DEFINE new == [op EXCEPT !.committed = TRUE]
<1>1. /\ IsOperation(new) /\ new.committed = TRUE /\ new.proxy = op.proxy
      /\ new.accounts = op.accounts /\ new.actions = op.actions
  <2>1. \A v : LET m == [op EXCEPT !.committed = v]
               IN  /\ IsOperation(m) /\ m.committed = v /\ m.proxy = op.proxy
                   /\ m.accounts = op.accounts /\ m.actions = op.actions
    <3>1. IsOperation(op)
      BY DEF Fine
    <3> QED
      BY <3>1 DEF IsOperation
  <2> QED
    BY <2>1
<1>2. Fine(new)
  BY <1>1 DEF Fine, Built, IsBatch
<1> QED
  BY <1>1, <1>2 DEF Committed

LEMMA IdleFacts ==
  ASSUME Sound, NEW c \in Calls, calls[c].stage = "idle"
  PROVE  txs[c] = NoTx /\ ~Begun(c)
BY DEF Sound, CallSound, Begun

LEMMA OperationFacts ==
  ASSUME Sound, NEW o \in Operations \cup Calls
  PROVE  /\ Fine(ops[o]) /\ ops[o].committed \in BOOLEAN
         /\ o \in Operations => ops[o].proxy \in Proxies /\ ops[o].proxy # "pair" /\ o \notin Calls
<1>1. \A proxy \in Proxies : proxy # "pair"
  BY CallsAssumption DEF ProxyType
<1> QED
  BY <1>1, CallsAssumption DEF Sound, OperationsSound, Fine

-----------------------------------------------------------------------------
(* The callers                                                             *)

LEMMA AddStep ==
  ASSUME Sound, NEW o \in Operations, NEW x \in Items, Add(o, x)
  PROVE  Sound'
<1> DEFINE op == Build(ops[o], x)
<1>1. Fine(ops[o]) /\ ops[o].committed \in BOOLEAN /\ ops[o].proxy \in Proxies /\ o \notin Calls
  BY OperationFacts
<1>2. IsItem(x)
  BY CallsAssumption
<1>3. Fine(op) /\ Keeps(op, ops[o])
  BY <1>1, <1>2, BuildFacts DEF Kept
<1>4. ops' = [ops EXCEPT ![o] = op] /\ UNCHANGED <<client, calls, txs>>
  BY DEF Add, Sound, OperationsSound
<1> HIDE DEF op
<1>5. op.committed \in BOOLEAN /\ op.proxy \in Proxies
  BY <1>1, <1>3 DEF Keeps
<1>6. ASSUME NEW d \in Calls \ {o}, Begun(d), MarksIt(calls[d]), calls[d].op = o
      PROVE  op.committed /\ op.actions = ops[o].actions
  <2>1. CallSound(d, calls[d], txs[d], ops)
    BY DEF Sound
  <2>2. ops[o].committed
    BY <1>6, <2>1 DEF CallSound, Begun, Carries
  <2> QED
    BY <1>3, <2>2 DEF Keeps
<1>7. /\ OperationsSound(ops')
      /\ \A d \in Calls \ {o} : CallSound(d, calls[d], txs[d], ops')
  BY <1>3, <1>4, <1>5, <1>6, OperationFrame
<1>8. MarkedOnce'
  BY <1>4 DEF Sound, MarkedOnce, Begun
<1> QED
  BY <1>1, <1>4, <1>7, <1>8 DEF Sound

LEMMA CommitStep ==
  ASSUME Sound, NEW c \in Calls, NEW o \in Operations, NEW options \in CallOptions,
         Commit(c, o, options)
  PROVE  Sound'
<1> DEFINE op == ops[o]
           new == Committed(op, options)
           task == CommitCall(o, op, options)
           to == Or(op.sendEthTo, Or(options.from, client.from))
<1>1. /\ calls[c].stage = "idle" /\ ~op.committed
      /\ ops' = [ops EXCEPT ![o] = new] /\ callContractFunction(c, task, op)
      /\ UNCHANGED client
  BY DEF Commit, MayCommit, Sound, OperationsSound
<1>2. /\ Fine(op) /\ op.committed \in BOOLEAN /\ op.proxy \in Proxies /\ op.proxy # "pair"
      /\ o \notin Calls
  BY OperationFacts
<1>3. options \in CallOptionFields
  BY CallsAssumption
<1>4. Fresh(task, op.proxy, o, options, to, {}, op.actions)
  BY <1>3, CommitCallFacts
<1> HIDE DEF op, task, to
<1>5. /\ Fine(new) /\ new.committed \in BOOLEAN /\ new.proxy = op.proxy
      /\ new.actions = op.actions
      /\ options.given /\ options.confirmationType # ConfirmationType.Simulate => new.committed
  BY <1>2, CommittedFacts
<1>6. txs[c] = NoTx /\ ~Begun(c)
  BY <1>1, IdleFacts
<1> HIDE DEF new
<1>7. ASSUME NEW d \in Calls, Begun(d), MarksIt(calls[d]), calls[d].op = o
      PROVE  FALSE
  <2>1. CallSound(d, calls[d], txs[d], ops)
    BY DEF Sound
  <2> QED
    BY <1>1, <1>7, <2>1 DEF CallSound, Begun, Carries, op
<1>8. /\ OperationsSound(ops')
      /\ \A d \in Calls \ {o} : CallSound(d, calls[d], txs[d], ops')
  BY <1>1, <1>2, <1>5, <1>7, OperationFrame
<1>9. ops'[o] = new
  BY <1>1 DEF Sound, OperationsSound
<1>10. Ready(c, task, ops')
  <2>1. Belongs(c, task)
    BY <1>2, <1>4 DEF Belongs, Fresh
  <2>2. Carries(task, NoTx, ops')
    BY <1>4, <1>5, <1>9 DEF Carries, Fresh, MarksIt, Simulates
  <2>3. CarriesStandard(c, task, NoTx, ops')
    BY <1>4 DEF CarriesStandard, Fresh
  <2> QED
    BY <1>4, <2>1, <2>2, <2>3, FreshReady
<1>11. Tells(task, op)
  BY <1>2, <1>4 DEF Tells, Fresh
<1>12. Stepped(c, task, ops')
  BY <1>1, <1>6, <1>10, <1>11, CallStep
<1>13. \A d \in Calls \ {c} :
         MarksIt(task) => ~(Begun(d) /\ MarksIt(calls[d]) /\ calls[d].op = task.op)
  BY <1>4, <1>7 DEF Fresh
<1>14. ClientSound(client')
  BY <1>1 DEF Sound
<1>15. \A d \in Calls \ {c} : CallSound(d, calls[d], txs[d], ops')
  BY <1>2, <1>8
<1> QED
  BY <1>8, <1>12, <1>13, <1>14, <1>15, Frame

-----------------------------------------------------------------------------
(* The operation of a standard action: one action, of its owner's account. *)

LEMMA ReceiverKept ==
  ASSUME NEW op, IsOperation(op), NEW primary, NEW type, NEW args
  PROVE  AddActionArgs(op, primary, type, args).sendEthTo = op.sendEthTo
<1>1. \A o, v : IsOperation(o) =>
        /\ IsOperation([o EXCEPT !.accounts = v])
        /\ [o EXCEPT !.accounts = v].sendEthTo = o.sendEthTo
        /\ [o EXCEPT !.actions = v].sendEthTo = o.sendEthTo
  BY DEF IsOperation
<1>2. LET o == WithAccount(op, primary) IN IsOperation(o) /\ o.sendEthTo = op.sendEthTo
  BY <1>1 DEF WithAccount
<1> QED
  BY <1>1, <1>2 DEF AddActionArgs

LEMMA StandardFields ==
  ASSUME NEW x \in Standards
  PROVE  /\ x.method \in {"deposit", "withdraw", "withdrawToZero"} /\ x.owner \in Owners
         /\ x.owner # ZERO /\ x.owner \in Addresses /\ x.amount \in Nat
         /\ RealMarket(x) \in Nat
         /\ IsEth(x) => RealMarket(x) = MarketId.WETH
         /\ x.options \in CallOptionFields /\ StandardOptions(x, x.options) \in CallOptionFields
<1>1. x \in [method : {"deposit", "withdraw", "withdrawToZero"}, owner : Owners,
              marketId : Nat \cup {MarketId.ETH}, amount : Nat, options : CallOptionFields]
  BY CallsAssumption
<1>2. x.owner # ZERO /\ x.owner \in Addresses
  BY <1>1, ZeroAssumption DEF Addresses
<1>3. MarketId.WETH = 0 /\ MarketId.ETH = -1
  BY DEF MarketId
<1>4. RealMarket(x) \in Nat /\ (IsEth(x) => RealMarket(x) = MarketId.WETH)
  BY <1>1, <1>3 DEF RealMarket, IsEth
<1>5. StandardOptions(x, x.options) \in CallOptionFields
  <2> DEFINE o == x.options
             from == Or(o.from, x.owner)
             value == IF IsEth(x) /\ x.method = "deposit" /\ o.value = 0 THEN x.amount ELSE o.value
  <2>1. o \in CallOptionFields /\ from \in Owners \cup {ZERO} /\ value \in Nat
    BY <1>1 DEF CallOptionFields, Or
  <2>2. StandardOptions(x, o) = [o EXCEPT !.given = TRUE, !.from = from, !.value = value]
    BY <2>1 DEF StandardOptions, CallOptionFields
  <2> HIDE DEF o, from, value
  <2>3. [o EXCEPT !.given = TRUE, !.from = from, !.value = value] \in CallOptionFields
    BY <2>1 DEF CallOptionFields
  <2> QED
    BY <2>2, <2>3 DEF o
<1> QED
  BY <1>1, <1>2, <1>4, <1>5

(* The one action, and whose account it is of.                             *)
Moves(op, x, network) ==
  LET a == op.actions[1]
  IN  /\ op.accounts[a.accountId + 1].owner = x.owner
      /\ a.otherAddress = Counterparty(x, network) /\ a.primaryMarketId = RealMarket(x)
      /\ \/ x.method = "deposit" /\ a.actionType = "Deposit" /\ a.amount.value = x.amount
         \/ /\ x.method # "deposit" /\ a.actionType = "Withdraw"
            /\ a.amount.sign = FALSE \/ a.amount.ref = "Target"

Moved(o, op, primary, type, amount, to, market) ==
  LET a == o.actions[1]
  IN  /\ o.accounts[a.accountId + 1] = primary /\ a.actionType = type
      /\ a.otherAddress = to /\ a.primaryMarketId = market
      /\ a.amount = AmountArgs(amount) /\ o.sendEthTo = op.sendEthTo

LEMMA MoveFacts ==
  ASSUME NEW op, Fine(op), op.actions = <<>>, op.committed = FALSE,
         NEW primary \in NamedAccount, NEW type \in {"Deposit", "Withdraw"},
         NEW amount \in Amount, NEW to \in Addresses, NEW market \in Nat
  PROVE  Moved(AddActionArgs(op, primary, type,
                 [amount |-> AmountArgs(amount), otherAddress |-> to,
                  primaryMarketId |-> market]),
               op, primary, type, amount, to, market)
<1> DEFINE args == [amount |-> AmountArgs(amount), otherAddress |-> to,
                    primaryMarketId |-> market]
           o == AddActionArgs(op, primary, type, args)
<1>1. /\ Given(args).amount = AmountArgs(amount) /\ Given(args).otherAddress = to
      /\ Given(args).primaryMarketId = market /\ Given(args).secondaryMarketId = 0
      /\ Given(args).otherAccountId = 0
  BY GivenFields
<1>2. Fitting(args, Len(op.accounts))
  BY <1>1, AmountFacts DEF Fitting
<1> HIDE DEF args
<1>3. type \in ActionTypes
  BY DEF ActionTypes
<1>4. AddedTo(o, op, primary, type, args)
  BY <1>2, <1>3, AddArgsFacts
<1> HIDE DEF o
<1>5. PICK id : o.actions[Len(op.actions) + 1] = TheAction(type, id, args)
                /\ o.accounts[id + 1] = primary
  BY <1>4 DEF AddedTo
<1>6. Len(op.actions) + 1 = 1
  OBVIOUS
<1>7. LET a == TheAction(type, id, args)
      IN  /\ a.actionType = type /\ a.accountId = id
          /\ a.primaryMarketId = market /\ a.otherAddress = to /\ a.amount = AmountArgs(amount)
  BY <1>1, ActionFields
<1>8. o.sendEthTo = op.sendEthTo
  <2>1. IsOperation(op)
    BY DEF Fine
  <2> QED
    BY <2>1, ReceiverKept DEF o
<1>9. Moved(o, op, primary, type, amount, to, market)
  BY <1>5, <1>6, <1>7, <1>8 DEF Moved
<1> QED
  BY <1>9 DEF o, args

LEMMA NegatedFacts ==
  ASSUME NEW n \in Nat
  PROVE  Negated(Int_(n)) \in Integer /\ Negated(Int_(n)).neg = TRUE
<1> DEFINE v == Int_(n)
<1>1. v.neg = FALSE /\ v.abs = n
  <2>1. (n < 0) = FALSE
    OBVIOUS
  <2>2. (IF n < 0 THEN -n ELSE n) = n
    OBVIOUS
  <2>3. v = [neg |-> FALSE, abs |-> n]
    BY <2>1, <2>2, Zenon DEF Int_
  <2> HIDE DEF v
  <2> QED
    BY <2>3
<1> HIDE DEF v
<1>2. Negated(v).neg = TRUE /\ Negated(v).abs = n
  BY <1>1 DEF Negated
<1>3. Negated(v) = [neg |-> TRUE, abs |-> n]
  <2>1. (~v.neg) = TRUE
    BY <1>1
  <2> QED
    BY <1>1, <2>1, Zenon DEF Negated
<1>4. Negated(v) \in Integer
  BY <1>3 DEF Integer
<1> QED
  BY <1>2, <1>4 DEF v

MadeFor(o, op, x, network) ==
  Kept(o, op) /\ o.sendEthTo = op.sendEthTo /\ Moves(o, x, network)

LEMMA StandardItemFacts ==
  ASSUME NEW x \in Standards, NEW network \in Networks,
         NEW op, Fine(op), op.actions = <<>>, op.committed = FALSE
  PROVE  MadeFor(Build(op, StandardItem(x, network)), op, x, network)
<1> DEFINE item == StandardItem(x, network)
           o == Build(op, item)
           primary == [owner |-> x.owner, number |-> 0]
           to == Counterparty(x, network)
           market == RealMarket(x)
<1>1. /\ x.method \in {"deposit", "withdraw", "withdrawToZero"} /\ x.owner \in Addresses \ {ZERO}
      /\ x.amount \in Nat /\ market \in Nat
  BY StandardFields
<1>2. primary \in NamedAccount
  BY <1>1 DEF NamedAccount
<1>3. to \in Addresses
  BY <1>1, CallsAssumption DEF Counterparty, Addresses
<1>4. primary.owner = x.owner
  OBVIOUS
<1> HIDE DEF primary, to, market
<1>5. \A type \in {"Deposit", "Withdraw"} : \A amount \in Amount :
        Moved(AddActionArgs(op, primary, type,
                [amount |-> AmountArgs(amount), otherAddress |-> to,
                 primaryMarketId |-> market]),
              op, primary, type, amount, to, market)
  BY <1>1, <1>2, <1>3, MoveFacts
<1>6. CASE x.method = "deposit"
  <2> DEFINE amount == [value |-> Int_(x.amount), denomination |-> "Wei", reference |-> "Delta"]
  <2>1. amount \in Amount /\ AmountArgs(amount).value = x.amount
    BY <1>1 DEF Amount, Integer, AmountDenomination, AmountReference, Int_, AmountArgs
  <2>2. item = [method |-> "deposit", primary |-> primary, marketId |-> market,
                from |-> to, amount |-> amount]
    BY <1>6 DEF StandardItem, primary, to, market
  <2> HIDE DEF amount, item
  <2>3. IsItem(item)
    BY <1>1, <1>2, <1>3, <2>1, <2>2 DEF IsItem
  <2>4. o = AddActionArgs(op, primary, "Deposit",
              [amount |-> AmountArgs(amount), otherAddress |-> to, primaryMarketId |-> market])
    BY <2>2 DEF Build, deposit
  <2>5. Kept(o, op)
    BY <2>3, BuildFacts
  <2>6. Moves(o, x, network) /\ o.sendEthTo = op.sendEthTo
    BY <1>4, <1>5, <1>6, <2>1, <2>4 DEF Moves, Moved, to, market
  <2> QED
    BY <2>5, <2>6 DEF item, MadeFor
<1>7. ASSUME NEW amount \in Amount, x.method # "deposit",
             item = [method |-> "withdraw", primary |-> primary, marketId |-> market,
                     to |-> to, amount |-> amount],
             AmountArgs(amount).sign = FALSE \/ AmountArgs(amount).ref = "Target"
      PROVE  MadeFor(o, op, x, network)
  <2> HIDE DEF item
  <2>1. IsItem(item)
    BY <1>1, <1>2, <1>3, <1>7 DEF IsItem
  <2>2. o = AddActionArgs(op, primary, "Withdraw",
              [amount |-> AmountArgs(amount), otherAddress |-> to, primaryMarketId |-> market])
    BY <1>7 DEF Build, withdraw
  <2>3. Kept(o, op)
    BY <2>1, BuildFacts
  <2> HIDE DEF o
  <2>4. Moves(o, x, network) /\ o.sendEthTo = op.sendEthTo
    BY <1>4, <1>5, <1>7, <2>2 DEF Moves, Moved, to, market
  <2> QED
    BY <2>3, <2>4 DEF MadeFor
<1>8. CASE x.method = "withdraw"
  <2> DEFINE amount == [value |-> Negated(Int_(x.amount)), denomination |-> "Wei",
                        reference |-> "Delta"]
  <2>1. amount \in Amount /\ AmountArgs(amount).sign = FALSE
    <3> DEFINE v == Negated(Int_(x.amount))
    <3>1. v \in Integer /\ v.neg = TRUE
      BY <1>1, NegatedFacts
    <3> HIDE DEF v
    <3>2. amount \in Amount /\ amount.value = v
      BY <3>1 DEF Amount, AmountDenomination, AmountReference, v
    <3> HIDE DEF amount
    <3>3. AmountArgs(amount).sign = ~v.neg
      BY <3>2 DEF AmountArgs
    <3> QED
      BY <3>1, <3>2, <3>3
  <2>2. item = [method |-> "withdraw", primary |-> primary, marketId |-> market,
                to |-> to, amount |-> amount]
    BY <1>8 DEF StandardItem, primary, to, market
  <2> HIDE DEF amount, item, o
  <2> QED
    BY <1>7, <1>8, <2>1, <2>2 DEF o, item
<1>9. CASE x.method = "withdrawToZero"
  <2> DEFINE amount == [value |-> Int_(0), denomination |-> "Par", reference |-> "Target"]
  <2>1. amount \in Amount /\ AmountArgs(amount).ref = "Target"
    BY <1>1 DEF Amount, Integer, AmountDenomination, AmountReference, Int_, AmountArgs
  <2>2. item = [method |-> "withdraw", primary |-> primary, marketId |-> market,
                to |-> to, amount |-> amount]
    BY <1>9 DEF StandardItem, primary, to, market
  <2> HIDE DEF amount, item, o
  <2> QED
    BY <1>7, <1>9, <2>1, <2>2 DEF o, item
<1> QED
  BY <1>1, <1>6, <1>8, <1>9

LEMMA StandardOperationFacts ==
  ASSUME NEW x \in Standards, NEW network \in Networks
  PROVE  LET op == StandardOperation(x, network)
         IN  /\ Fine(op) /\ op.committed = FALSE /\ op.proxy # "pair"
             /\ op.sendEthTo = x.owner /\ Moves(op, x, network)
<1> DEFINE proxy == IF IsEth(x) THEN ProxyType.Payable ELSE ProxyType.None
           start == Initiate(proxy, x.owner)
<1>1. /\ Fine(start) /\ start.committed = FALSE /\ start.actions = <<>>
  BY InitiateFacts
<1>2. start.proxy = proxy /\ start.sendEthTo = x.owner /\ proxy # "pair"
  BY DEF Initiate, ProxyType
<1>3. StandardOperation(x, network) = Build(start, StandardItem(x, network))
  BY DEF StandardOperation
<1> HIDE DEF start, proxy
<1>4. MadeFor(Build(start, StandardItem(x, network)), start, x, network)
  BY <1>1, StandardItemFacts
<1> QED
  BY <1>1, <1>2, <1>3, <1>4 DEF MadeFor, Kept, Keeps

LEMMA StandardStep ==
  ASSUME Sound, NEW c \in Calls, NEW x \in Standards, Standard(c, x)
  PROVE  Sound'
<1> DEFINE network == client.network
           op == StandardOperation(x, network)
           given == StandardOptions(x, x.options)
           new == Committed(op, given)
           plain == CommitCall(c, op, given)
           task == [plain EXCEPT !.standard = {x}]
           to == Or(op.sendEthTo, Or(given.from, client.from))
<1>1. /\ calls[c].stage = "idle" /\ ops' = [ops EXCEPT ![c] = new]
      /\ callContractFunction(c, task, op) /\ UNCHANGED client
  BY DEF Standard
<1>2. network \in Networks
  BY DEF Sound, ClientSound
<1>3. /\ Fine(op) /\ op.committed = FALSE /\ op.proxy # "pair" /\ op.sendEthTo = x.owner
  BY <1>2, StandardOperationFacts
<1>4. given \in CallOptionFields /\ x.owner # ZERO
  BY StandardFields
<1>5. to = x.owner
  BY <1>3, <1>4 DEF Or
<1>6. Fresh(plain, op.proxy, c, given, to, {}, op.actions)
  BY <1>4, CommitCallFacts
<1>7. op = StandardOperation(x, network) /\ network = client.network
      /\ given = StandardOptions(x, x.options)
  OBVIOUS
<1> HIDE DEF plain, to, given, op, network
<1>8. Fresh(task, op.proxy, c, given, to, {x}, op.actions)
  BY <1>6, FreshFields
<1> HIDE DEF task
<1>9. /\ Fine(new) /\ new.committed \in BOOLEAN
      /\ new.accounts = op.accounts /\ new.actions = op.actions
      /\ given.given /\ given.confirmationType # ConfirmationType.Simulate => new.committed
  BY <1>3, CommittedFacts
<1> HIDE DEF new
<1>10. txs[c] = NoTx /\ ~Begun(c) /\ c \notin Operations
  BY <1>1, IdleFacts, CallsAssumption
<1>11. ASSUME NEW d \in Calls \ {c}, Begun(d), MarksIt(calls[d]), calls[d].op = c
       PROVE  FALSE
  <2>1. CallSound(d, calls[d], txs[d], ops)
    BY DEF Sound
  <2> QED
    BY <1>10, <1>11, <2>1 DEF CallSound, Begun, Belongs, MarksIt
<1>12. /\ OperationsSound(ops')
       /\ \A d \in Calls \ {c} : CallSound(d, calls[d], txs[d], ops')
  BY <1>1, <1>9, <1>10, <1>11, OperationFrame
<1>13. ops'[c] = new
  BY <1>1 DEF Sound, OperationsSound
<1>14. Ready(c, task, ops')
  <2>1. Belongs(c, task)
    BY <1>3, <1>8 DEF Belongs, Fresh
  <2>2. Carries(task, NoTx, ops')
    BY <1>8, <1>9, <1>13 DEF Carries, Fresh, MarksIt, Simulates
  <2>3. CarriesStandard(c, task, NoTx, ops')
    BY <1>2, <1>5, <1>7, <1>8, <1>9, <1>13 DEF CarriesStandard, Fresh
  <2> QED
    BY <1>8, <2>1, <2>2, <2>3, FreshReady
<1>15. Tells(task, op)
  BY <1>3, <1>7, <1>8 DEF Tells, Fresh
<1>16. Stepped(c, task, ops')
  BY <1>1, <1>10, <1>14, <1>15, CallStep
<1>17. \A d \in Calls \ {c} :
         MarksIt(task) => ~(Begun(d) /\ MarksIt(calls[d]) /\ calls[d].op = task.op)
  BY <1>8, <1>11 DEF Fresh
<1>18. ClientSound(client')
  BY <1>1 DEF Sound
<1> QED
  BY <1>12, <1>16, <1>17, <1>18, Frame

LEMMA CallPairStep ==
  ASSUME Sound, NEW c \in Calls, NEW options \in PairOptions, CallPair(c, options)
  PROVE  Sound'
<1> DEFINE task == NewCall("pair", "none", options)
<1>1. /\ calls[c].stage = "idle" /\ callContractFunction(c, task, NoOperation)
      /\ UNCHANGED <<client, ops>>
  BY DEF CallPair
<1>2. Fresh(task, "pair", "none", options, ZERO, {}, <<>>)
  BY CallsAssumption, NewCallFacts
<1> HIDE DEF task
<1>3. ~MarksIt(task)
  BY <1>2 DEF Fresh, MarksIt
<1>4. Ready(c, task, ops')
  <2>1. Belongs(c, task)
    BY <1>2 DEF Belongs, Fresh
  <2>2. Carries(task, NoTx, ops')
    BY <1>3 DEF Carries
  <2>3. CarriesStandard(c, task, NoTx, ops')
    BY <1>2 DEF CarriesStandard, Fresh
  <2> QED
    BY <1>2, <2>1, <2>2, <2>3, FreshReady
<1>5. Tells(task, NoOperation)
  <2>1. Fine(NoOperation)
    BY InitiateFacts DEF NoOperation
  <2> QED
    BY <1>2, <1>3, <2>1 DEF Tells, Fresh
<1>6. txs[c] = NoTx
  BY <1>1, IdleFacts
<1>7. Stepped(c, task, ops')
  BY <1>1, <1>4, <1>5, <1>6, CallStep
<1>8. ClientSound(client') /\ OperationsSound(ops')
      /\ \A d \in Calls : CallSound(d, calls[d], txs[d], ops')
  BY <1>1 DEF Sound
<1> QED
  BY <1>3, <1>7, <1>8, Frame

-----------------------------------------------------------------------------
(* The node                                                                *)

LEMMA BegunFacts ==
  ASSUME Sound, NEW c \in Calls, calls[c].stage # "idle"
  PROVE  /\ Begun(c) /\ IsTx(txs[c]) /\ IsTask(calls[c]) /\ Truthful(calls[c], txs[c])
         /\ Bound(c, calls[c], txs[c], ops)
BY SoundParts DEF Sound, Begun

(* A call that waits has nothing sent, and an operation that is as it has  *)
(* to be sent.                                                             *)
LEMMA WaitingFacts ==
  ASSUME Sound, NEW c \in Calls, calls[c].stage \in {"block", "estimate"}
  PROVE  /\ Begun(c) /\ txs[c] = NoTx
         /\ Ready(c, calls[c], ops) /\ Tells(calls[c], OperationOf(calls[c]))
<1> DEFINE t == calls[c]   op == OperationOf(t)
<1>1. /\ Begun(c) /\ IsTask(t) /\ Truthful(t, txs[c]) /\ Bound(c, t, txs[c], ops)
  BY BegunFacts
<1>2. txs[c] = NoTx
  BY <1>1 DEF Truthful
<1>3. Ready(c, t, ops)
  BY <1>1, <1>2 DEF Ready
<1>4. Fine(op)
  <2>1. CASE t.target = "pair"
    BY <2>1, InitiateFacts DEF OperationOf, NoOperation
  <2>2. CASE t.target # "pair"
    <3>1. t.op \in Operations \cup Calls
      BY <1>1, <2>2 DEF Bound, Belongs
    <3> QED
      BY <2>2, <3>1, OperationFacts DEF OperationOf
  <2> QED
    BY <2>1, <2>2
<1>5. MarksIt(t) => op.actions = t.promised
  BY <1>1 DEF Bound, Carries, MarksIt, OperationOf
<1>6. \A x \in t.standard :
        LET its == StandardOperation(x, t.asked)
        IN  op.accounts = its.accounts /\ op.actions = its.actions
  BY <1>1 DEF Bound, Belongs, CarriesStandard, OperationOf
<1> QED
  BY <1>1, <1>2, <1>3, <1>4, <1>5, <1>6 DEF Tells

LEMMA GasLimitKnownStep ==
  ASSUME Sound, NEW c \in Calls, GasLimitKnown(c)
  PROVE  Sound'
<1>1. calls[c].stage = "block"
  BY DEF GasLimitKnown
<1>2. /\ Begun(c) /\ txs[c] = NoTx
      /\ Ready(c, calls[c], ops) /\ Tells(calls[c], OperationOf(calls[c]))
  BY <1>1, WaitingFacts
<1>3. Prepare(c, calls[c], OperationOf(calls[c])) /\ UNCHANGED ops
  BY DEF GasLimitKnown
<1>4. Stepped(c, calls[c], ops)
  BY <1>2, <1>3, PrepareStep
<1>5. ClientSound(client')
  <2>1. \A of, v : ClientSound(of) => ClientSound([of EXCEPT !.blockGasLimit = v])
    BY DEF ClientSound
  <2> QED
    BY <2>1 DEF Sound, GasLimitKnown
<1> QED
  BY <1>2, <1>3, <1>4, <1>5, CallFrame

LEMMA NothingMore ==
  ASSUME Sound, NEW c \in Calls, calls[c].stage \in {"block", "estimate"},
         NEW gas, NEW how, how \in {"error", "simulated"},
         calls' = [calls EXCEPT ![c] = Settled([calls[c] EXCEPT !.gas = gas], how)]
           \/ calls' = [calls EXCEPT ![c] = Settled(calls[c], how)],
         UNCHANGED txs
  PROVE  Stepped(c, calls[c], ops)
<1>1. /\ Begun(c) /\ txs[c] = NoTx /\ Ready(c, calls[c], ops)
      /\ Tells(calls[c], OperationOf(calls[c]))
  BY WaitingFacts
<1>2. ASSUME NEW t, Ready(c, t, ops), Like(t, calls[c]),
             calls' = [calls EXCEPT ![c] = Settled(t, how)]
      PROVE  Stepped(c, calls[c], ops)
  <2> DEFINE u == Settled(t, how)
  <2>1. Becomes(u, t, "done", t.hash, t.confirmation, how)
    BY <1>2, TaskFacts DEF Ready
  <2> HIDE DEF u
  <2>2. NoTx.status = "none"
    BY DEF NoTx
  <2>3. Truthful(u, NoTx)
    BY <1>2, <2>1, <2>2 DEF Becomes, Ready, Truthful
  <2>4. Bound(c, u, NoTx, ops)
    BY <1>2, <2>1, BoundStill DEF Becomes, Ready
  <2>5. IsTx(NoTx)
    BY DEF IsTx
  <2>6. u.stage # "idle" /\ IsTask(u) /\ Like(u, calls[c])
    BY <1>2, <2>1, LikeOn DEF Becomes
  <2>7. CallSound(c, u, NoTx, ops)
    BY <2>3, <2>4, <2>5, <2>6, SoundParts
  <2>8. calls' = [calls EXCEPT ![c] = u]
    BY <1>2 DEF u
  <2>9. txs' = [txs EXCEPT ![c] = NoTx]
    BY <1>1, NothingSent
  <2> QED
    BY <2>6, <2>7, <2>8, <2>9 DEF Stepped
<1>3. Like(calls[c], calls[c])
  BY DEF Like
<1>4. LET t == [calls[c] EXCEPT !.gas = gas] IN Ready(c, t, ops) /\ Like(t, calls[c])
  BY <1>1, GasReady
<1> QED
  BY <1>1, <1>2, <1>3, <1>4

LEMMA EstimatedStep ==
  ASSUME Sound, NEW c \in Calls, NEW estimate, Estimated(c, estimate)
  PROVE  Sound'
<1> DEFINE gas == GasFor(estimate)
<1>1. calls[c].stage = "estimate" /\ UNCHANGED <<client, ops>>
  BY DEF Estimated
<1>2. /\ Begun(c) /\ txs[c] = NoTx
      /\ Ready(c, calls[c], ops) /\ Tells(calls[c], OperationOf(calls[c]))
  BY <1>1, WaitingFacts
<1>3. OperationOf([calls[c] EXCEPT !.gas = gas]) = OperationOf(calls[c])
  <2>1. Like([calls[c] EXCEPT !.gas = gas], calls[c])
    BY <1>2, GasReady
  <2> DEFINE t == [calls[c] EXCEPT !.gas = gas]
  <2>2. t.target = calls[c].target /\ t.op = calls[c].op
    BY <2>1 DEF Like
  <2> HIDE DEF t
  <2>3. OperationOf(t) = OperationOf(calls[c])
    BY <2>2 DEF OperationOf
  <2> QED
    BY <2>3 DEF t
<1>4. \/ /\ calls' = [calls EXCEPT ![c] = Settled([calls[c] EXCEPT !.gas = gas], "simulated")]
         /\ UNCHANGED txs
      \/ Send(c, [calls[c] EXCEPT !.gas = gas], OperationOf(calls[c]))
  BY <1>3 DEF Estimated
<1> HIDE DEF gas
<1>5. Stepped(c, calls[c], ops)
  BY <1>1, <1>2, <1>4, NothingMore, SendStep
<1> QED
  BY <1>1, <1>2, <1>5, CallFrame DEF Sound

LEMMA RefusedStep ==
  ASSUME Sound, NEW c \in Calls, Refused(c)
  PROVE  Sound'
<1>1. calls[c].stage \in {"block", "estimate"} /\ UNCHANGED <<client, ops, txs>>
      /\ calls' = [calls EXCEPT ![c] = Settled(calls[c], "error")]
  BY DEF Refused, Sound
<1>2. Stepped(c, calls[c], ops)
  BY <1>1, NothingMore
<1>3. Begun(c)
  BY <1>1 DEF Begun
<1> QED
  BY <1>1, <1>2, <1>3, CallFrame DEF Sound

-----------------------------------------------------------------------------
(* The chain                                                               *)

(* A call with a transaction has begun.                                    *)
LEMMA TxBegun ==
  ASSUME Sound, NEW c \in Calls, txs[c].status # "none"
  PROVE  /\ Begun(c) /\ txs[c] # NoTx /\ IsTx(txs[c]) /\ IsTask(calls[c])
         /\ Truthful(calls[c], txs[c]) /\ Bound(c, calls[c], txs[c], ops)
<1>1. txs[c] # NoTx
  BY DEF NoTx
<1>2. calls[c].stage # "idle"
  BY <1>1 DEF Sound, CallSound
<1> QED
  BY <1>1, <1>2, BegunFacts

LEMMA ChainStep ==
  ASSUME Sound, NEW c \in Calls, Begun(c), Bound(c, calls[c], txs[c], ops),
         NEW t, NEW tx, IsTask(t), Like(t, calls[c]), Alike(tx, txs[c]), Truthful(t, tx),
         calls' = [calls EXCEPT ![c] = t], txs' = [txs EXCEPT ![c] = tx],
         UNCHANGED <<client, ops>>
  PROVE  Sound'
<1>1. Bound(c, t, tx, ops)
  BY BoundStill
<1>2. IsTx(tx)
  BY DEF Alike
<1>3. CallSound(c, t, tx, ops) /\ t.stage # "idle"
  BY <1>1, <1>2, StageKnown, SoundParts
<1>4. Stepped(c, calls[c], ops)
  BY <1>3 DEF Stepped
<1> QED
  BY <1>4, CallFrame DEF Sound

LEMMA TransactsStep ==
  ASSUME Sound, NEW c \in Calls,
         NEW from \in {"sent", "pooled", "lost"},
         NEW to \in {"pooled", "refused", "mined", "reverted", "lost"}, NEW heard, NEW t,
         Transacts(c, from, to, heard, t),
         IsTask(calls[c]) => IsTask(t) /\ Like(t, calls[c]),
         \A tx : /\ IsTask(calls[c]) /\ Truthful(calls[c], txs[c])
                 /\ txs[c] # NoTx /\ txs[c].status = from
                 /\ tx # NoTx /\ tx.status = to /\ tx.confirmations = txs[c].confirmations
                 /\ tx.confirmations \in Nat
                 => Truthful(t, tx)
  PROVE  Sound'
<1> DEFINE tx == [txs[c] EXCEPT !.status = to, !.heard = heard]
<1>1. txs[c].status = from /\ UNCHANGED <<client, ops>> /\ calls' = [calls EXCEPT ![c] = t]
  BY DEF Transacts
<1>2. txs' = [txs EXCEPT ![c] = tx]
  BY DEF Transacts, Sound
<1>3. /\ Begun(c) /\ txs[c] # NoTx /\ IsTx(txs[c]) /\ IsTask(calls[c])
      /\ Truthful(calls[c], txs[c]) /\ Bound(c, calls[c], txs[c], ops)
  BY <1>1, TxBegun
<1>4. StandsAt(tx, txs[c], to, txs[c].confirmations)
  BY <1>3, TxFacts
<1>5. txs[c].confirmations \in Nat
  BY <1>3, TxFacts
<1> HIDE DEF tx
<1>6. Alike(tx, txs[c]) /\ tx.status = to /\ tx.confirmations = txs[c].confirmations
  BY <1>4 DEF StandsAt
<1>7. Truthful(t, tx)
  BY <1>1, <1>3, <1>5, <1>6 DEF Alike
<1> QED
  BY <1>1, <1>2, <1>3, <1>6, <1>7, ChainStep

LEMMA AcceptStep ==
  ASSUME Sound, NEW c \in Calls, Accept(c)
  PROVE  Sound'
<1> DEFINE t == OnHash(calls[c])
<1>1. IsTask(calls[c]) => IsTask(t) /\ Like(t, calls[c])
  BY OnHashFacts, StageKnown DEF Becomes, Like
<1>2. \A tx : /\ IsTask(calls[c]) /\ Truthful(calls[c], txs[c])
              /\ txs[c] # NoTx /\ txs[c].status = "sent" /\ tx # NoTx /\ tx.status = "pooled"
              => Truthful(t, tx)
  BY AcceptTruth
<1>3. Transacts(c, "sent", "pooled", TRUE, t)
  BY DEF Accept
<1> HIDE DEF t
<1> QED
  BY <1>1, <1>2, <1>3, TransactsStep

LEMMA FailureStep ==
  ASSUME Sound, NEW c \in Calls, Refuse(c) \/ Revert(c) \/ GiveUp(c)
  PROVE  Sound'
<1> DEFINE t == OnError(calls[c])
<1>1. IsTask(calls[c]) => IsTask(t) /\ Like(t, calls[c])
  BY OnErrorFacts DEF Failed
<1>2. ASSUME NEW from, NEW to,
             \/ from = "sent" /\ to = "refused"
             \/ from = "pooled" /\ to \in {"reverted", "lost"},
             Transacts(c, from, to, FALSE, t)
      PROVE  Sound'
  <2>1. \A tx : /\ IsTask(calls[c]) /\ Truthful(calls[c], txs[c])
                /\ txs[c] # NoTx /\ txs[c].status = from /\ tx # NoTx /\ tx.status = to
                => Truthful(t, tx)
    BY <1>2, ErrorTruth
  <2> HIDE DEF t
  <2> QED
    BY <1>1, <1>2, <2>1, TransactsStep
<1> QED
  BY <1>2 DEF Refuse, Revert, GiveUp

LEMMA MineStep ==
  ASSUME Sound, NEW c \in Calls, Mine(c)
  PROVE  Sound'
<1> DEFINE t == OnConfirmation(OnReceipt(calls[c]), 0)
<1>1. IsTask(calls[c]) => t = calls[c] \/ (Assured(t, calls[c]) /\ DesiredConf(calls[c]) = 0)
  BY OnReceiptFacts
<1>2. IsTask(calls[c]) => IsTask(t) /\ Like(t, calls[c])
  BY <1>1 DEF Assured, Like
<1>3. Transacts(c, "pooled", "mined", TRUE, t)
  BY DEF Mine
<1> HIDE DEF t
<1>4. \A tx : /\ IsTask(calls[c]) /\ Truthful(calls[c], txs[c])
              /\ txs[c] # NoTx /\ txs[c].status = "pooled"
              /\ tx # NoTx /\ tx.status = "mined" /\ tx.confirmations = txs[c].confirmations
              /\ tx.confirmations \in Nat
              => Truthful(t, tx)
  BY <1>1, AssuredTruth
<1> QED
  BY <1>2, <1>3, <1>4, TransactsStep

LEMMA MineLateStep ==
  ASSUME Sound, NEW c \in Calls, MineLate(c)
  PROVE  Sound'
<1>1. PICK status \in {"mined", "reverted"} : Transacts(c, "lost", status, FALSE, calls[c])
  BY DEF MineLate
<1>2. Like(calls[c], calls[c])
  BY DEF Like
<1>3. \A tx : /\ IsTask(calls[c]) /\ Truthful(calls[c], txs[c])
              /\ txs[c] # NoTx /\ txs[c].status = "lost"
              /\ tx # NoTx /\ tx.status = status
              => Truthful(calls[c], tx)
  BY DEF Truthful
<1> QED
  BY <1>1, <1>2, <1>3, TransactsStep

LEMMA ConfirmStep ==
  ASSUME Sound, NEW c \in Calls, Confirm(c)
  PROVE  Sound'
<1> DEFINE n == txs[c].confirmations + 1
           tx == [txs[c] EXCEPT !.confirmations = n]
           t == IF txs[c].heard THEN OnConfirmation(calls[c], n) ELSE calls[c]
<1>1. /\ txs[c].status = "mined" /\ UNCHANGED <<client, ops>>
      /\ txs' = [txs EXCEPT ![c] = tx] /\ calls' = [calls EXCEPT ![c] = t]
  BY DEF Confirm, Sound
<1>2. /\ Begun(c) /\ txs[c] # NoTx /\ IsTx(txs[c]) /\ IsTask(calls[c])
      /\ Truthful(calls[c], txs[c]) /\ Bound(c, calls[c], txs[c], ops)
  BY <1>1, TxBegun
<1>3. txs[c].confirmations \in Nat
  BY <1>2, TxFacts
<1>4. n \in Nat /\ n >= txs[c].confirmations
  BY <1>3
<1> HIDE DEF n
<1>5. StandsAt(tx, txs[c], txs[c].status, n)
  BY <1>2, <1>4, TxFacts
<1>6. t = calls[c] \/ (Assured(t, calls[c]) /\ n >= DesiredConf(calls[c]))
  BY <1>2, <1>4, OnConfirmationFacts
<1> HIDE DEF t, tx
<1>7. Alike(tx, txs[c]) /\ tx.status = txs[c].status /\ tx.confirmations = n
  BY <1>5 DEF StandsAt
<1>8. Truthful(t, tx)
  BY <1>1, <1>2, <1>3, <1>4, <1>6, <1>7, AssuredTruth DEF Alike
<1>9. IsTask(t) /\ Like(t, calls[c])
  BY <1>2, <1>6 DEF Assured, Like
<1> QED
  BY <1>1, <1>2, <1>7, <1>8, <1>9, ChainStep

-----------------------------------------------------------------------------
(* Theorems                                                                *)

LEMMA SoundAtFirst ==
  Init => Sound
<1> SUFFICES ASSUME Init PROVE Sound
  OBVIOUS
<1>1. PICK proxy \in [Operations -> Proxies] :
        ops = [o \in Operations \cup Calls |->
                 IF o \in Operations THEN Initiate(proxy[o], ZERO) ELSE NoOperation]
  BY DEF Init
<1>2. ASSUME NEW o \in Operations \cup Calls
      PROVE  Fine(ops[o]) /\ ops[o].committed = FALSE
  BY <1>1, InitiateFacts DEF NoOperation
<1>3. ASSUME NEW o \in Operations
      PROVE  ops[o].proxy \in Proxies
  BY <1>1 DEF Initiate
<1>4. OperationsSound(ops)
  BY <1>1, <1>2, <1>3 DEF OperationsSound, Fine
<1>5. ClientSound(client)
  BY CallsAssumption DEF Init, ClientSound
<1>6. /\ calls = [c \in Calls |-> calls[c]] /\ txs = [c \in Calls |-> txs[c]]
      /\ \A c \in Calls : calls[c].stage = "idle" /\ txs[c] = NoTx
  BY DEF Init
<1>7. \A c \in Calls : CallSound(c, calls[c], txs[c], ops)
  BY <1>6 DEF CallSound, IsTx
<1>8. MarkedOnce
  BY <1>6 DEF MarkedOnce, Begun
<1> QED
  BY <1>4, <1>5, <1>6, <1>7, <1>8 DEF Sound

LEMMA SwitchStep ==
  ASSUME Sound, NEW to,
         \/ to \in Networks /\ SetProvider(to)
         \/ SetDefaultAccount(to)
  PROVE  Sound'
<1>1. \A of, v : ClientSound(of) =>
        /\ v \in Networks => ClientSound([of EXCEPT !.network = v])
        /\ ClientSound([of EXCEPT !.from = v])
        /\ ClientSound([of EXCEPT !.switches = v])
  BY DEF ClientSound
<1>2. \E v, n : \/ /\ v \in Networks
                    /\ client' = [[client EXCEPT !.network = v] EXCEPT !.switches = n]
                 \/ client' = [[client EXCEPT !.from = v] EXCEPT !.switches = n]
  BY DEF SetProvider, SetDefaultAccount
<1>3. ClientSound(client')
  <2>1. PICK of, n : ClientSound(of) /\ client' = [of EXCEPT !.switches = n]
    <3>1. ClientSound(client)
      BY DEF Sound
    <3>2. \A v : /\ v \in Networks => ClientSound([client EXCEPT !.network = v])
                /\ ClientSound([client EXCEPT !.from = v])
      BY <1>1, <3>1
    <3> QED
      BY <1>2, <3>2
  <2> QED
    BY <1>1, <2>1
<1>4. UNCHANGED <<ops, calls, txs>>
  BY DEF SetProvider, SetDefaultAccount
<1> QED
  BY <1>3, <1>4 DEF Sound, MarkedOnce, Begun

LEMMA SoundStep ==
  Sound /\ [Next]_vars => Sound'
<1> SUFFICES ASSUME Sound, [Next]_vars PROVE Sound'
  OBVIOUS
<1>1. ASSUME NEW o \in Operations, NEW x \in Items, Add(o, x) PROVE Sound'
  BY <1>1, AddStep
<1>2. ASSUME NEW c \in Calls, NEW o \in Operations, NEW options \in CallOptions,
             Commit(c, o, options)
      PROVE  Sound'
  BY <1>2, CommitStep
<1>3. ASSUME NEW c \in Calls, NEW x \in Standards, Standard(c, x) PROVE Sound'
  BY <1>3, StandardStep
<1>4. ASSUME NEW c \in Calls, NEW options \in PairOptions, CallPair(c, options) PROVE Sound'
  BY <1>4, CallPairStep
<1>5. ASSUME NEW network \in Networks, SetProvider(network) PROVE Sound'
  BY <1>5, SwitchStep
<1>6. ASSUME NEW account \in Owners, SetDefaultAccount(account) PROVE Sound'
  BY <1>6, SwitchStep
<1>7. ASSUME NEW c \in Calls, Answer(c) PROVE Sound'
  BY <1>7, GasLimitKnownStep, EstimatedStep, RefusedStep DEF Answer
<1>8. ASSUME NEW c \in Calls, Include(c) PROVE Sound'
  BY <1>8, AcceptStep, FailureStep, MineStep DEF Include
<1>9. ASSUME NEW c \in Calls, MineLate(c) PROVE Sound'
  BY <1>9, MineLateStep
<1>10. ASSUME NEW c \in Calls, Confirm(c) PROVE Sound'
  BY <1>10, ConfirmStep
<1>11. CASE UNCHANGED vars
  BY <1>11 DEF vars, Sound, MarkedOnce, Begun
<1> QED
  BY <1>1, <1>2, <1>3, <1>4, <1>5, <1>6, <1>7, <1>8, <1>9, <1>10, <1>11 DEF Next

(* Whatever the owners add and commit, however often the client changes    *)
(* its network and account between the chunks of a call, and whatever the  *)
(* node makes of the transactions, the calls are sound: each is bound to   *)
(* the operation it was begun for, what it has reported is so on the       *)
(* chain, and an operation that a commit marks is of that call alone.      *)
THEOREM CallsSound == Spec => []Sound
<1>1. Init => Sound
  BY SoundAtFirst
<1>2. Sound /\ [Next]_vars => Sound'
  BY SoundStep
<1> QED
  BY <1>1, <1>2, PTL DEF Spec

(* An operation is sent as it was when it was committed, by one call only. *)
THEOREM CommitsSentOnce == Spec => []SentAsCommitted
<1>1. Sound => SentAsCommitted
  <2> SUFFICES ASSUME Sound, NEW c \in Calls, Marks(c), HasTx(c)
               PROVE  /\ txs[c].actions = calls[c].promised
                      /\ IsBatch(txs[c])
                      /\ \A d \in Calls \ {c} :
                           Marks(d) /\ calls[d].op = calls[c].op => ~HasTx(d)
    BY DEF SentAsCommitted
  <2>1. \A d \in Calls : Marks(d) => Begun(d) /\ MarksIt(calls[d])
    BY DEF Marks, MarksIt
  <2>2. Carries(calls[c], txs[c], ops)
    BY <2>1 DEF Sound, CallSound, Begun
  <2>3. txs[c].actions = calls[c].promised /\ IsBatch(txs[c])
    BY <2>1, <2>2 DEF Carries, HasTx
  <2>4. \A d \in Calls \ {c} : ~(Marks(d) /\ calls[d].op = calls[c].op)
    BY <2>1 DEF Sound, MarkedOnce
  <2> QED
    BY <2>3, <2>4
<1> QED
  BY <1>1, CallsSound, PTL

(* What a call reports of its transaction is so on the chain.              *)
THEOREM ReportsAreTrue == Spec => []OutcomeMatchesChain
<1>1. Sound => OutcomeMatchesChain
  <2> SUFFICES ASSUME Sound, NEW c \in Calls, Begun(c)
               PROVE  /\ calls[c].ret = "receipt" \/ calls[c].confirmation = "resolved" =>
                           txs[c].status = "mined"
                             /\ txs[c].confirmations >= DesiredConf(calls[c])
                      /\ calls[c].hash = "resolved" =>
                           txs[c].status \notin {"none", "sent", "refused"}
                      /\ calls[c].ret = "simulated" => ~HasTx(c)
    BY DEF OutcomeMatchesChain
  <2>1. Truthful(calls[c], txs[c])
    BY DEF Sound, CallSound, Begun
  <2> QED
    BY <2>1 DEF Truthful, HasTx
<1> QED
  BY <1>1, CallsSound, PTL

(* A standard action of ether carries the ether it deposits to the proxy   *)
(* that wraps it, and gives its owner what it withdraws.                   *)
THEOREM EtherIsCarried == Spec => []EtherCarried
<1>1. Sound => EtherCarried
  <2> SUFFICES ASSUME Sound, NEW c \in Calls, Begun(c), NEW x \in calls[c].standard,
                      IsEth(x), HasTx(c), txs[c].network = calls[c].asked
               PROVE  LET a == txs[c].actions[1]
                      IN  /\ a.otherAddress = PayableProxy[txs[c].network]
                          /\ a.primaryMarketId = MarketId.WETH
                          /\ a.actionType = "Deposit" /\ x.options.value = 0 =>
                               txs[c].value = a.amount.value
                          /\ a.actionType = "Withdraw" =>
                               ~a.amount.sign \/ a.amount.ref = "Target"
                          /\ txs[c].ethTo = txs[c].accounts[a.accountId + 1].owner
    BY DEF EtherCarried
  <2> DEFINE t == calls[c]   tx == txs[c]   op == StandardOperation(x, t.asked)
             a == tx.actions[1]
  <2>1. x \in Standards /\ CarriesStandard(c, t, tx, ops)
    BY DEF Sound, CallSound, Begun, IsTask
  <2>2. /\ t.asked \in Networks /\ t.options = StandardOptions(x, x.options)
        /\ t.ethTo = x.owner /\ tx.accounts = op.accounts /\ tx.actions = op.actions
        /\ tx.value = t.options.value /\ tx.ethTo = t.ethTo
    BY <2>1 DEF CarriesStandard, HasTx
  <2>3. Moves(op, x, t.asked)
    BY <2>1, <2>2, StandardOperationFacts
  <2>4. RealMarket(x) = MarketId.WETH /\ x.options \in CallOptionFields
        /\ Counterparty(x, t.asked) = PayableProxy[t.asked]
    BY <2>1, StandardFields DEF Counterparty
  <2> HIDE DEF op
  <2>5. /\ tx.accounts[a.accountId + 1].owner = x.owner
        /\ a.otherAddress = PayableProxy[t.asked] /\ a.primaryMarketId = MarketId.WETH
        /\ \/ x.method = "deposit" /\ a.actionType = "Deposit" /\ a.amount.value = x.amount
           \/ /\ x.method # "deposit" /\ a.actionType = "Withdraw"
              /\ a.amount.sign = FALSE \/ a.amount.ref = "Target"
    BY <2>2, <2>3, <2>4 DEF Moves
  <2>6. x.method = "deposit" /\ x.options.value = 0 => t.options.value = x.amount
    BY <2>2, <2>4 DEF StandardOptions, CallOptionFields
  <2> QED
    BY <2>2, <2>5, <2>6
<1> QED
  BY <1>1, CallsSound, PTL

-----------------------------------------------------------------------------
(* Rounding. In these lemmas all that is divided is multiplied out.        *)

(* Products keep the order, and so does a positive factor left out.        *)
LEMMA ProductAtMost ==
  ASSUME NEW a \in Int, NEW b \in Int, NEW c \in Nat, a <= b
  PROVE  a * c <= b * c /\ a * c \in Int /\ b * c \in Int
<1>1. (b - a) * c >= 0
  OBVIOUS
<1>2. (b - a) * c = b * c - a * c
  OBVIOUS
<1>3. a * c \in Int /\ b * c \in Int
  OBVIOUS
<1> QED
  BY <1>1, <1>2, <1>3

LEMMA ProductCancelled ==
  ASSUME NEW a \in Int, NEW b \in Int, NEW c \in Nat \ {0}, a * c <= b * c
  PROVE  a <= b
<1>1. SUFFICES ASSUME b + 1 <= a PROVE FALSE
  OBVIOUS
<1>2. (b + 1) * c <= a * c
  BY <1>1, ProductAtMost
<1>3. (b + 1) * c = b * c + c /\ b * c \in Int /\ a * c \in Int
  OBVIOUS
<1> QED
  BY <1>2, <1>3

(* A division with remainder, without division.                            *)
LEMMA Division ==
  ASSUME NEW p \in Nat, NEW d \in Nat \ {0}
  PROVE  /\ p \div d \in Nat /\ p % d \in 0..(d - 1)
         /\ p = d * (p \div d) + (p % d)
OBVIOUS

(* The three roundings of a fraction: down, up, and to the nearest.        *)
LEMMA PartialBounds ==
  ASSUME NEW t \in Nat, NEW n \in Nat, NEW d \in Nat \ {0}
  PROVE  LET q == GetPartial(t, n, d)
         IN  q \in Nat /\ q * d <= t * n /\ t * n < q * d + d
<1> DEFINE u == t * n   q == u \div d
<1>1. u \in Nat
  OBVIOUS
<1>2. GetPartial(t, n, d) = q
  BY DEF GetPartial
<1>3. q \in Nat /\ u % d \in 0..(d - 1) /\ u = d * q + (u % d)
  <2> HIDE DEF u
  <2> QED
    BY <1>1, Division
<1> HIDE DEF u, q
<1>4. d * q = q * d /\ q * d \in Nat
  BY <1>3
<1>5. q * d <= u /\ u < q * d + d
  BY <1>1, <1>3, <1>4
<1> QED
  BY <1>2, <1>3, <1>5 DEF u

LEMMA RoundUpBounds ==
  ASSUME NEW t \in Nat, NEW n \in Nat, NEW d \in Nat \ {0}
  PROVE  LET r == GetPartialRoundUp(t, n, d)
         IN  /\ r \in Nat /\ t * n <= r * d
             /\ t * n > 0 => r > 0 /\ (r - 1) * d < t * n
<1> DEFINE r == GetPartialRoundUp(t, n, d)
           u == t * n
<1>0. u \in Nat
  OBVIOUS
<1>1. CASE t = 0 \/ n = 0
  <2>1. r = 0 /\ u = 0
    BY <1>1 DEF GetPartialRoundUp
  <2> QED
    BY <2>1
<1>2. CASE t # 0 /\ n # 0
  <2>1. u # 0
    BY <1>2
  <2>2. r = (u - 1) \div d + 1
    BY <1>2 DEF GetPartialRoundUp
  <2> DEFINE q == (u - 1) \div d
  <2> HIDE DEF u
  <2>3. u - 1 \in Nat
    BY <1>0, <2>1
  <2>4. /\ q \in Nat /\ (u - 1) % d \in 0..(d - 1) /\ u - 1 = d * q + ((u - 1) % d)
    BY <2>3, Division
  <2> HIDE DEF q, r
  <2>5. r = q + 1
    BY <2>2 DEF q
  <2>6. r * d = q * d + d /\ (r - 1) * d = q * d /\ d * q = q * d /\ q * d \in Nat
    BY <2>4, <2>5
  <2>7. u <= r * d /\ (r - 1) * d < u /\ r \in Nat /\ r > 0
    BY <1>0, <2>4, <2>5, <2>6
  <2> QED
    BY <2>7 DEF u, r
<1> QED
  BY <1>1, <1>2

LEMMA HalfUpBounds ==
  ASSUME NEW t \in Nat, NEW n \in Nat, NEW d \in Nat \ {0}
  PROVE  LET h == GetPartialRoundHalfUp(t, n, d)
         IN  h \in Nat /\ 2 * (h * d) <= 2 * (t * n) + d /\ 2 * (t * n) <= 2 * (h * d) + d
<1> DEFINE h == GetPartialRoundHalfUp(t, n, d)
           u == t * n
           q == u \div d
           rem == u % d
           half == (d - 1) \div 2 + 1
<1>1. u \in Nat
  OBVIOUS
<1>2. h = q + (IF rem >= half THEN 1 ELSE 0)
  BY DEF GetPartialRoundHalfUp
<1>3. q \in Nat /\ rem \in 0..(d - 1) /\ u = d * q + rem
  <2> HIDE DEF u
  <2> QED
    BY <1>1, Division
<1>4. half \in Nat /\ d <= 2 * half /\ 2 * half <= d + 1
  OBVIOUS
<1> HIDE DEF h, u, q, rem, half
<1>5. d * q = q * d /\ q * d \in Nat /\ (q + 1) * d = q * d + d
  BY <1>3
<1>6. CASE rem >= half
  <2>1. h = q + 1
    BY <1>2, <1>6
  <2> QED
    BY <1>1, <1>3, <1>4, <1>5, <1>6, <2>1 DEF h, u
<1>7. CASE ~(rem >= half)
  <2>1. h = q
    BY <1>2, <1>3, <1>7
  <2> QED
    BY <1>1, <1>3, <1>4, <1>5, <1>7, <2>1 DEF h, u
<1> QED
  BY <1>6, <1>7

(* The price of the debt with the spread, rounded down three times: not    *)
(* more than the exact price n / m, and not less by more than a unit and   *)
(* what the price loses with the units of the spread.                      *)
WithSpread(p, s, h, o, b) ==
  p + GetPartial(p, GetPartial(GetPartial(s, b + h, b), b + o, b), b)

LEMMA PriceBounds ==
  ASSUME NEW s \in Nat, NEW h \in Nat, NEW o \in Nat, NEW p \in Nat \ {0},
         NEW b \in Nat \ {0}
  PROVE  LET adjusted == WithSpread(p, s, h, o, b)
             m == b * b * b
             n == p * (s * (b + h) * (b + o) + m)
         IN  /\ adjusted \in Nat \ {0} /\ p <= adjusted
             /\ m \in Nat \ {0} /\ n \in Nat \ {0}
             /\ adjusted * m <= n /\ n <= adjusted * m + m + p * ((2 * b + o) * b)
             /\ p * m <= n
<1> DEFINE s1 == GetPartial(s, b + h, b)
           s2 == GetPartial(s1, b + o, b)
           k == GetPartial(p, s2, b)
           m == b * b * b
           n == p * (s * (b + h) * (b + o) + m)
<1>0. b + h \in Nat /\ b + o \in Nat
  OBVIOUS
<1>1. s1 \in Nat /\ s1 * b <= s * (b + h) /\ s * (b + h) <= s1 * b + b
  <2>1. s1 \in Nat /\ s1 * b <= s * (b + h) /\ s * (b + h) < s1 * b + b
    BY <1>0, PartialBounds
  <2> HIDE DEF s1
  <2> QED
    BY <2>1
<1> HIDE DEF s1
<1>2. s2 \in Nat /\ s2 * b <= s1 * (b + o) /\ s1 * (b + o) <= s2 * b + b
  <2>1. s2 \in Nat /\ s2 * b <= s1 * (b + o) /\ s1 * (b + o) < s2 * b + b
    BY <1>0, <1>1, PartialBounds
  <2> HIDE DEF s2
  <2> QED
    BY <1>1, <2>1
<1> HIDE DEF s2
<1>3. k \in Nat /\ k * b <= p * s2 /\ p * s2 <= k * b + b
  <2>1. k \in Nat /\ k * b <= p * s2 /\ p * s2 < k * b + b
    BY <1>2, PartialBounds
  <2> HIDE DEF k
  <2> QED
    BY <1>2, <2>1
<1> HIDE DEF k
<1>4. /\ (s1 * b) * (p * (b + o)) <= (s * (b + h)) * (p * (b + o))
      /\ (s * (b + h)) * (p * (b + o)) <= (s1 * b + b) * (p * (b + o))
  <2>1. p * (b + o) \in Nat /\ s1 * b \in Int /\ s * (b + h) \in Int /\ s1 * b + b \in Int
    BY <1>1
  <2> DEFINE c == p * (b + o)   x == s1 * b   y == s * (b + h)   z == s1 * b + b
  <2>2. c \in Nat /\ x \in Int /\ y \in Int /\ z \in Int /\ x <= y /\ y <= z
    BY <1>1, <2>1
  <2> HIDE DEF c, x, y, z
  <2>3. x * c <= y * c /\ y * c <= z * c
    BY <2>2, ProductAtMost
  <2> QED
    BY <2>3 DEF c, x, y, z
<1>5. /\ (s2 * b) * (p * b) <= (s1 * (b + o)) * (p * b)
      /\ (s1 * (b + o)) * (p * b) <= (s2 * b + b) * (p * b)
  <2>1. p * b \in Nat /\ s2 * b \in Int /\ s1 * (b + o) \in Int /\ s2 * b + b \in Int
    BY <1>1, <1>2
  <2> DEFINE c == p * b   x == s2 * b   y == s1 * (b + o)   z == s2 * b + b
  <2>2. c \in Nat /\ x \in Int /\ y \in Int /\ z \in Int /\ x <= y /\ y <= z
    BY <1>2, <2>1
  <2> HIDE DEF c, x, y, z
  <2>3. x * c <= y * c /\ y * c <= z * c
    BY <2>2, ProductAtMost
  <2> QED
    BY <2>3 DEF c, x, y, z
<1>6. /\ (k * b) * (b * b) <= (p * s2) * (b * b)
      /\ (p * s2) * (b * b) <= (k * b + b) * (b * b)
  <2>1. b * b \in Nat /\ k * b \in Int /\ p * s2 \in Int /\ k * b + b \in Int
    BY <1>2, <1>3
  <2> DEFINE c == b * b   x == k * b   y == p * s2   z == k * b + b
  <2>2. c \in Nat /\ x \in Int /\ y \in Int /\ z \in Int /\ x <= y /\ y <= z
    BY <1>3, <2>1
  <2> HIDE DEF c, x, y, z
  <2>3. x * c <= y * c /\ y * c <= z * c
    BY <2>2, ProductAtMost
  <2> QED
    BY <2>3 DEF c, x, y, z
<1>7. /\ (p + k) * m <= n /\ n <= (p + k) * m + m + p * ((2 * b + o) * b)
  BY <1>1, <1>2, <1>3, <1>4, <1>5, <1>6
<1>8. m \in Nat \ {0} /\ p * m <= (p + k) * m /\ p + k \in Nat \ {0}
  <2>1. b * b \in Nat \ {0}
    OBVIOUS
  <2>2. m \in Nat \ {0}
    BY <2>1
  <2>3. p \in Int /\ p + k \in Int /\ p <= p + k /\ p + k \in Nat \ {0}
    BY <1>3
  <2> HIDE DEF m
  <2>4. p * m <= (p + k) * m
    BY <2>2, <2>3, ProductAtMost
  <2> QED
    BY <2>2, <2>3, <2>4
<1>9. n \in Nat \ {0} /\ p * m <= n
  <2> DEFINE w == s * (b + h) * (b + o)
  <2>1. w \in Nat
    OBVIOUS
  <2>2. n = p * (w + m)
    OBVIOUS
  <2> HIDE DEF w, n, m
  <2>3. n = p * w + p * m /\ p * w \in Nat /\ p * m \in Nat \ {0}
    BY <1>8, <2>1, <2>2
  <2> QED
    BY <2>3
<1>10. p + k \in Nat \ {0} /\ p <= p + k
  BY <1>3
<1> HIDE DEF m, n
<1> QED
  BY <1>7, <1>8, <1>9, <1>10 DEF WithSpread, m, n, k, s2, s1

(* What a collateral of value v repays at that price, r, against the exact *)
(* figure v * m / n: never less, and not more than the drift allows.       *)
LEMMA RepaidAtLeast ==
  ASSUME NEW v \in Nat, NEW adjusted \in Nat, NEW m \in Nat, NEW n \in Nat, NEW r \in Nat,
         v <= r * adjusted, adjusted * m <= n
  PROVE  v * m <= r * n
<1>1. v * m <= (r * adjusted) * m
  <2>1. r * adjusted \in Nat
    OBVIOUS
  <2> DEFINE c == r * adjusted
  <2> HIDE DEF c
  <2>2. v * m <= c * m
    BY <2>1, ProductAtMost DEF c
  <2> QED
    BY <2>2 DEF c
<1>2. (adjusted * m) * r <= n * r
  <2>1. adjusted * m \in Nat
    OBVIOUS
  <2> DEFINE c == adjusted * m
  <2> HIDE DEF c
  <2>2. c * r <= n * r
    BY <2>1, ProductAtMost DEF c
  <2> QED
    BY <2>2 DEF c
<1> QED
  BY <1>1, <1>2

LEMMA RepaidAtMost ==
  ASSUME NEW v \in Nat, NEW adjusted \in Nat, NEW m \in Nat \ {0}, NEW n \in Nat,
         NEW r \in Nat \ {0}, NEW p \in Nat \ {0}, NEW c \in Nat, NEW debt \in Nat,
         NEW k1 \in Nat, NEW k2 \in Nat,
         (r - 1) * adjusted <= v, p <= adjusted, n <= adjusted * m + m + p * c,
         debt <= k1 * p, debt * c <= k2 * m, v * m <= debt * n
  PROVE  r * n <= v * m + n * (1 + k1 + k2)
<1> DEFINE a == r - 1
<1>0. a \in Nat /\ r = a + 1 /\ a * adjusted <= v
  OBVIOUS
<1> HIDE DEF a
<1>1. (a * adjusted) * m <= v * m
  <2> DEFINE z == a * adjusted
  <2>1. z \in Nat /\ z <= v
    BY <1>0
  <2> HIDE DEF z
  <2>2. z * m <= v * m
    BY <2>1, ProductAtMost
  <2> QED
    BY <2>2 DEF z
<1>2. p * (a * m) <= adjusted * (a * m)
  <2> DEFINE z == a * m
  <2>1. z \in Nat
    BY <1>0
  <2> HIDE DEF z
  <2>2. p * z <= adjusted * z
    BY <2>1, ProductAtMost
  <2> QED
    BY <2>2 DEF z
<1>3. (a * m) * p <= debt * n
  BY <1>0, <1>1, <1>2
<1>4. debt * n <= (k1 * p) * n
  <2> DEFINE z == k1 * p
  <2>1. z \in Nat /\ debt <= z
    OBVIOUS
  <2> HIDE DEF z
  <2>2. debt * n <= z * n
    BY <2>1, ProductAtMost
  <2> QED
    BY <2>2 DEF z
<1>5. a * m <= k1 * n
  <2> DEFINE y == a * m   z == k1 * n
  <2>1. y \in Nat /\ z \in Nat /\ y * p <= z * p
    BY <1>0, <1>3, <1>4
  <2> HIDE DEF y, z
  <2>2. y <= z
    BY <2>1, ProductCancelled
  <2> QED
    BY <2>2 DEF y, z
<1>6. ((a * m) * p) * c <= (debt * n) * c
  <2> DEFINE y == (a * m) * p   z == debt * n
  <2>1. y \in Nat /\ z \in Nat /\ y <= z
    <3>1. a * m \in Nat
      BY <1>0
    <3>2. (a * m) * p \in Nat
      BY <3>1, ProductAtMost
    <3> QED
      BY <1>3, <3>2
  <2> HIDE DEF y, z
  <2>2. y * c <= z * c
    BY <2>1, ProductAtMost
  <2> QED
    BY <2>2 DEF y, z
<1>7. (debt * c) * n <= (k2 * m) * n
  <2> DEFINE y == debt * c   z == k2 * m
  <2>1. y \in Nat /\ z \in Nat /\ y <= z
    OBVIOUS
  <2> HIDE DEF y, z
  <2>2. y * n <= z * n
    BY <2>1, ProductAtMost
  <2> QED
    BY <2>2 DEF y, z
<1>8. a * (p * c) <= k2 * n
  <2> DEFINE y == a * (p * c)   z == k2 * n
  <2>1. p * c \in Nat
    OBVIOUS
  <2>2. y \in Nat /\ z \in Nat
    BY <1>0, <2>1
  <2>3. y * m = ((a * m) * p) * c /\ z * m = (k2 * m) * n /\ (debt * n) * c = (debt * c) * n
    BY <1>0
  <2>4. y * m <= z * m
    BY <1>6, <1>7, <2>3, <1>0
  <2> HIDE DEF y, z
  <2>5. y <= z
    BY <2>2, <2>4, ProductCancelled
  <2> QED
    BY <2>5 DEF y, z
<1>9. n * a <= (adjusted * m + m + p * c) * a
  <2> DEFINE z == adjusted * m + m + p * c
  <2>1. z \in Nat /\ n <= z
    OBVIOUS
  <2> HIDE DEF z
  <2>2. n * a <= z * a
    BY <1>0, <2>1, ProductAtMost
  <2> QED
    BY <2>2 DEF z
<1>10. r * n = n + n * a
  BY <1>0
<1> QED
  BY <1>0, <1>1, <1>5, <1>8, <1>9, <1>10

(* The division of bignumber.js, of a fraction of at most 1.               *)
LEMMA DivisionBounds ==
  ASSUME NEW n \in Nat, NEW d \in Nat \ {0}, n <= d, NEW places \in Nat \ {0}
  PROVE  LET q == (2 * n * places + d) \div (2 * d)
         IN  /\ q \in Nat /\ q <= places
             /\ 2 * (q * d) <= 2 * (n * places) + d /\ 2 * (n * places) <= 2 * (q * d) + d
<1> DEFINE u == 2 * n * places + d   e == 2 * d   q == u \div e
<1>1. u \in Nat /\ e \in Nat \ {0} /\ u = 2 * (n * places) + d
  OBVIOUS
<1>2. q \in Nat /\ u % e \in 0..(e - 1) /\ u = e * q + (u % e)
  <2> HIDE DEF u, e
  <2> QED
    BY <1>1, Division
<1>3. n * places <= d * places
  BY ProductAtMost
<1> HIDE DEF u, q
<1>4. e * q = 2 * (q * d) /\ q * d \in Nat /\ n * places \in Nat
  BY <1>2
<1> HIDE DEF e
<1>5. 2 * (q * d) <= 2 * (n * places) + d /\ 2 * (n * places) <= 2 * (q * d) + d
  BY <1>1, <1>2, <1>4 DEF e
<1>6. q <= places
  <2>1. SUFFICES ASSUME places + 1 <= q PROVE FALSE
    BY <1>2
  <2>2. (places + 1) * d <= q * d
    BY <1>2, <2>1, ProductAtMost
  <2>3. (places + 1) * d = d * places + d /\ d * places \in Nat
    OBVIOUS
  <2> QED
    BY <1>3, <1>4, <1>5, <2>2, <2>3
<1> QED
  BY <1>2, <1>5, <1>6 DEF q, u, e

(* A sale. The client had num / den of the debt left and the account owes  *)
(* d, apart by at most e; after the sale the client has q * num of         *)
(* places * den left and the account owes w, apart by the drift more.      *)
LEMMA DriftGrows ==
  ASSUME NEW n \in Nat \ {0}, NEW debt \in Nat, NEW num \in Nat, NEW den \in Nat \ {0},
         num <= den, NEW value \in Nat, NEW r \in Nat, NEW d \in Nat, NEW e \in Nat,
         debt * num <= (d + e) * den, d * den <= debt * num + e * den,
         NEW k \in Nat, value <= r * n, r * n <= value + n * k,
         NEW k3 \in Nat, NEW places \in Nat \ {0}, debt <= k3 * places,
         NEW k4 \in Nat, NEW w \in Nat, w <= d - r + k4, d - r <= w + k4,
         NEW q \in Nat, NEW whole, whole = debt * n * num,
         NEW left, left = whole - value * den,
         q * whole <= left * places + whole, left * places <= q * whole + whole
  PROVE  /\ debt * (q * num) <= (w + (e + k + k3 + k4)) * (places * den)
         /\ w * (places * den) <= debt * (q * num) + (e + k + k3 + k4) * (places * den)
<1> DEFINE y == places * den
<1>1. y \in Nat \ {0}
  OBVIOUS
<1>2. whole <= (k3 * n) * y
  <2>1. debt * num <= debt * den
    BY ProductAtMost
  <2>2. debt * den <= (k3 * places) * den
    <3> DEFINE z == k3 * places
    <3>1. z \in Nat /\ debt <= z
      OBVIOUS
    <3> HIDE DEF z
    <3>2. debt * den <= z * den
      BY <3>1, ProductAtMost
    <3> QED
      BY <3>2 DEF z
  <2>3. (debt * num) * n <= ((k3 * places) * den) * n
    <3> DEFINE u == debt * num   z == (k3 * places) * den
    <3>1. u \in Nat /\ z \in Nat /\ u <= z
      BY <2>1, <2>2
    <3> HIDE DEF u, z
    <3>2. u * n <= z * n
      BY <3>1, ProductAtMost
    <3> QED
      BY <3>2 DEF u, z
  <2> QED
    BY <2>3
<1>3. /\ (debt * num) * (n * places) <= ((d + e) * den) * (n * places)
      /\ (d * den) * (n * places) <= (debt * num + e * den) * (n * places)
  <2> DEFINE c == n * places   u1 == debt * num   z1 == (d + e) * den
             u2 == d * den   z2 == debt * num + e * den
  <2>1. /\ c \in Nat /\ u1 \in Nat /\ z1 \in Nat /\ u1 <= z1
        /\ u2 \in Nat /\ z2 \in Nat /\ u2 <= z2
    OBVIOUS
  <2> HIDE DEF c, u1, z1, u2, z2
  <2>2. u1 * c <= z1 * c /\ u2 * c <= z2 * c
    BY <2>1, ProductAtMost
  <2> QED
    BY <2>2 DEF c, u1, z1, u2, z2
<1>4. /\ value * y <= (r * n) * y /\ (r * n) * y <= (value + n * k) * y
  <2> DEFINE u == r * n   z == value + n * k
  <2>1. u \in Nat /\ z \in Nat /\ value <= u /\ u <= z
    OBVIOUS
  <2> HIDE DEF u, z, y
  <2>2. value * y <= u * y /\ u * y <= z * y
    BY <1>1, <2>1, ProductAtMost
  <2> QED
    BY <2>2 DEF u, z
<1>5. /\ w * (n * y) <= (d - r + k4) * (n * y) /\ (d - r) * (n * y) <= (w + k4) * (n * y)
  <2> DEFINE c == n * y   u == d - r + k4   z == d - r   x == w + k4
  <2>1. c \in Nat /\ u \in Int /\ z \in Int /\ x \in Int /\ w <= u /\ z <= x
    BY <1>1
  <2> HIDE DEF c, u, z, x
  <2>2. w * c <= u * c /\ z * c <= x * c
    BY <2>1, ProductAtMost
  <2> QED
    BY <2>2 DEF c, u, z, x
<1>6. left * places = (debt * num) * (n * places) - value * y
  OBVIOUS
<1>7. q * whole = (debt * (q * num)) * n
  OBVIOUS
<1>8. (debt * (q * num)) * n <= ((w + (e + k + k3 + k4)) * y) * n
  <2>1. q * whole <= (debt * num) * (n * places) - value * y + (k3 * n) * y
    BY <1>2, <1>6
  <2>2. ((d + e) * den) * (n * places) = d * (n * y) + e * (n * y)
    OBVIOUS
  <2>3. /\ (value + n * k) * y = value * y + k * (n * y) /\ (r * n) * y = r * (n * y)
        /\ (d - r) * (n * y) = d * (n * y) - r * (n * y)
        /\ (w + k4) * (n * y) = w * (n * y) + k4 * (n * y)
        /\ (k3 * n) * y = k3 * (n * y)
    OBVIOUS
  <2>4. ((w + (e + k + k3 + k4)) * y) * n
          = w * (n * y) + e * (n * y) + k * (n * y) + k3 * (n * y) + k4 * (n * y)
    OBVIOUS
  <2> DEFINE c == n * y   a == (debt * num) * (n * places)   b == value * y
             wc == w * c  ec == e * c  kc == k * c  k3c == k3 * c  k4c == k4 * c
             dc == d * c  rc == r * c
  <2>5. /\ a \in Int /\ b \in Int /\ wc \in Int /\ ec \in Int /\ kc \in Int /\ k3c \in Int
        /\ k4c \in Int /\ dc \in Int /\ rc \in Int /\ q * whole \in Int
    OBVIOUS
  <2>6. /\ q * whole <= a - b + k3c /\ a <= dc + ec
        /\ rc <= b + kc /\ dc - rc <= wc + k4c
    BY <1>3, <1>4, <1>5, <2>1, <2>2, <2>3
  <2> HIDE DEF a, b, wc, ec, kc, k3c, k4c, dc, rc
  <2>7. q * whole <= wc + ec + kc + k3c + k4c
    BY <2>5, <2>6
  <2> QED
    BY <1>7, <2>4, <2>7 DEF wc, ec, kc, k3c, k4c
<1>9. (w * y) * n <= (debt * (q * num) + (e + k + k3 + k4) * y) * n
  <2>1. (debt * num) * (n * places) - value * y <= q * whole + (k3 * n) * y
    BY <1>2, <1>6
  <2>2. /\ (d * den) * (n * places) = d * (n * y)
        /\ (debt * num + e * den) * (n * places) = (debt * num) * (n * places) + e * (n * y)
        /\ (r * n) * y = r * (n * y)
        /\ (d - r + k4) * (n * y) = d * (n * y) - r * (n * y) + k4 * (n * y)
        /\ (k3 * n) * y = k3 * (n * y)
    OBVIOUS
  <2>3. (debt * (q * num) + (e + k + k3 + k4) * y) * n
          = (debt * (q * num)) * n + e * (n * y) + k * (n * y) + k3 * (n * y) + k4 * (n * y)
    OBVIOUS
  <2> DEFINE c == n * y   a == (debt * num) * (n * places)   b == value * y
             wc == w * c  ec == e * c  kc == k * c  k3c == k3 * c  k4c == k4 * c
             dc == d * c  rc == r * c
  <2>5. /\ a \in Int /\ b \in Int /\ wc \in Int /\ ec \in Int /\ kc \in Nat /\ k3c \in Int
        /\ k4c \in Int /\ dc \in Int /\ rc \in Int /\ q * whole \in Int
    OBVIOUS
  <2>6. /\ a - b <= q * whole + k3c /\ dc <= a + ec
        /\ b <= rc /\ wc <= dc - rc + k4c
    BY <1>3, <1>4, <1>5, <2>1, <2>2
  <2> HIDE DEF a, b, wc, ec, kc, k3c, k4c, dc, rc
  <2>7. wc <= q * whole + ec + kc + k3c + k4c
    BY <2>5, <2>6
  <2>8. (w * y) * n = w * (n * y)
    OBVIOUS
  <2> QED
    BY <1>7, <2>3, <2>7, <2>8 DEF wc, ec, kc, k3c, k4c
<1>10. debt * (q * num) <= (w + (e + k + k3 + k4)) * y
  <2> DEFINE u == debt * (q * num)   z == (w + (e + k + k3 + k4)) * y
  <2>1. u \in Int /\ z \in Int /\ u * n <= z * n
    BY <1>8
  <2> HIDE DEF u, z
  <2>2. u <= z
    BY <2>1, ProductCancelled
  <2> QED
    BY <2>2 DEF u, z
<1>11. w * y <= debt * (q * num) + (e + k + k3 + k4) * y
  <2> DEFINE u == w * y   z == debt * (q * num) + (e + k + k3 + k4) * y
  <2>1. u \in Int /\ z \in Int /\ u * n <= z * n
    BY <1>9
  <2> HIDE DEF u, z
  <2>2. u <= z
    BY <2>1, ProductCancelled
  <2> QED
    BY <2>2 DEF u, z
<1> QED
  BY <1>10, <1>11

(* What the books make of an amount of the debt.                           *)
LEMMA BookedBounds ==
  ASSUME NEW wei \in Nat, NEW b \in Nat \ {0}, NEW index \in Nat \ {0}
  PROVE  LET w == GetPartialRoundHalfUp(GetPartialRoundHalfUp(wei, b, index), index, b)
             k == GetPartialRoundUp(index, 1, b)
         IN  w \in Nat /\ k \in Nat /\ w <= wei + k /\ wei <= w + k
<1> DEFINE par == GetPartialRoundHalfUp(wei, b, index)
           w == GetPartialRoundHalfUp(par, index, b)
           k == GetPartialRoundUp(index, 1, b)
<1>1. /\ par \in Nat /\ 2 * (par * index) <= 2 * (wei * b) + index
      /\ 2 * (wei * b) <= 2 * (par * index) + index
  BY HalfUpBounds
<1> HIDE DEF par
<1>2. /\ w \in Nat /\ 2 * (w * b) <= 2 * (par * index) + b
      /\ 2 * (par * index) <= 2 * (w * b) + b
  BY <1>1, HalfUpBounds
<1>3. k \in Nat /\ index <= k * b
  <2>1. k \in Nat /\ index * 1 <= k * b
    BY RoundUpBounds
  <2> HIDE DEF k
  <2> QED
    BY <2>1
<1> HIDE DEF w, k
<1>4. k # 0
  BY <1>3
<1>5. b <= k * b
  <2>1. 1 <= k
    BY <1>3, <1>4
  <2>2. 1 * b <= k * b
    BY <1>3, <2>1, ProductAtMost
  <2> QED
    BY <2>2
<1>6. w * b <= (wei + k) * b /\ wei * b <= (w + k) * b
  BY <1>1, <1>2, <1>3, <1>5
<1>7. w <= wei + k
  BY <1>2, <1>3, <1>6, ProductCancelled
<1>8. wei <= w + k
  BY <1>2, <1>3, <1>6, ProductCancelled
<1> QED
  BY <1>2, <1>3, <1>7, <1>8 DEF w, k, par

(* What a collateral repays, if the client sells it, is no more than the   *)
(* debt, but for the drift.                                                *)
LEMMA SaleFits ==
  ASSUME NEW n \in Nat \ {0}, NEW debt \in Nat, NEW num \in Nat, NEW den \in Nat \ {0},
         NEW value \in Nat, NEW r \in Nat, NEW d \in Nat, NEW e \in Nat, NEW k \in Nat,
         debt * num <= (d + e) * den, value * den <= debt * n * num, r * n <= value + n * k
  PROVE  r <= d + e + k
<1>1. (r * n) * den <= (value + n * k) * den
  <2> DEFINE u == r * n   z == value + n * k
  <2>1. u \in Nat /\ z \in Nat /\ u <= z
    OBVIOUS
  <2> HIDE DEF u, z
  <2>2. u * den <= z * den
    BY <2>1, ProductAtMost
  <2> QED
    BY <2>2 DEF u, z
<1>2. (debt * num) * n <= ((d + e) * den) * n
  <2> DEFINE u == debt * num   z == (d + e) * den
  <2>1. u \in Nat /\ z \in Nat /\ u <= z
    OBVIOUS
  <2> HIDE DEF u, z
  <2>2. u * n <= z * n
    BY <2>1, ProductAtMost
  <2> QED
    BY <2>2 DEF u, z
<1>3. r * (n * den) <= (d + e + k) * (n * den)
  BY <1>1, <1>2
<1>4. n * den \in Nat \ {0}
  OBVIOUS
<1> DEFINE c == n * den
<1> HIDE DEF c
<1>5. r * c <= (d + e + k) * c /\ c \in Nat \ {0}
  BY <1>3, <1>4 DEF c
<1> QED
  BY <1>5, ProductCancelled

(* A sale that leaves a debt by a margin leaves one to the client too.     *)
LEMMA SaleLeaves ==
  ASSUME NEW n \in Nat \ {0}, NEW debt \in Nat, NEW num \in Nat, NEW den \in Nat \ {0},
         num <= den, NEW value \in Nat, NEW r \in Nat, NEW d \in Nat, NEW e \in Nat,
         d * den <= debt * num + e * den, value <= r * n,
         NEW k \in Nat, NEW places \in Nat \ {0}, debt <= k * places, r + e + k < d,
         NEW whole, whole = debt * n * num, NEW left, left = whole - value * den
  PROVE  left >= 0 /\ whole < left * places
<1>1. value * den <= (r * n) * den
  <2> DEFINE u == r * n
  <2>1. u \in Nat /\ value <= u
    OBVIOUS
  <2> HIDE DEF u
  <2>2. value * den <= u * den
    BY <2>1, ProductAtMost
  <2> QED
    BY <2>2 DEF u
<1>2. (d * den) * n <= (debt * num + e * den) * n
  <2> DEFINE u == d * den   z == debt * num + e * den
  <2>1. u \in Nat /\ z \in Nat /\ u <= z
    OBVIOUS
  <2> HIDE DEF u, z
  <2>2. u * n <= z * n
    BY <2>1, ProductAtMost
  <2> QED
    BY <2>2 DEF u, z
<1>3. (r + e + k + 1) * (n * den) <= d * (n * den)
  <2> DEFINE c == n * den   z == r + e + k + 1
  <2>1. c \in Nat /\ z \in Nat /\ z <= d
    OBVIOUS
  <2> HIDE DEF c, z
  <2>2. z * c <= d * c
    BY <2>1, ProductAtMost
  <2> QED
    BY <2>2 DEF c, z
<1>4. (k + 1) * (n * den) <= left
  BY <1>1, <1>2, <1>3
<1>5. n * den \in Nat \ {0} /\ (k + 1) * (n * den) \in Nat /\ left \in Int
  OBVIOUS
<1>6. ((k + 1) * (n * den)) * places <= left * places
  <2> DEFINE u == (k + 1) * (n * den)
  <2>1. u \in Nat /\ u <= left
    BY <1>4, <1>5
  <2> HIDE DEF u
  <2>2. u * places <= left * places
    BY <1>5, <2>1, ProductAtMost
  <2> QED
    BY <2>2 DEF u
<1>7. whole <= (k * places) * (n * den)
  <2>1. (debt * n) * num <= (debt * n) * den
    <3> DEFINE u == debt * n
    <3>1. u \in Nat
      OBVIOUS
    <3> HIDE DEF u
    <3>2. num * u <= den * u
      BY <3>1, ProductAtMost
    <3> QED
      BY <3>1, <3>2 DEF u
  <2>2. debt * (n * den) <= (k * places) * (n * den)
    <3> DEFINE u == n * den   z == k * places
    <3>1. u \in Nat /\ z \in Nat /\ debt <= z
      OBVIOUS
    <3> HIDE DEF u, z
    <3>2. debt * u <= z * u
      BY <3>1, ProductAtMost
    <3> QED
      BY <3>2 DEF u, z
  <2> QED
    BY <2>1, <2>2
<1>8. (n * den) * places > 0
  <2> DEFINE u == n * den
  <2>1. u \in Nat \ {0}
    BY <1>5
  <2> HIDE DEF u
  <2>2. u * places > 0
    BY <2>1
  <2> QED
    BY <2>2 DEF u
<1>9. whole < left * places
  BY <1>5, <1>6, <1>7, <1>8
<1> QED
  BY <1>4, <1>5, <1>9

(* If the client repays the whole debt, the collateral is worth it.        *)
LEMMA RepaymentFits ==
  ASSUME NEW n \in Nat \ {0}, NEW debt \in Nat, NEW num \in Nat, NEW den \in Nat \ {0},
         NEW value \in Nat, NEW r \in Nat, NEW d \in Nat, NEW e \in Nat,
         d * den <= debt * num + e * den, value <= r * n, debt * n * num < value * den
  PROVE  d <= r + e
<1>1. value * den <= (r * n) * den
  <2> DEFINE u == r * n
  <2>1. u \in Nat /\ value <= u
    OBVIOUS
  <2> HIDE DEF u
  <2>2. value * den <= u * den
    BY <2>1, ProductAtMost
  <2> QED
    BY <2>2 DEF u
<1>2. (d * den) * n <= (debt * num + e * den) * n
  <2> DEFINE u == d * den   z == debt * num + e * den
  <2>1. u \in Nat /\ z \in Nat /\ u <= z
    OBVIOUS
  <2> HIDE DEF u, z
  <2>2. u * n <= z * n
    BY <2>1, ProductAtMost
  <2> QED
    BY <2>2 DEF u, z
<1>3. d * (n * den) <= (r + e) * (n * den)
  BY <1>1, <1>2
<1>4. n * den \in Nat \ {0}
  OBVIOUS
<1> DEFINE c == n * den
<1> HIDE DEF c
<1>5. d * c <= (r + e) * c /\ c \in Nat \ {0}
  BY <1>3, <1>4 DEF c
<1> QED
  BY <1>5, ProductCancelled

(* and Expiry asks no more than the collateral for it.                     *)
LEMMA RepaymentCost ==
  ASSUME NEW d \in Nat, NEW adjusted \in Nat, NEW price \in Nat \ {0}, NEW wei \in Nat,
         NEW r \in Nat, d < r, (r - 1) * adjusted < wei * price
  PROVE  GetPartial(d, adjusted, price) <= wei
<1> DEFINE g == GetPartial(d, adjusted, price)
<1>1. g \in Nat /\ g * price <= d * adjusted
  BY PartialBounds
<1> HIDE DEF g
<1>2. d * adjusted <= (r - 1) * adjusted
  <2>1. d <= r - 1 /\ r - 1 \in Int
    OBVIOUS
  <2> QED
    BY <2>1, ProductAtMost
<1>3. g * price <= wei * price
  BY <1>1, <1>2
<1> QED
  BY <1>1, <1>3, ProductCancelled DEF g

-----------------------------------------------------------------------------
(* Plans for expired accounts. The accounts on the way of a plan are those *)
(* that the definition of Along asks for: the recursion has a solution.    *)
AlongStep(x, plan, h, i) ==
  IF i = 0 THEN [owed |-> -x.weis[x.expiredMarket], held |-> x.weis]
  ELSE AfterTrade(x, h[i - 1], plan[i])

AlongUpTo(x, plan, h, k) ==
  /\ h = [i \in 0..Len(plan) |-> h[i]]
  /\ \A i \in 0..Len(plan) : i <= k => h[i] = AlongStep(x, plan, h, i)

LEMMA AlongFacts ==
  ASSUME NEW x, NEW plan, Len(plan) \in Nat
  PROVE  LET account == Along(x, plan)
         IN  /\ account[0] = [owed |-> -x.weis[x.expiredMarket], held |-> x.weis]
             /\ \A i \in 1..Len(plan) :
                  account[i] = AfterTrade(x, account[i - 1], plan[i])
<1> DEFINE n == Len(plan)
           F == {k \in Nat : \E h : AlongUpTo(x, plan, h, k)}
<1>1. 0 \in F
  <2> DEFINE base == [owed |-> -x.weis[x.expiredMarket], held |-> x.weis]
  <2>1. AlongUpTo(x, plan, [i \in 0..n |-> base], 0)
    BY DEF AlongUpTo, AlongStep
  <2> QED
    BY <2>1
<1>2. ASSUME NEW k \in F PROVE k + 1 \in F
  <2>1. PICK h : AlongUpTo(x, plan, h, k)
    OBVIOUS
  <2> DEFINE g == [i \in 0..n |-> IF i <= k THEN h[i] ELSE AlongStep(x, plan, h, i)]
  <2>2. ASSUME NEW i \in 0..n, i <= k + 1 PROVE g[i] = AlongStep(x, plan, g, i)
    <3>1. g[i] = AlongStep(x, plan, h, i)
      BY <2>1, <2>2 DEF AlongUpTo
    <3>2. i # 0 => g[i - 1] = h[i - 1]
      BY <2>2
    <3> HIDE DEF g
    <3> QED
      BY <3>1, <3>2 DEF AlongStep
  <2>3. g = [i \in 0..n |-> g[i]]
    OBVIOUS
  <2> HIDE DEF g
  <2>4. AlongUpTo(x, plan, g, k + 1)
    BY <2>2, <2>3 DEF AlongUpTo
  <2> QED
    BY <2>4
<1>3. F = Nat
  <2>1. F \in SUBSET Nat
    OBVIOUS
  <2> HIDE DEF F
  <2> QED
    BY <1>1, <1>2, <2>1, NatSets
<1>4. PICK h : AlongUpTo(x, plan, h, n)
  BY <1>3
<1> DEFINE Solves(f) == f = [i \in 0..n |->
                               IF i = 0 THEN [owed |-> -x.weis[x.expiredMarket], held |-> x.weis]
                               ELSE AfterTrade(x, f[i - 1], plan[i])]
           account == CHOOSE f : Solves(f)
<1>5. Along(x, plan) = account
  BY DEF Along
<1>6. Solves(h)
  <2>1. h = [i \in 0..n |-> h[i]]
    BY <1>4 DEF AlongUpTo
  <2>2. \A i \in 0..n : h[i] = IF i = 0 THEN [owed |-> -x.weis[x.expiredMarket], held |-> x.weis]
                               ELSE AfterTrade(x, h[i - 1], plan[i])
    <3>1. \A i \in 0..n : i <= n
      OBVIOUS
    <3>2. \A i \in 0..n : h[i] = AlongStep(x, plan, h, i)
      BY <1>4, <3>1 DEF AlongUpTo
    <3>3. ASSUME NEW i \in 0..n
          PROVE  h[i] = IF i = 0 THEN [owed |-> -x.weis[x.expiredMarket], held |-> x.weis]
                        ELSE AfterTrade(x, h[i - 1], plan[i])
      <4>1. h[i] = AlongStep(x, plan, h, i)
        BY <3>2
      <4> QED
        BY <4>1 DEF AlongStep
    <3> QED
      BY <3>3
  <2>3. [i \in 0..n |-> h[i]] =
          [i \in 0..n |-> IF i = 0 THEN [owed |-> -x.weis[x.expiredMarket], held |-> x.weis]
                          ELSE AfterTrade(x, h[i - 1], plan[i])]
    BY <2>2
  <2> QED
    BY <2>1, <2>3
<1>7. Solves(account)
  <2> HIDE DEF Solves
  <2> QED
    BY <1>6
<1> HIDE DEF account
<1> DEFINE sol == [i \in 0..n |-> IF i = 0 THEN [owed |-> -x.weis[x.expiredMarket], held |-> x.weis]
                                ELSE AfterTrade(x, account[i - 1], plan[i])]
<1>8. account = sol
  BY <1>7
<1>9. /\ sol[0] = [owed |-> -x.weis[x.expiredMarket], held |-> x.weis]
      /\ \A i \in 1..n : sol[i] = AfterTrade(x, account[i - 1], plan[i])
  OBVIOUS
<1> HIDE DEF sol
<1> QED
  BY <1>5, <1>8, <1>9

(* Past the time over which the spread grows, the price that the builder   *)
(* computes for the debt is the exact one; that of Expiry is near it.      *)
Late(x) == x.blockTimestamp - x.expiryTimestamp >= ExpiryRampTime

Debt(x) == -x.weis[x.expiredMarket]
Unit    == PremiumBase * PremiumBase * PremiumBase
ExactPrice(x, h) ==
  x.prices[x.expiredMarket]
    * (Spread * (PremiumBase + x.spreadPremiums[h])
         * (PremiumBase + x.spreadPremiums[x.expiredMarket]) + Unit)

LEMMA DebtValues ==
  ASSUME NEW x \in Plans
  PROVE  /\ Debt(x) \in Nat \ {0} /\ x.weis[x.expiredMarket] = -Debt(x)
         /\ x.prices[x.expiredMarket] \in Nat \ {0}
         /\ x.indexes[x.expiredMarket] \in Nat \ {0}
         /\ x.spreadPremiums[x.expiredMarket] \in Nat
         /\ PremiumBase \in Nat \ {0} /\ Places \in Nat \ {0}
<1>1. /\ x.weis[x.expiredMarket] \in Int /\ x.weis[x.expiredMarket] < 0
      /\ x.prices[x.expiredMarket] \in Nat \ {0}
      /\ x.indexes[x.expiredMarket] \in Nat \ {0}
      /\ x.spreadPremiums[x.expiredMarket] \in Nat
  BY PlansAssumption DEF IsPlan
<1>2. PremiumBase \in Nat \ {0} /\ Places \in Nat \ {0}
  BY PlansAssumption
<1> QED
  BY <1>1, <1>2 DEF Debt

LEMMA PlanValues ==
  ASSUME NEW x \in Plans, NEW h \in ToSet(x.collateralPreferences)
  PROVE  /\ Debt(x) \in Nat \ {0} /\ x.weis[x.expiredMarket] = -Debt(x)
         /\ x.prices[x.expiredMarket] \in Nat \ {0} /\ x.prices[h] \in Nat \ {0}
         /\ x.indexes[x.expiredMarket] \in Nat \ {0} /\ x.indexes[h] \in Nat \ {0}
         /\ x.spreadPremiums[x.expiredMarket] \in Nat /\ x.spreadPremiums[h] \in Nat
         /\ x.weis[h] \in Int
         /\ x.blockTimestamp \in Nat /\ x.expiryTimestamp \in Nat
         /\ Spread \in Nat /\ ExpiryRampTime \in Nat \ {0} /\ PremiumBase \in Nat \ {0}
         /\ Places \in Nat \ {0}
<1>1. /\ x.weis[x.expiredMarket] \in Int /\ x.weis[x.expiredMarket] < 0
      /\ x.prices[x.expiredMarket] \in Nat \ {0} /\ x.prices[h] \in Nat \ {0}
      /\ x.indexes[x.expiredMarket] \in Nat \ {0} /\ x.indexes[h] \in Nat \ {0}
      /\ x.spreadPremiums[x.expiredMarket] \in Nat /\ x.spreadPremiums[h] \in Nat
      /\ x.weis[h] \in Int
      /\ x.blockTimestamp \in Nat /\ x.expiryTimestamp \in Nat
  BY PlansAssumption DEF IsPlan
<1>2. /\ Spread \in Nat /\ ExpiryRampTime \in Nat \ {0} /\ PremiumBase \in Nat \ {0}
      /\ Places \in Nat \ {0}
  BY PlansAssumption
<1> QED
  BY <1>1, <1>2 DEF Debt

LEMMA LatePrice ==
  ASSUME NEW x \in Plans, Late(x), NEW h \in ToSet(x.collateralPreferences)
  PROVE  LET p == x.prices[x.expiredMarket]
             n == ExactPrice(x, h)
             adjusted == SpreadAdjustedPrice(x, h)
             premium == x.spreadPremiums[x.expiredMarket]
         IN  /\ DebtPrice(x, h) = Frac(Debt(x) * n, Unit)
             /\ Unit \in Nat \ {0} /\ n \in Nat \ {0} /\ adjusted \in Nat \ {0}
             /\ p <= adjusted /\ adjusted * Unit <= n
             /\ n <= adjusted * Unit + Unit + p * ((2 * PremiumBase + premium) * PremiumBase)
<1> DEFINE p == x.prices[x.expiredMarket]
           held == x.spreadPremiums[h]
           owed == x.spreadPremiums[x.expiredMarket]
           w == Spread * (PremiumBase + held) * (PremiumBase + owed)
           n == ExactPrice(x, h)
<1>1. /\ Debt(x) \in Nat \ {0} /\ p \in Nat \ {0} /\ held \in Nat /\ owed \in Nat
      /\ Spread \in Nat /\ PremiumBase \in Nat \ {0}
      /\ x.blockTimestamp \in Nat /\ x.expiryTimestamp \in Nat /\ ExpiryRampTime \in Nat
      /\ -x.weis[x.expiredMarket] = Debt(x)
  BY PlanValues DEF Debt
<1>2. ~(x.blockTimestamp - x.expiryTimestamp < ExpiryRampTime)
  BY <1>1 DEF Late
<1>3. SpreadAdjustedPrice(x, h) =
        p + GetPartial(p, GetPartial(GetPartial(Spread, PremiumBase + held, PremiumBase),
                                     PremiumBase + owed, PremiumBase), PremiumBase)
  BY <1>2 DEF SpreadAdjustedPrice, LiquidationSpread
<1>4. n = p * (w + Unit)
  BY DEF ExactPrice
<1>5. DebtPrice(x, h) = Frac(Debt(x) * n, Unit)
  <2>1. RampAdjustment(x) = Frac(1, 1)
    BY <1>2 DEF RampAdjustment
  <2>2. SpreadFor(x, h) = Frac(w + Unit, Unit)
    BY DEF SpreadFor, Unit
  <2>3. DebtPrice(x, h) = Frac(-x.weis[x.expiredMarket] * p * 1 * (w + Unit), 1 * Unit)
    BY <2>1, <2>2 DEF DebtPrice, Frac
  <2>4. w \in Int /\ Unit \in Int
    BY <1>1 DEF Unit
  <2> HIDE DEF w, p, n
  <2>5. -x.weis[x.expiredMarket] * p * 1 * (w + Unit) = Debt(x) * n /\ 1 * Unit = Unit
    <3> DEFINE o == x.weis[x.expiredMarket]
    <3>1. -o = Debt(x) /\ -o * p * 1 * (w + Unit) = (-o) * (p * (w + Unit))
      BY <1>1, <2>4, PlanValues
    <3> QED
      BY <1>4, <2>4, <3>1
  <2> QED
    BY <2>3, <2>5
<1> HIDE DEF p, held, owed, n
<1>6. /\ SpreadAdjustedPrice(x, h) \in Nat \ {0} /\ p <= SpreadAdjustedPrice(x, h)
      /\ Unit \in Nat \ {0} /\ n \in Nat \ {0} /\ SpreadAdjustedPrice(x, h) * Unit <= n
      /\ n <= SpreadAdjustedPrice(x, h) * Unit + Unit
              + p * ((2 * PremiumBase + owed) * PremiumBase)
  <2> DEFINE a == WithSpread(p, Spread, held, owed, PremiumBase)
             z == p * (w + PremiumBase * PremiumBase * PremiumBase)
  <2>1. /\ a \in Nat \ {0} /\ p <= a
        /\ PremiumBase * PremiumBase * PremiumBase \in Nat \ {0} /\ z \in Nat \ {0}
        /\ a * (PremiumBase * PremiumBase * PremiumBase) <= z
        /\ z <= a * (PremiumBase * PremiumBase * PremiumBase)
                + PremiumBase * PremiumBase * PremiumBase
                + p * ((2 * PremiumBase + owed) * PremiumBase)
    BY <1>1, PriceBounds, ZenonT(30)
  <2>2. SpreadAdjustedPrice(x, h) = a /\ n = z
        /\ Unit = PremiumBase * PremiumBase * PremiumBase
    BY <1>3, <1>4 DEF Unit, WithSpread
  <2> HIDE DEF a, z
  <2> QED
    BY <2>1, <2>2
<1> QED
  BY <1>5, <1>6 DEF p, owed, n

(* What the drift is made of.                                              *)
LEMMA DriftParts ==
  ASSUME NEW x \in Plans
  PROVE  LET p == x.prices[x.expiredMarket]
             premium == x.spreadPremiums[x.expiredMarket]
         IN  \E k1, k2, k3 \in Nat :
               LET k4 == GetPartialRoundUp(x.indexes[x.expiredMarket], 1, PremiumBase)
               IN  /\ k4 \in Nat /\ Drift(x) = (1 + k1 + k2) + k3 + k4
                   /\ Debt(x) <= k1 * p
                   /\ Debt(x) * ((2 * PremiumBase + premium) * PremiumBase) <= k2 * Unit
                   /\ Debt(x) <= k3 * Places
<1> DEFINE p == x.prices[x.expiredMarket]
           premium == x.spreadPremiums[x.expiredMarket]
           index == x.indexes[x.expiredMarket]
           debt == Debt(x)
           b == PremiumBase
           c == 2 * b + premium
           k1 == GetPartialRoundUp(debt, 1, p)
           k2 == GetPartialRoundUp(debt, c, b * b)
           k3 == GetPartialRoundUp(debt, 1, Places)
           k4 == GetPartialRoundUp(index, 1, b)
<1>1. /\ debt \in Nat \ {0} /\ p \in Nat \ {0} /\ premium \in Nat /\ index \in Nat \ {0}
      /\ b \in Nat \ {0} /\ Places \in Nat \ {0}
  BY DebtValues
<1>2. Drift(x) = 1 + k1 + k2 + k3 + k4
  BY DEF Drift, Debt
<1> HIDE DEF p, premium, index, debt
<1>3. c \in Nat /\ b * b \in Nat \ {0}
  BY <1>1
<1>4. k1 \in Nat /\ debt * 1 <= k1 * p
  BY <1>1, RoundUpBounds
<1>5. k2 \in Nat /\ debt * c <= k2 * (b * b)
  <2> HIDE DEF c
  <2> QED
    BY <1>1, <1>3, RoundUpBounds
<1>6. k3 \in Nat /\ debt * 1 <= k3 * Places
  BY <1>1, RoundUpBounds
<1>7. k4 \in Nat
  BY <1>1, RoundUpBounds
<1> HIDE DEF k1, k2, k3, k4
<1>8. debt * (c * b) <= k2 * Unit
  <2> DEFINE u == debt * c   z == k2 * (b * b)
  <2>1. u \in Int /\ z \in Int /\ u <= z
    BY <1>1, <1>3, <1>5
  <2> HIDE DEF u, z
  <2>2. u * b <= z * b
    BY <1>1, <2>1, ProductAtMost
  <2>3. u * b = debt * (c * b) /\ z * b = k2 * Unit
    BY <1>1, <1>3, <1>5 DEF u, z, Unit
  <2> QED
    BY <2>2, <2>3
<1>9. /\ k1 \in Nat /\ k2 \in Nat /\ k3 \in Nat /\ k4 \in Nat
      /\ Drift(x) = (1 + k1 + k2) + k3 + k4 /\ debt <= k1 * p /\ debt <= k3 * Places
  BY <1>1, <1>2, <1>4, <1>5, <1>6, <1>7
<1> QED
  BY <1>8, <1>9 DEF k4, debt, p, premium, index

(* What the client takes for the debt that is left, a fraction of the      *)
(* whole, and what the account owes, after so many trades.                 *)
Tracks(x, left, owed, trades) ==
  LET drift == trades * Drift(x)
  IN  /\ left = Frac(left.num, left.den)
      /\ left.num \in Nat /\ left.den \in Nat \ {0} /\ left.num <= left.den
      /\ owed \in Nat /\ (left.num = 0 <=> owed = 0)
      /\ Debt(x) * left.num <= (owed + drift) * left.den
      /\ owed * left.den <= Debt(x) * left.num + drift * left.den

LEMMA DriftType ==
  ASSUME NEW x \in Plans
  PROVE  Drift(x) \in Nat
<1> DEFINE k4 == GetPartialRoundUp(x.indexes[x.expiredMarket], 1, PremiumBase)
<1>1. PICK k1, k2, k3 \in Nat : k4 \in Nat /\ Drift(x) = (1 + k1 + k2) + k3 + k4
  BY DriftParts
<1> HIDE DEF k4
<1> QED
  BY <1>1

LEMMA TracksAtFirst ==
  ASSUME NEW x \in Plans
  PROVE  Tracks(x, Frac(1, 1), Debt(x), 0)
<1>1. Debt(x) \in Nat \ {0} /\ Drift(x) \in Nat
  BY DebtValues, DriftType
<1>2. 0 * Drift(x) = 0
  BY <1>1
<1>3. Frac(1, 1).num = 1 /\ Frac(1, 1).den = 1
  BY DEF Frac
<1> QED
  BY <1>1, <1>2, <1>3 DEF Tracks

(* What a collateral repays, against its value.                            *)
LEMMA Worth ==
  ASSUME NEW x \in Plans, Late(x), NEW h \in ToSet(x.collateralPreferences), x.weis[h] > 0
  PROVE  LET v == HeldValue(x, h)
             r == HeldToOwed(x, h, x.weis[h])
             adjusted == SpreadAdjustedPrice(x, h)
         IN  /\ v \in Nat /\ v = x.weis[h] * x.prices[h]
             /\ r \in Nat \ {0} /\ (r - 1) * adjusted < v
             /\ v * Unit \in Nat /\ v * Unit <= r * ExactPrice(x, h)
<1> DEFINE wei == x.weis[h]
           price == x.prices[h]
           v == HeldValue(x, h)
           adjusted == SpreadAdjustedPrice(x, h)
           r == HeldToOwed(x, h, wei)
           n == ExactPrice(x, h)
<1>1. /\ Unit \in Nat \ {0} /\ n \in Nat \ {0} /\ adjusted \in Nat \ {0}
      /\ adjusted * Unit <= n
  BY LatePrice
<1>2. wei \in Nat \ {0} /\ price \in Nat \ {0} /\ h # x.expiredMarket
  <2>1. Debt(x) \in Nat \ {0} /\ x.weis[x.expiredMarket] = -Debt(x) /\ wei \in Int
        /\ price \in Nat \ {0} /\ wei > 0
    BY PlanValues
  <2> QED
    BY <2>1
<1>3. v = wei * price
  BY DEF HeldValue
<1>4. r = GetPartialRoundUp(wei, price, adjusted)
  BY DEF HeldToOwed
<1> HIDE DEF wei, price, v, adjusted, r, n
<1>5. v \in Nat /\ v > 0
  BY <1>2, <1>3
<1>6. r \in Nat /\ v <= r * adjusted /\ (v > 0 => r > 0 /\ (r - 1) * adjusted < v)
  BY <1>1, <1>2, <1>3, <1>4, RoundUpBounds
<1>7. v * Unit <= r * n
  BY <1>1, <1>5, <1>6, RepaidAtLeast
<1>8. v * Unit \in Nat
  BY <1>1, <1>5
<1> QED
  BY <1>3, <1>5, <1>6, <1>7, <1>8 DEF wei, price, v, adjusted, r, n

(* A trade that repays the whole debt.                                     *)
LEMMA RepaymentAgreed ==
  ASSUME NEW x \in Plans, Late(x), NEW h \in ToSet(x.collateralPreferences), x.weis[h] > 0,
         NEW o, NEW d, NEW t \in Nat, Tracks(x, o, d, t), o.num # 0, DebtBound(x, h, o),
         LET worth == HeldToOwed(x, h, x.weis[h])
         IN  worth + (t + 1) * Drift(x) < d \/ d + (t + 1) * Drift(x) < worth
  PROVE  /\ d > 0 /\ OwedToHeld(x, h, d) <= x.weis[h]
         /\ OwedAfter(x, h, o) = Frac(0, 1) /\ Tracks(x, Frac(0, 1), 0, t + 1)
<1> DEFINE v == HeldValue(x, h)
           wei == x.weis[h]
           price == x.prices[h]
           r == HeldToOwed(x, h, wei)
           adjusted == SpreadAdjustedPrice(x, h)
           n == ExactPrice(x, h)
           value == v * Unit
           debt == Debt(x)
           e == t * Drift(x)
<1>1. /\ n \in Nat \ {0} /\ Unit \in Nat \ {0} /\ adjusted \in Nat \ {0}
      /\ DebtPrice(x, h) = Frac(debt * n, Unit)
  BY LatePrice
<1>2. /\ v \in Nat /\ r \in Nat \ {0} /\ (r - 1) * adjusted < v /\ v = wei * price
      /\ value \in Nat /\ value <= r * n
  BY Worth
<1>3. debt \in Nat /\ wei \in Nat /\ price \in Nat \ {0}
  <2>1. debt \in Nat \ {0} /\ price \in Nat \ {0} /\ wei \in Int /\ wei > 0
    BY PlanValues
  <2> QED
    BY <2>1
<1>4. Drift(x) \in Nat /\ e \in Nat /\ (t + 1) * Drift(x) = e + Drift(x)
  <2>1. Drift(x) \in Nat
    BY DriftType
  <2> QED
    BY <2>1
<1>5. /\ o.num \in Nat /\ o.den \in Nat \ {0} /\ d \in Nat /\ d # 0
      /\ d * o.den <= debt * o.num + e * o.den
  BY DEF Tracks
<1>6. debt * n * o.num < value * o.den
  <2>1. v * DebtPrice(x, h).den * o.den > DebtPrice(x, h).num * o.num
    BY DEF DebtBound
  <2>2. DebtPrice(x, h).den = Unit /\ DebtPrice(x, h).num = debt * n
    BY <1>1 DEF Frac
  <2> HIDE DEF v, debt, n
  <2> QED
    BY <1>1, <1>2, <1>3, <1>5, <2>1, <2>2
<1>7. OwedAfter(x, h, o) = Frac(0, 1)
  BY DEF OwedAfter
<1>8. r + (e + Drift(x)) < d \/ d + (e + Drift(x)) < r
  BY <1>4
<1> HIDE DEF v, wei, price, r, adjusted, n, value, debt, e
<1>9. d <= r + e
  BY <1>1, <1>2, <1>3, <1>4, <1>5, <1>6, RepaymentFits
<1>10. d < r
  BY <1>2, <1>4, <1>5, <1>8, <1>9
<1>11. GetPartial(d, adjusted, price) <= wei
  BY <1>1, <1>2, <1>3, <1>5, <1>10, RepaymentCost
<1>12. OwedToHeld(x, h, d) <= wei
  BY <1>11 DEF OwedToHeld, adjusted, price
<1>13. Tracks(x, Frac(0, 1), 0, t + 1)
  <2> DEFINE drift == (t + 1) * Drift(x)
  <2>1. drift \in Nat
    BY <1>4
  <2> HIDE DEF drift
  <2>2. Debt(x) * 0 <= (0 + drift) * 1 /\ 0 * 1 <= Debt(x) * 0 + drift * 1
    BY <1>3, <2>1 DEF debt
  <2>3. Frac(0, 1) = Frac(Frac(0, 1).num, Frac(0, 1).den) /\ Frac(0, 1).num = 0
        /\ Frac(0, 1).den = 1
    BY DEF Frac
  <2> QED
    BY <2>2, <2>3 DEF Tracks, drift
<1> QED
  BY <1>5, <1>7, <1>12, <1>13 DEF wei

(* A trade that sells all of a collateral.                                 *)
LEMMA SaleAgreed ==
  ASSUME NEW x \in Plans, Late(x), NEW h \in ToSet(x.collateralPreferences), x.weis[h] > 0,
         NEW o, NEW d, NEW t \in Nat, Tracks(x, o, d, t), o.num # 0, ~DebtBound(x, h, o),
         LET worth == HeldToOwed(x, h, x.weis[h])
         IN  worth + (t + 1) * Drift(x) < d \/ d + (t + 1) * Drift(x) < worth
  PROVE  LET worth == HeldToOwed(x, h, x.weis[h])
         IN  /\ d > 0 /\ worth <= d
             /\ Tracks(x, OwedAfter(x, h, o), Booked(x, x.expiredMarket, d - worth), t + 1)
<1> DEFINE m == x.expiredMarket
           p == x.prices[m]
           c == (2 * PremiumBase + x.spreadPremiums[m]) * PremiumBase
           v == HeldValue(x, h)
           r == HeldToOwed(x, h, x.weis[h])
           adjusted == SpreadAdjustedPrice(x, h)
           n == ExactPrice(x, h)
           value == v * Unit
           debt == Debt(x)
           e == t * Drift(x)
           num == o.num
           den == o.den
           whole == debt * n * num
           left == whole - value * den
           q == (2 * left * Places + whole) \div (2 * whole)
           index == x.indexes[m]
           k4 == GetPartialRoundUp(index, 1, PremiumBase)
           w == Booked(x, m, d - r)
<1>1. /\ n \in Nat \ {0} /\ Unit \in Nat \ {0} /\ adjusted \in Nat \ {0}
      /\ DebtPrice(x, h) = Frac(debt * n, Unit) /\ p <= adjusted
      /\ n <= adjusted * Unit + Unit + p * c
  BY LatePrice
<1>2. /\ v \in Nat /\ r \in Nat \ {0} /\ (r - 1) * adjusted < v
      /\ value \in Nat /\ value <= r * n
  BY Worth
<1>3. /\ debt \in Nat \ {0} /\ p \in Nat \ {0} /\ index \in Nat \ {0}
      /\ PremiumBase \in Nat \ {0} /\ Places \in Nat \ {0} /\ x.spreadPremiums[m] \in Nat
  BY PlanValues
<1>4. PICK k1, k2, k3 \in Nat :
        /\ k4 \in Nat /\ Drift(x) = (1 + k1 + k2) + k3 + k4
        /\ debt <= k1 * p /\ debt * c <= k2 * Unit /\ debt <= k3 * Places
  BY DriftParts
<1> DEFINE k == 1 + k1 + k2
<1>5. /\ num \in Nat /\ num # 0 /\ den \in Nat \ {0} /\ num <= den /\ d \in Nat /\ d # 0
      /\ debt * num <= (d + e) * den /\ d * den <= debt * num + e * den
  BY DEF Tracks
<1>6. value * den <= whole
  <2>1. ~(v * DebtPrice(x, h).den * den > DebtPrice(x, h).num * num)
    BY DEF DebtBound
  <2>2. DebtPrice(x, h).den = Unit /\ DebtPrice(x, h).num = debt * n
    BY <1>1 DEF Frac
  <2>3. value * den \in Int /\ whole \in Int
    <3> HIDE DEF value, debt, n, num, den
    <3> QED
      BY <1>1, <1>2, <1>3, <1>5
  <2> QED
    BY <2>1, <2>2, <2>3
<1>7. OwedAfter(x, h, o) = Frac(q * num, Places * den)
  <2>1. DebtPrice(x, h).den = Unit /\ DebtPrice(x, h).num = debt * n
    BY <1>1 DEF Frac
  <2>2. OwedAfter(x, h, o) = LET f == Quotient(left, whole)
                             IN  Frac(f.num * num, f.den * den)
    BY <2>1 DEF OwedAfter
  <2> HIDE DEF left, whole
  <2>3. Quotient(left, whole) = Frac(q, Places)
    BY DEF Quotient
  <2> HIDE DEF q, num, den
  <2> QED
    BY <2>2, <2>3 DEF Frac
<1>8. r + (t + 1) * Drift(x) < d \/ d + (t + 1) * Drift(x) < r
  OBVIOUS
<1>9. w = GetPartialRoundHalfUp(GetPartialRoundHalfUp(d - r, PremiumBase, index),
                                index, PremiumBase)
  BY DEF Booked
<1>10. c \in Nat
  BY <1>3
<1> HIDE DEF m, p, c, v, r, adjusted, n, value, debt, num, den, w, index, k4
<1>11. e \in Nat /\ Drift(x) \in Nat /\ (t + 1) * Drift(x) = e + Drift(x) /\ k \in Nat
  <2>1. Drift(x) \in Nat
    BY <1>4
  <2> QED
    BY <1>4, <2>1
<1> HIDE DEF e
<1>12. r * n <= value + n * k
  <2>1. value <= debt * n
    <3>1. debt * n \in Nat
      BY <1>1, <1>3
    <3> DEFINE z == debt * n
    <3> HIDE DEF z
    <3>2. num * z <= den * z
      BY <1>5, <3>1, ProductAtMost DEF z
    <3>3. value * den <= z * den
      <4>1. whole = z * num
        BY DEF z
      <4> HIDE DEF whole
      <4> QED
        BY <1>2, <1>5, <1>6, <3>1, <3>2, <4>1 DEF z
    <3>4. value <= z
      BY <1>2, <1>5, <3>1, <3>3, ProductCancelled DEF z
    <3> QED
      BY <3>4 DEF z
  <2>2. (r - 1) * adjusted <= v
    BY <1>1, <1>2
  <2>3. v * Unit <= debt * n
    BY <2>1 DEF value
  <2>4. r * n <= v * Unit + n * (1 + k1 + k2)
    BY <1>1, <1>2, <1>3, <1>4, <1>10, <2>2, <2>3, RepaidAtMost
  <2> QED
    BY <2>4 DEF value
<1> HIDE DEF k
<1>13. r + (e + Drift(x)) < d
  <2>1. r <= d + e + k
    BY <1>1, <1>2, <1>3, <1>5, <1>6, <1>11, <1>12, SaleFits
  <2>2. k <= Drift(x)
    BY <1>4 DEF k
  <2>3. r + (e + Drift(x)) < d \/ d + (e + Drift(x)) < r
    BY <1>8, <1>11
  <2> QED
    BY <1>2, <1>5, <1>11, <2>1, <2>2, <2>3
<1>14. r <= d /\ r + e + k3 < d /\ d - r \in Nat /\ k4 < d - r
  <2>1. k3 <= Drift(x) /\ k4 < Drift(x)
    BY <1>4
  <2> QED
    BY <1>2, <1>4, <1>5, <1>11, <1>13, <2>1
<1>15. left >= 0 /\ whole < left * Places
  BY <1>1, <1>2, <1>3, <1>4, <1>5, <1>11, <1>14, SaleLeaves
<1>16. /\ whole \in Nat \ {0} /\ left \in Nat /\ left <= whole
  <2>1. debt * n \in Nat \ {0}
    BY <1>1, <1>3
  <2>2. whole \in Nat \ {0}
    <3> DEFINE z == debt * n
    <3> HIDE DEF z
    <3>1. z * num \in Nat \ {0}
      BY <1>5, <2>1 DEF z
    <3> QED
      BY <3>1 DEF z
  <2>3. value * den \in Nat
    BY <1>2, <1>5
  <2> HIDE DEF whole
  <2> QED
    BY <1>15, <2>2, <2>3
<1>17. /\ q \in Nat /\ q <= Places /\ 2 * (q * whole) <= 2 * (left * Places) + whole
       /\ 2 * (left * Places) <= 2 * (q * whole) + whole
  <2> HIDE DEF whole, left
  <2> QED
    BY <1>3, <1>16, DivisionBounds
<1> HIDE DEF q
<1>18. /\ q * whole <= left * Places + whole /\ left * Places <= q * whole + whole
       /\ q # 0
  <2> HIDE DEF whole, left
  <2>1. q * whole \in Nat /\ left * Places \in Nat
    BY <1>3, <1>16, <1>17
  <2>2. q = 0 => q * whole = 0
    BY <1>16
  <2> QED
    BY <1>15, <1>16, <1>17, <2>1, <2>2
<1>19. w \in Nat /\ w <= (d - r) + k4 /\ d - r <= w + k4
  BY <1>3, <1>9, <1>14, BookedBounds DEF k4
<1>20. w # 0
  BY <1>4, <1>14, <1>19
<1>21. /\ debt * (q * num) <= (w + (e + k + k3 + k4)) * (Places * den)
       /\ w * (Places * den) <= debt * (q * num) + (e + k + k3 + k4) * (Places * den)
  BY <1>1, <1>2, <1>3, <1>4, <1>5, <1>11, <1>12, <1>17, <1>18, <1>19, DriftGrows
<1>22. e + k + k3 + k4 = (t + 1) * Drift(x)
  BY <1>4, <1>11 DEF k
<1>23. /\ q * num \in Nat /\ q * num # 0 /\ Places * den \in Nat \ {0}
       /\ q * num <= Places * den
  <2>1. q * num <= Places * num
    BY <1>3, <1>5, <1>17, ProductAtMost
  <2>2. num * Places <= den * Places
    BY <1>3, <1>5, ProductAtMost
  <2>3. Places * num = num * Places /\ Places * den = den * Places
    BY <1>3, <1>5
  <2>4. q * num \in Nat /\ q * num # 0 /\ Places * den \in Nat \ {0}
    BY <1>3, <1>5, <1>17, <1>18
  <2> QED
    BY <1>3, <1>5, <1>17, <2>1, <2>2, <2>3, <2>4
<1>24. Tracks(x, Frac(q * num, Places * den), w, t + 1)
  <2> DEFINE f == Frac(q * num, Places * den)
  <2>1. f = Frac(f.num, f.den) /\ f.num = q * num /\ f.den = Places * den
    BY DEF Frac
  <2> HIDE DEF f
  <2>2. Tracks(x, f, w, t + 1)
    BY <1>19, <1>20, <1>21, <1>22, <1>23, <2>1 DEF Tracks, debt
  <2> QED
    BY <2>2 DEF f
<1> QED
  BY <1>5, <1>7, <1>14, <1>24 DEF r, w, m

(* So Expiry takes the trade that the builder adds, and leaves of the      *)
(* account what the builder goes on with, but for the drift.               *)
(* A trade that Expiry takes, and what is then left of the debt, for the   *)
(* client and in the account.                                              *)
TradeGoes(x, h, o, d, t, held, action) ==
  LET a == [owed |-> d, held |-> held]
  IN  /\ TradeTaken(x, a, action)
      /\ DebtBound(x, h, o) => OwedAfter(x, h, o).num = 0
      /\ \E b, w : /\ AfterTrade(x, a, action) =
                        [owed |-> w, held |-> [held EXCEPT ![h] = b]]
                   /\ Tracks(x, OwedAfter(x, h, o), w, t + 1)
                   /\ ~DebtBound(x, h, o) => b = 0

LEMMA TradeAgreed ==
  ASSUME NEW x \in Plans, Late(x), NEW h \in ToSet(x.collateralPreferences), x.weis[h] > 0,
         NEW o, NEW d, NEW t \in Nat, Tracks(x, o, d, t), o.num # 0,
         LET worth == HeldToOwed(x, h, x.weis[h])
         IN  worth + (t + 1) * Drift(x) < d \/ d + (t + 1) * Drift(x) < worth,
         NEW held, held[h] = x.weis[h], NEW action, Collateral(x, action) = h,
         Repays(x, action) <=> DebtBound(x, h, o)
  PROVE  TradeGoes(x, h, o, d, t, held, action)
<1> DEFINE a == [owed |-> d, held |-> held]
           worth == HeldToOwed(x, h, x.weis[h])
<1>1. CASE DebtBound(x, h, o)
  <2>1. /\ d > 0 /\ OwedToHeld(x, h, d) <= x.weis[h]
        /\ OwedAfter(x, h, o) = Frac(0, 1) /\ Tracks(x, Frac(0, 1), 0, t + 1)
    BY <1>1, RepaymentAgreed
  <2> DEFINE b == Booked(x, h, held[h] - OwedToHeld(x, h, d))
  <2>2. AfterTrade(x, a, action) = [owed |-> 0, held |-> [held EXCEPT ![h] = b]]
    BY <1>1 DEF AfterTrade
  <2>3. TradeTaken(x, a, action)
    BY <1>1, <2>1 DEF TradeTaken
  <2>4. Frac(0, 1).num = 0
    BY DEF Frac
  <2> HIDE DEF b
  <2> QED
    BY <1>1, <2>1, <2>2, <2>3, <2>4 DEF TradeGoes
<1>2. CASE ~DebtBound(x, h, o)
  <2> DEFINE w == Booked(x, x.expiredMarket, d - worth)
  <2>1. d > 0 /\ worth <= d /\ Tracks(x, OwedAfter(x, h, o), w, t + 1)
    BY <1>2, SaleAgreed
  <2>2. AfterTrade(x, a, action) = [owed |-> w, held |-> [held EXCEPT ![h] = 0]]
    BY <1>2 DEF AfterTrade
  <2>3. TradeTaken(x, a, action)
    BY <1>2, <2>1 DEF TradeTaken
  <2> HIDE DEF w
  <2> QED
    BY <1>2, <2>1, <2>2, <2>3 DEF TradeGoes
<1> QED
  BY <1>1, <1>2

(* How far the builder has come after k collaterals, of the operation op   *)
(* that it began with, and the trades it has added: plan names all those   *)
(* it adds in the end.                                                     *)
Before(state, op) == Len(state.op.actions) - Len(op.actions)

OnItsWay(x, op, plan, state, k) ==
  LET account == Along(x, plan)
      a       == account[Before(state, op)]
      held(j) == a.held[x.collateralPreferences[j]]
  IN  /\ Kept(state.op, op)
      /\ Tracks(x, state.owed, a.owed, Before(state, op))
      /\ a = [owed |-> a.owed, held |-> a.held] /\ DOMAIN a.held = DOMAIN x.weis
      /\ \A j \in (k + 1)..Len(x.collateralPreferences) :
           held(j) = x.weis[x.collateralPreferences[j]]
      /\ state.owed.num = 0 \/ \A j \in 1..k : held(j) <= 0
      /\ \A i \in 1..Before(state, op) : TradeTaken(x, account[i - 1], plan[i])

(* The trades so far are those the plan begins with.                       *)
Adds(state, op, plan) ==
  /\ Before(state, op) <= Len(plan)
  /\ \A i \in 1..Before(state, op) : plan[i] = state.op.actions[Len(op.actions) + i]

LEMMA PreferenceFacts ==
  ASSUME NEW x \in Plans
  PROVE  LET seq == x.collateralPreferences
         IN  /\ seq \in Seq(Nat) /\ x.expiredMarket \in Nat
             /\ x.primary \in NamedAccount /\ x.expiredAccount \in NamedAccount
             /\ Len(seq) \in Nat /\ DOMAIN seq = 1..Len(seq)
             /\ \A j \in 1..Len(seq) :
                  /\ seq[j] \in Nat /\ seq[j] \in ToSet(seq)
                  /\ seq[j] \in DOMAIN x.weis /\ x.weis[seq[j]] \in Int
             /\ \A i, j \in 1..Len(seq) : seq[i] = seq[j] => i = j
<1> DEFINE seq == x.collateralPreferences
<1>1. IsItem(x) /\ IsPlan(x)
  BY CallsAssumption, PlansAssumption
<1>2. /\ seq \in Seq(Nat) /\ x.expiredMarket \in Nat
      /\ x.primary \in NamedAccount /\ x.expiredAccount \in NamedAccount
  BY <1>1 DEF IsItem, IsPlan
<1>3. /\ \A m \in ToSet(seq) : m \in DOMAIN x.weis /\ x.weis[m] \in Int
      /\ \A i, j \in DOMAIN seq : seq[i] = seq[j] => i = j
  BY <1>1 DEF IsPlan, IsInjective
<1> HIDE DEF seq
<1>4. Len(seq) \in Nat /\ DOMAIN seq = 1..Len(seq) /\ \A j \in 1..Len(seq) : seq[j] \in Nat
  BY <1>2
<1>5. \A j \in DOMAIN seq : seq[j] \in ToSet(seq)
  BY DEF ToSet
<1> QED
  BY <1>2, <1>3, <1>4, <1>5 DEF seq

LEMMA TheDebtIsOne ==
  ASSUME NEW x \in Plans, NEW h \in ToSet(x.collateralPreferences), x.weis[h] > 0
  PROVE  h # x.expiredMarket
<1>1. Debt(x) \in Nat \ {0} /\ x.weis[x.expiredMarket] = -Debt(x)
  BY PlanValues
<1> QED
  BY <1>1

LEMMA TurnOnItsWay ==
  ASSUME NEW x \in Plans, Late(x), NEW op, Fine(op), ~op.committed,
         NEW plan, Len(plan) \in Nat, DOMAIN plan = 1..Len(plan), Clear(x, plan),
         NEW state, NEW next,
         NEW k \in Nat, k < Len(x.collateralPreferences), OnItsWay(x, op, plan, state, k),
         next = TradeHeld(x, state, x.collateralPreferences[k + 1]),
         Adds(next, op, plan)
  PROVE  OnItsWay(x, op, plan, next, k + 1)
<1> DEFINE seq == x.collateralPreferences
           h == seq[k + 1]
           account == Along(x, plan)
           t == Before(state, op)
           a == account[t]
           o == state.owed
           d == a.owed
<1>0. \A i \in 1..Len(plan) : account[i] = AfterTrade(x, account[i - 1], plan[i])
  BY AlongFacts
<1>1. /\ Len(seq) \in Nat
      /\ \A j \in 1..Len(seq) : /\ seq[j] \in Nat /\ seq[j] \in ToSet(seq)
                                /\ seq[j] \in DOMAIN x.weis /\ x.weis[seq[j]] \in Int
      /\ \A i, j \in 1..Len(seq) : seq[i] = seq[j] => i = j
  BY PreferenceFacts
<1>2. k + 1 \in 1..Len(seq) /\ h \in Nat /\ h \in ToSet(seq) /\ h \in DOMAIN x.weis
      /\ x.weis[h] \in Int
  BY <1>1
<1>3. /\ Kept(state.op, op)
      /\ Tracks(x, o, d, t) /\ a = [owed |-> d, held |-> a.held]
      /\ DOMAIN a.held = DOMAIN x.weis
      /\ \A j \in (k + 1)..Len(seq) : a.held[seq[j]] = x.weis[seq[j]]
      /\ o.num = 0 \/ \A j \in 1..k : a.held[seq[j]] <= 0
      /\ \A i \in 1..t : TradeTaken(x, account[i - 1], plan[i])
  BY DEF OnItsWay
<1>4. t \in Nat /\ Len(state.op.actions) = Len(op.actions) + t /\ ~state.op.committed
      /\ Len(op.actions) \in Nat
  BY <1>3, FineFacts DEF Kept, Keeps, Before
<1>5. CASE o.num = 0 \/ x.weis[h] <= 0
  <2>1. next = state
    BY <1>5 DEF TradeHeld
  <2>2. \A j \in (k + 2)..Len(seq) : a.held[seq[j]] = x.weis[seq[j]]
    BY <1>3
  <2>3. a.held[h] = x.weis[h]
    BY <1>2, <1>3
  <2>4. o.num = 0 \/ \A j \in 1..(k + 1) : a.held[seq[j]] <= 0
    BY <1>3, <1>5, <2>3
  <2> HIDE DEF account, a
  <2> QED
    BY <1>3, <2>1, <2>2, <2>4 DEF OnItsWay, account, a, d
<1>6. CASE o.num # 0 /\ ~(x.weis[h] <= 0)
  <2> DEFINE bound == DebtBound(x, h, o)
             action == next.op.actions[Len(op.actions) + (t + 1)]
             b == account[t + 1]
  <2>1. /\ next.owed = OwedAfter(x, h, o)
        /\ next.op = IF bound THEN ExpiredTrade(state.op, x, x.expiredMarket, h)
                     ELSE ExpiredTrade(state.op, x, h, x.expiredMarket)
    BY <1>6 DEF TradeHeld
  <2>2. /\ Kept(next.op, state.op) /\ Len(next.op.actions) = Len(state.op.actions) + 1
        /\ bound => action.primaryMarketId = x.expiredMarket /\ action.secondaryMarketId = h
        /\ ~bound => action.primaryMarketId = h
    <3>1. /\ Fine(state.op) /\ x.primary \in NamedAccount /\ x.expiredAccount \in NamedAccount
          /\ x.expiredMarket \in Nat
      BY <1>3, PreferenceFacts DEF Kept
    <3> DEFINE to == IF bound THEN x.expiredMarket ELSE h
               with == IF bound THEN h ELSE x.expiredMarket
               made == ExpiredTrade(state.op, x, to, with)
               last == made.actions[Len(state.op.actions) + 1]
    <3>2. to \in Nat /\ with \in Nat
      BY <1>2, <3>1
    <3> HIDE DEF to, with
    <3>3. /\ Kept(made, state.op) /\ Len(made.actions) = Len(state.op.actions) + 1
          /\ last.primaryMarketId = to /\ last.secondaryMarketId = with
      <4> DEFINE was == state.op
      <4>1. Fine(was) /\ ~was.committed
        BY <1>4, <3>1
      <4> HIDE DEF was
      <4>2. TradeAdded(ExpiredTrade(was, x, to, with), was, to, with)
        BY <3>1, <3>2, <4>1, ExpiredTradeFacts
      <4> QED
        BY <4>1, <4>2 DEF TradeAdded, was
    <3>4. next.op = made
      BY <2>1 DEF to, with
    <3>5. Len(state.op.actions) + 1 = Len(op.actions) + (t + 1)
      <4> DEFINE l == Len(op.actions)   l2 == Len(state.op.actions)
      <4>1. l2 = l + t /\ l \in Nat /\ t \in Nat
        BY <1>4
      <4> HIDE DEF l, l2, t
      <4>2. l2 + 1 = l + (t + 1)
        BY <4>1
      <4> QED
        BY <4>2 DEF l, l2
    <3> HIDE DEF made, t
    <3>6. action = last
      BY <3>4, <3>5
    <3> HIDE DEF action, last
    <3> QED
      BY <3>3, <3>4, <3>6 DEF to, with
  <2>3. Kept(next.op, op) /\ Before(next, op) = t + 1
    <3>1. Fine(next.op) /\ Fine(state.op) /\ Keeps(next.op, state.op) /\ Keeps(state.op, op)
      BY <1>3, <2>2 DEF Kept
    <3>2. Keeps(next.op, op)
      BY <3>1, KeepsOn
    <3> QED
      BY <1>4, <2>2, <3>1, <3>2 DEF Kept, Before
  <2>4. /\ t + 1 <= Len(plan) /\ plan[t + 1] = action
    <3>1. t + 1 \in 1..Before(next, op)
      BY <1>4, <2>3
    <3> HIDE DEF t
    <3> QED
      BY <2>3, <3>1 DEF Adds
  <2>5. b = AfterTrade(x, a, plan[t + 1])
    <3>2. t + 1 \in 1..Len(plan) /\ (t + 1) - 1 = t
      BY <1>4, <2>4
    <3> HIDE DEF account, t
    <3> QED
      BY <1>0, <3>2
  <2>6. a.held[h] = x.weis[h]
    <3> HIDE DEF a
    <3> QED
      BY <1>2, <1>3
  <2>7. Collateral(x, action) = h /\ (Repays(x, action) <=> bound)
    <3>1. x.weis[h] > 0
      <4> HIDE DEF h
      <4> QED
        BY <1>2, <1>6
    <3>2. h # x.expiredMarket
      <4> HIDE DEF h
      <4> QED
        BY <1>2, <3>1, TheDebtIsOne
    <3> HIDE DEF h, bound, action
    <3> QED
      BY <2>2, <3>2 DEF Collateral, Repays
  <2> DEFINE rest == OwedAfter(x, h, o)
             worth == HeldToOwed(x, h, x.weis[h])
  <2>8. worth + (t + 1) * Drift(x) < d \/ d + (t + 1) * Drift(x) < worth
    <3>1. Collateral(x, action) = h
      BY <2>2, <2>7
    <3>2. t + 1 \in DOMAIN plan /\ (t + 1) - 1 = t /\ plan[t + 1] = action
      BY <1>4, <2>4
    <3> DEFINE owed == account[(t + 1) - 1].owed
    <3>3. worth + (t + 1) * Drift(x) < owed \/ owed + (t + 1) * Drift(x) < worth
      <4> HIDE DEF h, t, action
      <4> QED
        BY <3>1, <3>2 DEF Clear
    <3>4. owed = d
      <4> HIDE DEF t, account
      <4> QED
        BY <3>2
    <3> HIDE DEF owed, d, worth, t
    <3> QED
      BY <3>3, <3>4
  <2>9. PICK p, w : /\ TradeTaken(x, a, action) /\ (bound => rest.num = 0)
                    /\ b = [owed |-> w, held |-> [a.held EXCEPT ![h] = p]]
                    /\ Tracks(x, rest, w, t + 1) /\ (~bound => p = 0)
    <3> DEFINE f == a.held
               c == [owed |-> d, held |-> f]
    <3>1. x.weis[h] > 0 /\ f[h] = x.weis[h] /\ a = c
      BY <1>2, <1>3, <1>6, <2>6
    <3>2. b = AfterTrade(x, c, action)
      BY <2>4, <2>5, <3>1
    <3>3. Collateral(x, action) = h /\ (Repays(x, action) <=> bound)
      BY <2>7
    <3>4. /\ h \in ToSet(seq) /\ Tracks(x, o, d, t) /\ o.num # 0 /\ t \in Nat
          /\ worth + (t + 1) * Drift(x) < d \/ d + (t + 1) * Drift(x) < worth
      BY <1>2, <1>3, <1>4, <1>6, <2>8
    <3> HIDE DEF a, h, b, action, o, f, d, t
    <3>5. TradeGoes(x, h, o, d, t, f, action)
      BY <3>1, <3>3, <3>4, TradeAgreed
    <3> QED
      BY <3>1, <3>2, <3>5 DEF f, TradeGoes
  <2> DEFINE sold == [a.held EXCEPT ![h] = p]
  <2> HIDE DEF rest, action
  <2>10. /\ DOMAIN sold = DOMAIN x.weis
         /\ \A j \in 1..Len(seq) : sold[seq[j]] = IF j = k + 1 THEN p ELSE a.held[seq[j]]
    <3> DEFINE f == a.held
    <3>1. DOMAIN f = DOMAIN x.weis /\ h \in DOMAIN x.weis
      BY <1>2, <1>3
    <3>2. \A j \in 1..Len(seq) : seq[j] \in DOMAIN x.weis /\ (seq[j] = h <=> j = k + 1)
      BY <1>1, <1>2
    <3> HIDE DEF f, h
    <3> QED
      BY <3>1, <3>2 DEF f
  <2> HIDE DEF sold
  <2>11. \A j \in (k + 1 + 1)..Len(seq) : sold[seq[j]] = x.weis[seq[j]]
    BY <1>3, <2>10
  <2>12. rest.num = 0 \/ \A j \in 1..(k + 1) : sold[seq[j]] <= 0
    <3>1. bound => rest.num = 0
      BY <2>9
    <3>2. ASSUME ~bound, NEW j \in 1..(k + 1) PROVE sold[seq[j]] <= 0
      <4>1. j \in 1..Len(seq) /\ (j = k + 1 \/ j \in 1..k)
        BY <1>1, <1>2
      <4>2. j \in 1..k => a.held[seq[j]] <= 0
        BY <1>3, <1>6
      <4>3. p = 0
        BY <2>9, <3>2
      <4> HIDE DEF a, seq, bound
      <4>4. CASE j = k + 1
        BY <2>10, <4>1, <4>3, <4>4
      <4>5. CASE j \in 1..k /\ j # k + 1
        BY <2>10, <4>1, <4>2, <4>5
      <4> QED
        BY <4>1, <4>4, <4>5
    <3> QED
      BY <3>1, <3>2
  <2>13. \A i \in 1..(t + 1) : TradeTaken(x, account[i - 1], plan[i])
    <3> SUFFICES ASSUME NEW i \in 1..(t + 1) PROVE TradeTaken(x, account[i - 1], plan[i])
      OBVIOUS
    <3>1. CASE i \in 1..t
      BY <1>3, <3>1
    <3>2. CASE i = t + 1
      BY <1>4, <2>4, <2>9, <3>2
    <3> QED
      BY <1>4, <3>1, <3>2
  <2> DEFINE c == account[Before(next, op)]
  <2>14. c = b /\ next.owed = rest
    BY <2>1, <2>3 DEF rest
  <2> HIDE DEF b
  <2>15. /\ c = [owed |-> w, held |-> sold]
         /\ Tracks(x, next.owed, w, Before(next, op))
    BY <2>3, <2>9, <2>14 DEF sold
  <2> HIDE DEF c
  <2>16. /\ c = [owed |-> c.owed, held |-> c.held] /\ DOMAIN c.held = DOMAIN x.weis
         /\ Tracks(x, next.owed, c.owed, Before(next, op)) /\ c.held = sold
    BY <2>10, <2>15
  <2>17. /\ \A j \in (k + 1 + 1)..Len(seq) : c.held[seq[j]] = x.weis[seq[j]]
         /\ next.owed.num = 0 \/ \A j \in 1..(k + 1) : c.held[seq[j]] <= 0
         /\ \A i \in 1..Before(next, op) : TradeTaken(x, account[i - 1], plan[i])
    BY <2>3, <2>11, <2>12, <2>13, <2>14, <2>16
  <2> HIDE DEF seq, account
  <2> QED
    BY <2>3, <2>16, <2>17 DEF OnItsWay, c, seq, account
<1> QED
  BY <1>5, <1>6

(* The loop: each state on its way began with the operation and has the    *)
(* trades that the plan begins with.                                       *)
LEMMA PlanFacts ==
  ASSUME NEW x \in Plans, Late(x), NEW op, Fine(op)
  PROVE  LET seq == x.collateralPreferences
         IN  \E p : /\ Turns("liquidate", x, [op |-> op, owed |-> Frac(1, 1)], seq, Len(seq), p)
                    /\ p[Len(seq)].op = Build(op, x)
<1> DEFINE seq == x.collateralPreferences
           base == [op |-> op, owed |-> Frac(1, 1)]
<1>1. /\ x.method = "fullyLiquidateExpiredAccount" /\ ~(x.weis[x.expiredMarket] >= 0)
      /\ ~(x.blockTimestamp < x.expiryTimestamp)
  <2>1. /\ x.weis[x.expiredMarket] \in Int /\ x.weis[x.expiredMarket] < 0
        /\ x.blockTimestamp \in Nat /\ x.expiryTimestamp \in Nat /\ ExpiryRampTime \in Nat
        /\ x.method = "fullyLiquidateExpiredAccount"
    BY PlansAssumption DEF IsPlan
  <2> QED
    BY <2>1 DEF Late
<1>2. Build(op, x) = HeldAll(x, base, seq).op
  BY <1>1 DEF Build, fullyLiquidateExpiredAccount, HeldAll
<1>3. Len(seq) \in Nat /\ DOMAIN seq = 1..Len(seq)
  BY PreferenceFacts
<1> HIDE DEF base, seq
<1>4. PICK p : /\ Turns("liquidate", x, base, seq, Len(seq), p)
               /\ p[Len(seq)] = HeldAll(x, base, seq)
  BY <1>3, HeldFold
<1> QED
  BY <1>2, <1>4 DEF base, seq

LEMMA TradeHeldKept ==
  ASSUME NEW x \in Plans, NEW state, Fine(state.op), NEW h \in Nat
  PROVE  Kept(TradeHeld(x, state, h).op, state.op)
<1>1. /\ x.primary \in NamedAccount /\ x.expiredAccount \in NamedAccount
      /\ x.expiredMarket \in Nat
  BY PreferenceFacts
<1>2. \/ TradeHeld(x, state, h) = state
      \/ TradeHeld(x, state, h).op = ExpiredTrade(state.op, x, x.expiredMarket, h)
      \/ TradeHeld(x, state, h).op = ExpiredTrade(state.op, x, h, x.expiredMarket)
  BY DEF TradeHeld
<1>3. \A m, k \in Nat : Kept(ExpiredTrade(state.op, x, m, k), state.op)
  BY <1>1, ExpiredTradeFacts DEF TradeAdded
<1> QED
  BY <1>1, <1>2, <1>3, KeepsItself DEF Kept

(* What has been added stays until the end.                                *)
LEMMA TurnsKept ==
  ASSUME NEW x \in Plans, NEW op, Fine(op), NEW p,
         LET seq == x.collateralPreferences
         IN  Turns("liquidate", x, [op |-> op, owed |-> Frac(1, 1)], seq, Len(seq), p)
  PROVE  \A k \in 0..Len(x.collateralPreferences) :
           Kept(p[k].op, op) /\ Kept(p[Len(x.collateralPreferences)].op, p[k].op)
<1> DEFINE seq == x.collateralPreferences
           n == Len(seq)
           G == {k \in 0..n : \A j \in 0..k : Fine(p[j].op) /\ Kept(p[k].op, p[j].op)}
<1>1. n \in Nat /\ \A k \in 1..n : seq[k] \in Nat
  BY PreferenceFacts
<1>2. p[0].op = op /\ \A k \in 1..n : p[k] = TradeHeld(x, p[k - 1], seq[k])
  BY TurnFacts DEF Turns
<1> HIDE DEF seq, n
<1>3. 0 \in G
  BY <1>1, <1>2, KeepsItself DEF Kept
<1>4. ASSUME NEW k \in 1..n, k - 1 \in G PROVE k \in G
  <2>1. \A j \in 0..(k - 1) : Fine(p[j].op) /\ Kept(p[k - 1].op, p[j].op)
    BY <1>4
  <2>2. Fine(p[k - 1].op)
    BY <1>1, <2>1 DEF Kept
  <2>3. Kept(p[k].op, p[k - 1].op)
    BY <1>1, <1>2, <2>2, TradeHeldKept
  <2>4. ASSUME NEW j \in 0..(k - 1) PROVE Kept(p[k].op, p[j].op)
    <3>1. Fine(p[j].op) /\ Kept(p[k - 1].op, p[j].op)
      BY <2>1
    <3> QED
      BY <2>3, <3>1, KeepsOn DEF Kept
  <2>5. Fine(p[k].op) /\ Kept(p[k].op, p[k].op)
    BY <2>3, KeepsItself DEF Kept
  <2>6. \A j \in 0..k : Fine(p[j].op) /\ Kept(p[k].op, p[j].op)
    <3>1. \A j \in 0..k : j \in 0..(k - 1) \/ j = k
      BY <1>1
    <3> QED
      BY <2>1, <2>4, <2>5, <3>1
  <2> QED
    BY <1>1, <2>6
<1>5. G = 0..n
  <2>1. G \in SUBSET (0..n)
    OBVIOUS
  <2> HIDE DEF G
  <2> QED
    BY <1>1, <1>3, <1>4, <2>1, AllReached
<1>6. ASSUME NEW k \in 0..n PROVE Kept(p[k].op, op) /\ Kept(p[n].op, p[k].op)
  <2>1. k \in G /\ n \in G /\ 0 \in 0..k /\ k \in 0..n
    BY <1>1, <1>5
  <2> QED
    BY <1>2, <2>1
<1> QED
  BY <1>6 DEF n, seq

LEMMA AddedFacts ==
  ASSUME NEW x, NEW op, Fine(op), Fine(Build(op, x)), Keeps(Build(op, x), op)
  PROVE  LET end  == Build(op, x).actions
             n    == Len(op.actions)
             plan == SubSeq(end, n + 1, Len(end))
         IN  /\ Len(plan) = Len(end) - n /\ Len(plan) \in Nat
             /\ DOMAIN plan = 1..Len(plan)
             /\ \A i \in 1..Len(plan) : plan[i] = end[n + i]
<1> DEFINE end == Build(op, x).actions
           n == Len(op.actions)
           plan == SubSeq(end, n + 1, Len(end))
           S == ToSet(end)
<1>1. end \in Seq(S) /\ n \in Nat /\ n <= Len(end)
  BY FineFacts DEF Keeps, IsSeq
<1> HIDE DEF end, n, S
<1>2. Len(end) \in Nat /\ DOMAIN end = 1..Len(end)
  BY <1>1
<1>3. plan = [i \in 1..(Len(end) - n) |-> end[n + i]]
  BY <1>1, <1>2
<1>4. Len(plan) = Len(end) - n /\ \A i \in 1..(Len(end) - n) : plan[i] = end[n + i]
  <2> DEFINE q == [i \in 1..(Len(end) - n) |-> end[n + i]]
  <2>1. q = [i \in 1..(Len(end) - n) |-> q[i]] /\ \A i \in 1..(Len(end) - n) : q[i] = end[n + i]
    OBVIOUS
  <2>2. Len(end) - n \in Nat /\ plan = q
    BY <1>1, <1>2, <1>3
  <2> HIDE DEF q, plan
  <2>3. Len(q) = Len(end) - n
    BY <2>1, <2>2, SeqMade
  <2> QED
    BY <2>1, <2>2, <2>3
<1>5. DOMAIN plan = 1..(Len(end) - n) /\ Len(end) - n \in Nat
  BY <1>1, <1>2, <1>3
<1> HIDE DEF plan
<1>6. /\ Len(plan) = Len(end) - n /\ Len(plan) \in Nat /\ DOMAIN plan = 1..Len(plan)
      /\ \A i \in 1..Len(plan) : plan[i] = end[n + i]
  BY <1>4, <1>5
<1> QED
  BY <1>6 DEF plan, end, n

LEMMA LatePlanWorks ==
  ASSUME NEW x \in Plans, Late(x), NEW op, Fine(op), ~op.committed
  PROVE  LET end  == Build(op, x).actions
             plan == SubSeq(end, Len(op.actions) + 1, Len(end))
         IN  Clear(x, plan) => Works(x, plan)
<1> DEFINE seq == x.collateralPreferences
           base == [op |-> op, owed |-> Frac(1, 1)]
           n == Len(seq)
           end == Build(op, x).actions
           plan == SubSeq(end, Len(op.actions) + 1, Len(end))
           account == Along(x, plan)
<1>1. /\ n \in Nat
      /\ \A j \in 1..n : seq[j] \in DOMAIN x.weis
      /\ \A m \in ToSet(seq) : \E j \in 1..n : seq[j] = m
  BY PreferenceFacts DEF ToSet
<1>2. PICK p : Turns("liquidate", x, base, seq, n, p) /\ p[n].op = Build(op, x)
  BY PlanFacts
<1>3. p[0] = base /\ \A k \in 1..n : p[k] = TradeHeld(x, p[k - 1], seq[k])
  BY <1>2, TurnFacts DEF Turns
<1>4. \A k \in 0..n : Kept(p[k].op, op) /\ Kept(Build(op, x), p[k].op)
  BY <1>2, TurnsKept
<1>5. Fine(Build(op, x)) /\ Keeps(Build(op, x), op)
  <2>1. n \in 0..n
    BY <1>1
  <2> QED
    BY <1>2, <1>4, <2>1 DEF Kept
<1>6. /\ Len(plan) = Len(end) - Len(op.actions) /\ Len(plan) \in Nat
      /\ DOMAIN plan = 1..Len(plan)
      /\ \A i \in 1..Len(plan) : plan[i] = end[Len(op.actions) + i]
  BY <1>5, AddedFacts
<1> SUFFICES ASSUME Clear(x, plan) PROVE Works(x, plan)
  OBVIOUS
<1> HIDE DEF plan
<1>7. ASSUME NEW k \in 0..n PROVE Adds(p[k], op, plan)
  <2>1. /\ Fine(op) /\ Fine(p[k].op) /\ Keeps(p[k].op, op) /\ Keeps(Build(op, x), p[k].op)
    BY <1>4 DEF Kept
  <2> DEFINE l == Len(op.actions)   acts == p[k].op.actions   m == Len(acts)
  <2>2. /\ l \in Nat /\ m \in Nat /\ DOMAIN acts = 1..m /\ l <= m /\ Len(end) \in Nat
    BY <1>5, <2>1, FineFacts DEF Keeps
  <2>3. m <= Len(end) /\ \A i \in DOMAIN acts : end[i] = acts[i]
    BY <2>1 DEF Keeps
  <2> HIDE DEF acts, l, end
  <2>4. m - l <= Len(plan)
    BY <1>6, <2>2, <2>3 DEF l
  <2>5. ASSUME NEW i \in 1..(m - l) PROVE plan[i] = acts[l + i]
    <3>1. i \in 1..Len(plan) /\ l + i \in 1..m
      <4>1. Len(plan) = Len(end) - l
        BY <1>6 DEF l
      <4> QED
        BY <2>2, <2>3, <4>1
    <3> QED
      BY <1>6, <2>2, <2>3, <3>1 DEF l
  <2> QED
    BY <2>4, <2>5 DEF Adds, Before, acts, l
<1> DEFINE G == {k \in 0..n : OnItsWay(x, op, plan, p[k], k)}
<1>8. 0 \in G
  <2>1. account[0] = [owed |-> Debt(x), held |-> x.weis]
    BY <1>6, AlongFacts DEF Debt
  <2>2. Before(base, op) = 0
    BY FineFacts DEF Before
  <2>3. Kept(base.op, op) /\ base.owed = Frac(1, 1) /\ Frac(1, 1).num = 1 /\ Frac(1, 1).den = 1
    BY KeepsItself DEF Kept, Frac
  <2>4. Tracks(x, base.owed, Debt(x), 0)
    BY TracksAtFirst
  <2> HIDE DEF base, account
  <2>5. OnItsWay(x, op, plan, base, 0)
    BY <2>1, <2>2, <2>3, <2>4 DEF OnItsWay, account
  <2> QED
    BY <1>1, <1>3, <2>5
<1>9. ASSUME NEW k \in 1..n, k - 1 \in G PROVE k \in G
  <2> DEFINE j == k - 1
  <2>1. j \in Nat /\ j < n /\ j + 1 = k /\ k \in 0..n
    BY <1>1
  <2>2. /\ OnItsWay(x, op, plan, p[j], j) /\ Adds(p[k], op, plan)
        /\ p[k] = TradeHeld(x, p[j], seq[k])
    BY <1>3, <1>7, <1>9, <2>1
  <2> HIDE DEF j
  <2>3. OnItsWay(x, op, plan, p[k], j + 1)
    BY <1>6, <2>1, <2>2, TurnOnItsWay
  <2> QED
    BY <2>1, <2>3
<1>10. OnItsWay(x, op, plan, p[n], n)
  <2>1. G \in SUBSET (0..n)
    OBVIOUS
  <2>2. G = 0..n
    <3> HIDE DEF G
    <3> QED
      BY <1>1, <1>8, <1>9, <2>1, AllReached
  <2> QED
    BY <1>1, <2>2
<1>11. Before(p[n], op) = Len(plan)
  BY <1>2, <1>6 DEF Before
<1>12. /\ \A i \in 1..Len(plan) : TradeTaken(x, account[i - 1], plan[i])
       /\ account[Len(plan)].owed = 0
          \/ \A j \in 1..n : account[Len(plan)].held[seq[j]] <= 0
  <2> DEFINE a == account[Len(plan)]
  <2>1. /\ Tracks(x, p[n].owed, a.owed, Len(plan))
        /\ p[n].owed.num = 0 \/ \A j \in 1..n : a.held[seq[j]] <= 0
        /\ \A i \in 1..Len(plan) : TradeTaken(x, account[i - 1], plan[i])
    BY <1>10, <1>11 DEF OnItsWay
  <2>2. p[n].owed.num = 0 => a.owed = 0
    <3> HIDE DEF a
    <3> QED
      BY <2>1 DEF Tracks
  <2> QED
    BY <2>1, <2>2
<1> QED
  <2> HIDE DEF account
  <2>1. \/ account[Len(plan)].owed = 0
        \/ \A m \in ToSet(seq) : account[Len(plan)].held[m] <= 0
    BY <1>1, <1>12
  <2> QED
    BY <1>6, <1>12, <2>1 DEF Works, account

(* A plan to liquidate an account whose expiry is past the time over which *)
(* the spread grows works, with every rounding of Expiry and of the books, *)
(* unless a trade of it is a near tie (Clear), whatever the account owes   *)
(* and holds, however many collaterals are named, and whatever the         *)
(* operation holds before it.                                              *)
THEOREM LatePlansAlwaysWork == Spec => []LatePlansWork
<1>1. Sound => LatePlansWork
  <2> SUFFICES ASSUME Sound, NEW o \in Operations, Unused(o), NEW x \in Plans, Late(x),
                      Clear(x, Added(o, x))
               PROVE  Works(x, Added(o, x))
    BY DEF LatePlansWork, Late
  <2>1. Fine(ops[o]) /\ ~ops[o].committed
    BY DEF Sound, OperationsSound, Fine, Unused
  <2> QED
    BY <2>1, LatePlanWorks DEF Added
<1> QED
  BY <1>1, CallsSound, PTL
=============================================================================
