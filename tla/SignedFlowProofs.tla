-------------------------- MODULE SignedFlowProofs --------------------------
(***************************************************************************)
(* Proofs about signed operations: that Sound is an invariant, and with it *)
(* the properties of SignedFlow, for any owners, wallets, offers and       *)
(* networks, and batches of any length.                                    *)
(***************************************************************************)
EXTENDS SignedFlowInvariant, BuilderProofs

-----------------------------------------------------------------------------
(* The offers.                                                             *)
LEMMA DraftFacts ==
  ASSUME NEW offer \in Offers
  PROVE  Fine(Drafted(offer.draft))
<1> DEFINE seq == offer.draft
           base == Initiate(ProxyType.None, ZERO)
           n == Len(seq)
<1>1. n \in Nat /\ DOMAIN seq = 1..n /\ \A k \in 1..n : IsItem(seq[k])
  <2>1. seq \in Seq({x \in ToSet(seq) : IsItem(x)})
    BY FlowAssumption
  <2> HIDE DEF seq
  <2> QED
    BY <2>1
<1>2. Fine(base)
  BY InitiateFacts
<1>3. Drafted(seq) = BuildAll(base, seq)
  BY DEF Drafted, BuildAll
<1> HIDE DEF seq, base, n
<1>4. PICK p : Turns("build", 0, base, seq, n, p) /\ p[n] = BuildAll(base, seq)
  BY <1>1, BuildFold
<1>5. p[0] = base /\ \A k \in 1..n : p[k] = Build(p[k - 1], seq[k])
  BY <1>4, TurnFacts DEF Turns
<1> DEFINE G == {k \in 0..n : Fine(p[k])}
<1>6. G = 0..n
  <2>1. G \in SUBSET (0..n) /\ 0 \in G
    BY <1>1, <1>2, <1>5
  <2>2. \A k \in 1..n : k - 1 \in G => k \in G
    BY <1>1, <1>5, BuildFacts DEF Kept
  <2> HIDE DEF G
  <2> QED
    BY <1>1, <2>1, <2>2, AllReached
<1> QED
  BY <1>1, <1>3, <1>4, <1>6 DEF seq

-----------------------------------------------------------------------------
(* What is signed, added to a batch.                                       *)

(* The amount of a signed action, turned into a value with a sign and      *)
(* back, is what it was.                                                   *)
LEMMA SameAmount ==
  ASSUME NEW a, a.amount \in AssetAmount
  PROVE  AmountArgs(AmountOfAction(a)) = a.amount
<1> DEFINE x == a.amount
           v == Int_(x.value)
           w == IF x.sign THEN v ELSE Negated(v)
<1>1. x = [sign |-> x.sign, denomination |-> x.denomination, ref |-> x.ref, value |-> x.value]
  BY DEF AssetAmount
<1>2. x.value \in Nat /\ x.sign \in BOOLEAN
  BY DEF AssetAmount
<1>3. v.neg = FALSE /\ v.abs = x.value
  <2>1. (x.value < 0) = FALSE
    BY <1>2
  <2>2. (IF x.value < 0 THEN -x.value ELSE x.value) = x.value
    BY <1>2
  <2>3. v = [neg |-> FALSE, abs |-> x.value]
    <3> HIDE DEF x
    <3> QED
      BY <2>1, <2>2, Zenon DEF Int_
  <2> HIDE DEF v
  <2> QED
    BY <2>3
<1>4. w.abs = x.value /\ w.neg = ~x.sign
  BY <1>2, <1>3 DEF Negated
<1>5. AmountOfAction(a) = [value |-> w, denomination |-> x.denomination, reference |-> x.ref]
  BY DEF AmountOfAction
<1> HIDE DEF w
<1>6. AmountArgs(AmountOfAction(a)) =
        [sign |-> ~w.neg, denomination |-> x.denomination, ref |-> x.ref, value |-> w.abs]
  BY <1>5 DEF AmountArgs
<1> HIDE DEF x
<1>7. (~w.neg) = x.sign
  BY <1>2, <1>4
<1>8. [sign |-> ~w.neg, denomination |-> x.denomination, ref |-> x.ref, value |-> w.abs] = x
  <2>1. \A p, t : p = x.sign /\ t = x.value =>
          [sign |-> p, denomination |-> x.denomination, ref |-> x.ref, value |-> t] = x
    BY <1>1
  <2> DEFINE positive == ~w.neg
  <2>2. positive = x.sign
    BY <1>7
  <2> HIDE DEF positive
  <2>3. [sign |-> positive, denomination |-> x.denomination, ref |-> x.ref,
         value |-> w.abs] = x
    BY <1>4, <2>1, <2>2
  <2> QED
    BY <2>3 DEF positive
<1> QED
  BY <1>6, <1>8 DEF x

LEMMA AddActionFacts ==
  ASSUME NEW op, Fine(op), ~op.committed, NEW a, Signable(a)
  PROVE  LET o == AddAction(op, a)
         IN  /\ Kept(o, op) /\ Len(o.actions) = Len(op.actions) + 1
             /\ Resolved(o, o.actions[Len(op.actions) + 1]) = getActionHash(a)
<1> DEFINE none == a.secondaryAccount.owner = ZERO
           m == IF none THEN op ELSE WithAccount(op, a.secondaryAccount)
           k == IF none THEN 0 ELSE AccountId(m, a.secondaryAccount)
           amount == AmountArgs(AmountOfAction(a))
           args == [amount |-> amount, data |-> a.data, otherAddress |-> a.otherAddress,
                    otherAccountId |-> k, primaryMarketId |-> a.primaryMarketId,
                    secondaryMarketId |-> a.secondaryMarketId]
           o == AddActionArgs(m, a.primaryAccount, a.actionType, args)
           n == Len(op.actions)
<1>1. /\ a.actionType \in ActionTypes /\ a.amount \in AssetAmount
      /\ a.otherAddress \in Addresses
      /\ a.primaryMarketId \in Nat /\ a.secondaryMarketId \in Nat
      /\ a.primaryAccount \in NamedAccount
  BY DEF Signable, IsAction
<1>2. /\ none = ~HasOther(a.actionType)
      /\ none => a.secondaryAccount = NullAccount
      /\ ~none => a.secondaryAccount \in NamedAccount
  BY DEF Signable, NamedAccount, NullAccount
<1>3. AddAction(op, a) = o
  BY DEF AddAction
<1>4. amount = a.amount
  BY <1>1, SameAmount
<1> HIDE DEF amount, none
<1>5. /\ Fine(m) /\ Keeps(m, op) /\ m.actions = op.actions
      /\ ~none => /\ k \in 0..(Len(m.accounts) - 1)
                  /\ m.accounts[k + 1] = a.secondaryAccount
      /\ none => k = 0
  <2>1. CASE none
    BY <2>1, KeepsItself
  <2>2. CASE ~none
    <3>1. m = WithAccount(op, a.secondaryAccount) /\ k = AccountId(m, a.secondaryAccount)
      BY <2>2
    <3> HIDE DEF m, k
    <3> QED
      BY <1>2, <2>2, <3>1, WithAccountFacts
  <2> QED
    BY <2>1, <2>2
<1> HIDE DEF m, k
<1>6. LET f == Given(args)
      IN  /\ f.amount = a.amount /\ f.otherAddress = a.otherAddress /\ f.data = a.data
          /\ f.primaryMarketId = a.primaryMarketId
          /\ f.secondaryMarketId = a.secondaryMarketId /\ f.otherAccountId = k
  BY <1>4, GivenFields
<1> HIDE DEF args
<1>7. Fitting(args, Len(m.accounts))
  BY <1>1, <1>5, <1>6 DEF Fitting
<1>8. AddedTo(o, m, a.primaryAccount, a.actionType, args)
  BY <1>1, <1>5, <1>7, AddArgsFacts
<1> HIDE DEF o
<1>9. Keeps(o, op)
  BY <1>5, <1>8, KeepsOn DEF AddedTo
<1>10. ~m.committed
  BY <1>5 DEF Keeps
<1>11. PICK id \in 0..(Len(o.accounts) - 1) :
         /\ o.actions[n + 1] = TheAction(a.actionType, id, args)
         /\ o.accounts[id + 1] = a.primaryAccount
  BY <1>5, <1>8, <1>10 DEF AddedTo
<1> DEFINE b == TheAction(a.actionType, id, args)
<1>12. /\ b.actionType = a.actionType /\ b.accountId = id /\ b.otherAccountId = k
       /\ b.primaryMarketId = a.primaryMarketId
       /\ b.secondaryMarketId = a.secondaryMarketId
       /\ b.otherAddress = a.otherAddress /\ b.data = a.data /\ b.amount = a.amount
  BY <1>6, ActionFields
<1> HIDE DEF b
<1>13. ~none => o.accounts[k + 1] = a.secondaryAccount
  <2>1. SUFFICES ASSUME ~none PROVE o.accounts[k + 1] = a.secondaryAccount
    OBVIOUS
  <2>2. k \in 0..(Len(m.accounts) - 1) /\ m.accounts[k + 1] = a.secondaryAccount
    BY <1>5, <2>1
  <2>3. DOMAIN m.accounts = 1..Len(m.accounts) /\ Len(m.accounts) \in Nat
    BY <1>5, FineFacts
  <2>4. k + 1 \in DOMAIN m.accounts
    BY <2>2, <2>3
  <2> QED
    BY <1>8, <2>2, <2>4 DEF Keeps, AddedTo
<1>14. OnePrimary(a.actionType) = none
  BY <1>2 DEF OnePrimary, HasOther
<1>15. Resolved(o, b) = getActionHash(a)
  <2>1. o.accounts[b.accountId + 1] = a.primaryAccount
    BY <1>11, <1>12
  <2>2. (IF OnePrimary(b.actionType) THEN NullAccount ELSE o.accounts[b.otherAccountId + 1])
          = a.secondaryAccount
    BY <1>2, <1>12, <1>13, <1>14
  <2> QED
    BY <1>12, <2>1, <2>2 DEF Resolved, ProxyActionHash, getActionHash, getAssetAmountHash
<1>16. Len(o.actions) = n + 1
  BY <1>5, <1>8, <1>10 DEF AddedTo
<1> QED
  BY <1>3, <1>8, <1>9, <1>11, <1>15, <1>16 DEF Kept, AddedTo, b

(* What the builder keeps, it keeps resolved.                              *)
LEMMA SameResolved ==
  ASSUME NEW op, NEW o, Kept(o, op), Fine(op), NEW i \in DOMAIN op.actions
  PROVE  Resolved(o, o.actions[i]) = Resolved(op, op.actions[i])
<1> DEFINE b == op.actions[i]
           n == Len(op.accounts)
<1>1. o.actions[i] = b
  BY DEF Kept, Keeps
<1>2. b.accountId \in 0..(n - 1) /\ b.otherAccountId \in 0..(n - 1)
  BY DEF Fine, Built, IsBatch
<1>3. n \in Nat /\ DOMAIN op.accounts = 1..n
  BY FineFacts
<1> HIDE DEF b, n
<1>4. b.accountId + 1 \in DOMAIN op.accounts /\ b.otherAccountId + 1 \in DOMAIN op.accounts
  BY <1>2, <1>3
<1>5. /\ o.accounts[b.accountId + 1] = op.accounts[b.accountId + 1]
      /\ o.accounts[b.otherAccountId + 1] = op.accounts[b.otherAccountId + 1]
  BY <1>4 DEF Kept, Keeps
<1> QED
  BY <1>1, <1>5 DEF Resolved, b

AllAdded(o, start, actions, m) ==
  /\ Kept(o, start)
  /\ Len(o.actions) = m + Len(actions)
  /\ \A j \in DOMAIN actions : Resolved(o, o.actions[m + j]) = getActionHash(actions[j])

LEMMA AddAllFacts ==
  ASSUME NEW start, Fine(start), ~start.committed, NEW actions, IsSeq(actions),
         \A i \in DOMAIN actions : Signable(actions[i])
  PROVE  AllAdded(AddAll(start, actions), start, actions, Len(start.actions))
<1> DEFINE n == Len(actions)
           m == Len(start.actions)
<1>1. n \in Nat /\ DOMAIN actions = 1..n /\ m \in Nat
  BY SeqFacts, FineFacts
<1>2. PICK p : Turns("add", 0, start, actions, n, p) /\ p[n] = AddAll(start, actions)
  BY <1>1, AddFold
<1>3. p[0] = start /\ \A k \in 1..n : p[k] = AddAction(p[k - 1], actions[k])
  BY <1>2, TurnFacts DEF Turns
<1> HIDE DEF n, m
<1> DEFINE Done(k) == /\ Kept(p[k], start)
                      /\ Len(p[k].actions) = m + k
                      /\ \A j \in 1..k :
                           Resolved(p[k], p[k].actions[m + j]) = getActionHash(actions[j])
           G == {k \in 0..n : Done(k)}
<1>4. 0 \in G
  <2>1. Kept(p[0], start) /\ Len(p[0].actions) = m + 0
    BY <1>1, <1>3, KeepsItself DEF Kept, m
  <2> QED
    BY <1>1, <2>1
<1>5. ASSUME NEW k \in 1..n, k - 1 \in G PROVE k \in G
  <2> DEFINE op == p[k - 1]
             o == p[k]
             a == actions[k]
  <2>1. /\ Kept(op, start) /\ Len(op.actions) = m + (k - 1)
        /\ \A j \in 1..(k - 1) : Resolved(op, op.actions[m + j]) = getActionHash(actions[j])
    BY <1>5
  <2>2. o = AddAction(op, a) /\ Signable(a)
    BY <1>1, <1>3
  <2> HIDE DEF op, o, a
  <2>3. Fine(op) /\ ~op.committed
    BY <2>1 DEF Kept, Keeps
  <2>4. /\ Kept(o, op) /\ Len(o.actions) = Len(op.actions) + 1
        /\ Resolved(o, o.actions[Len(op.actions) + 1]) = getActionHash(a)
    BY <2>2, <2>3, AddActionFacts
  <2>5. Kept(o, start)
    BY <2>1, <2>4, KeepsOn DEF Kept
  <2>6. Len(op.actions) + 1 = m + k /\ Len(o.actions) = m + k
    BY <1>1, <2>1, <2>4
  <2>7. ASSUME NEW j \in 1..k
        PROVE  Resolved(o, o.actions[m + j]) = getActionHash(actions[j])
    <3>1. CASE j = k
      BY <2>4, <2>6, <3>1 DEF a
    <3>2. CASE j # k
      <4>1. j \in 1..(k - 1)
        BY <3>2
      <4>2. m + j \in DOMAIN op.actions
        <5>1. DOMAIN op.actions = 1..Len(op.actions)
          BY <2>3, FineFacts
        <5> QED
          BY <1>1, <2>1, <4>1, <5>1
      <4>3. Resolved(o, o.actions[m + j]) = Resolved(op, op.actions[m + j])
        BY <2>3, <2>4, <4>2, SameResolved
      <4> QED
        BY <2>1, <4>1, <4>3
    <3> QED
      BY <3>1, <3>2
  <2>8. Done(k)
    BY <2>5, <2>6, <2>7 DEF o
  <2> QED
    BY <1>1, <2>8
<1>6. G = 0..n
  <2>1. G \in SUBSET (0..n)
    OBVIOUS
  <2> HIDE DEF G
  <2> QED
    BY <1>1, <1>4, <1>5, <2>1, AllReached
<1>7. Done(n)
  BY <1>1, <1>6
<1> QED
  BY <1>1, <1>2, <1>7 DEF AllAdded, n, m

(* A batch keeps what it holds of signed operations.                       *)
LEMMA HoldsOn ==
  ASSUME NEW op, NEW o, Kept(o, op), Fine(op), NEW first \in Nat, NEW s, IsSeq(s.actions),
         Holds(op, first, s)
  PROVE  Holds(o, first, s)
<1> DEFINE n == Len(s.actions)
<1>1. n \in Nat /\ DOMAIN s.actions = 1..n
  BY SeqFacts
<1>2. /\ Len(op.actions) \in Nat /\ DOMAIN op.actions = 1..Len(op.actions)
      /\ Len(o.actions) \in Nat
  BY FineFacts DEF Kept
<1>3. first + n <= Len(op.actions) /\ Len(op.actions) <= Len(o.actions)
  BY DEF Holds, Kept, Keeps
<1> HIDE DEF n
<1>4. ASSUME NEW j \in DOMAIN s.actions
      PROVE  Resolved(o, o.actions[first + j]) = getActionHash(s.actions[j])
  <2>1. first + j \in DOMAIN op.actions
    BY <1>1, <1>2, <1>3
  <2>2. Resolved(o, o.actions[first + j]) = Resolved(op, op.actions[first + j])
    BY <2>1, SameResolved
  <2> QED
    BY <2>2 DEF Holds
<1> QED
  BY <1>1, <1>2, <1>3, <1>4 DEF Holds, n

-----------------------------------------------------------------------------
(* Two folds that go through the same elements agree.                      *)
LEMMA TurnsAgree ==
  ASSUME NEW kind, NEW x, NEW base, NEW s, NEW t, NEW m \in Nat, NEW n \in Nat, m <= n,
         \A k \in 1..m : s[k] = t[k],
         NEW p, NEW q, Turns(kind, x, base, s, m, p), Turns(kind, x, base, t, n, q)
  PROVE  \A k \in 0..m : p[k] = q[k]
<1> DEFINE G == {k \in 0..m : p[k] = q[k]}
<1>1. G \in SUBSET (0..m) /\ 0 \in G
  BY DEF Turns
<1>2. ASSUME NEW k \in 1..m, k - 1 \in G PROVE k \in G
  <2>1. k \in 1..n
    OBVIOUS
  <2>2. /\ p[k] = Turn(kind, x, p[k - 1], s[k])
        /\ q[k] = Turn(kind, x, q[k - 1], t[k])
    BY <2>1 DEF Turns
  <2>3. p[k - 1] = q[k - 1] /\ s[k] = t[k]
    BY <1>2
  <2> QED
    BY <2>2, <2>3
<1>3. G = 0..m
  <2> HIDE DEF G
  <2> QED
    BY <1>1, <1>2, AllReached
<1> QED
  BY <1>3

LEMMA SubSeqFacts ==
  ASSUME NEW s, IsSeq(s), NEW m \in 0..Len(s)
  PROVE  /\ SubSeq(s, 1, m) = [i \in 1..m |-> s[i]]
         /\ IsSeq(SubSeq(s, 1, m)) /\ Len(SubSeq(s, 1, m)) = m
<1>1. Len(s) \in Nat /\ DOMAIN s = 1..Len(s) /\ s \in Seq(ToSet(s))
  BY SeqFacts DEF IsSeq
<1> DEFINE S == ToSet(s)
           t == SubSeq(s, 1, m)
<1>2. t = [i \in 1..m |-> s[i]]
  <2> HIDE DEF S
  <2> QED
    BY <1>1 DEF S
<1> HIDE DEF t
<1>3. t = [i \in 1..m |-> t[i]] /\ m \in Nat
  BY <1>1, <1>2
<1> QED
  BY <1>2, <1>3, SeqMade DEF t

LEMMA ConcatFacts ==
  ASSUME NEW s, IsSeq(s), NEW t, IsSeq(t)
  PROVE  /\ IsSeq(s \o t) /\ Len(s \o t) = Len(s) + Len(t)
         /\ \A i \in 1..Len(s) : (s \o t)[i] = s[i]
         /\ \A i \in 1..Len(t) : (s \o t)[Len(s) + i] = t[i]
<1> DEFINE S == ToSet(s) \cup ToSet(t)
           u == s \o t
<1>1. s \in Seq(S) /\ t \in Seq(S)
  BY DEF IsSeq
<1> HIDE DEF S
<1>2. /\ u \in Seq(S) /\ Len(u) = Len(s) + Len(t)
      /\ \A i \in 1..Len(s) : u[i] = s[i]
      /\ \A i \in 1..Len(t) : u[Len(s) + i] = t[i]
  BY <1>1
<1> HIDE DEF u
<1>3. u = [i \in 1..Len(u) |-> u[i]] /\ Len(u) \in Nat
  BY <1>2
<1>4. IsSeq(u)
  BY <1>3, SeqMade
<1> QED
  BY <1>2, <1>4 DEF u

(* FlattenSeq joins one sequence after the other.                          *)
LEMMA Flattened ==
  ASSUME NEW seqs, NEW n \in Nat, seqs = [i \in 1..n |-> seqs[i]],
         \A i \in 1..n : IsSeq(seqs[i])
  PROVE  \E p : Turns("join", 0, <<>>, seqs, n, p) /\ p[n] = FlattenSeq(seqs)
<1>1. IsSeq(seqs) /\ Len(seqs) = n
  BY SeqMade
<1>2. PICK p : Turns("join", 0, <<>>, seqs, n, p)
  <2>1. PICK h : Folds("join", 0, <<>>, seqs, n, h)
    BY FoldExists
  <2> QED
    BY <2>1, FoldTurns
<1>3. p[0] = <<>> /\ \A k \in 1..n : p[k] = Join(p[k - 1], seqs[k])
  BY <1>2, TurnFacts DEF Turns
<1>4. CASE n = 0
  <2>1. seqs = <<>>
    BY <1>1, <1>4
  <2>2. FlattenSeq(seqs) = seqs
    BY <1>1, <1>4 DEF FlattenSeq
  <2> QED
    BY <1>2, <1>3, <1>4, <2>1, <2>2
<1>5. CASE n # 0
  <2> DEFINE Solves(h) == h = [i \in 1..n |-> IF i = 1 THEN seqs[i] ELSE Join(h[i - 1], seqs[i])]
             it == CHOOSE h : Solves(h)
             q == [i \in 1..n |-> p[i]]
  <2>1. FlattenSeq(seqs) = it[n]
    BY <1>1, <1>5 DEF FlattenSeq, Join
  <2>2. p[1] = seqs[1]
    <3>1. p[1] = Join(<<>>, seqs[1]) /\ IsSeq(seqs[1])
      BY <1>3, <1>5
    <3> DEFINE s == seqs[1]
    <3>2. s \in Seq(ToSet(s))
      BY <3>1 DEF IsSeq
    <3> HIDE DEF s
    <3>3. <<>> \o s = s
      BY <3>2
    <3> QED
      BY <3>1, <3>3 DEF s, Join
  <2>3. Solves(q)
    <3>1. \A i \in 1..n : i # 1 => (q[i - 1] = p[i - 1] /\ p[i] = Join(p[i - 1], seqs[i]))
      BY <1>3
    <3> QED
      BY <2>2, <3>1
  <2>4. Solves(it)
    BY <2>3
  <2> HIDE DEF it, q
  <2>5. \A i \in 1..n : it[i] = IF i = 1 THEN seqs[i] ELSE Join(it[i - 1], seqs[i])
    <3> DEFINE f == [i \in 1..n |-> IF i = 1 THEN seqs[i] ELSE Join(it[i - 1], seqs[i])]
    <3>1. \A i \in 1..n : f[i] = IF i = 1 THEN seqs[i] ELSE Join(it[i - 1], seqs[i])
      OBVIOUS
    <3>2. it = f
      BY <2>4
    <3> HIDE DEF f
    <3> QED
      BY <3>1, <3>2
  <2> DEFINE G == {k \in 0..n : k = 0 \/ it[k] = p[k]}
  <2>6. G \in SUBSET (0..n) /\ 0 \in G
    OBVIOUS
  <2>7. ASSUME NEW k \in 1..n, k - 1 \in G PROVE k \in G
    <3>1. CASE k = 1
      BY <2>2, <2>5, <3>1
    <3>2. CASE k # 1
      <4>1. it[k - 1] = p[k - 1]
        BY <2>7, <3>2
      <4>2. it[k] = Join(it[k - 1], seqs[k]) /\ p[k] = Join(p[k - 1], seqs[k])
        BY <1>3, <2>5, <3>2
      <4> QED
        BY <4>1, <4>2
    <3> QED
      BY <3>1, <3>2
  <2>8. G = 0..n
    <3> HIDE DEF G
    <3> QED
      BY <2>6, <2>7, AllReached
  <2>9. it[n] = p[n]
    BY <1>5, <2>8
  <2> QED
    BY <1>2, <2>1, <2>9
<1> QED
  BY <1>4, <1>5

-----------------------------------------------------------------------------
(* The authorizations of a transaction, and the actions they cover.        *)
Counted(auths) ==
  IsSeq(auths) /\ \A i \in DOMAIN auths : auths[i].numActions \in Nat

LEMMA FirstIs ==
  ASSUME NEW auths, NEW i
  PROVE  FirstOf(auths, i) = 1 + CountAll(0, SubSeq(auths, 1, i - 1))
BY DEF FirstOf, CountAll

LEMMA FirstTurns ==
  ASSUME NEW auths, Counted(auths)
  PROVE  \E p : /\ Turns("count", 0, 0, auths, Len(auths), p)
                /\ \A k \in 0..Len(auths) : FirstOf(auths, k + 1) = 1 + p[k]
<1> DEFINE n == Len(auths)
           part(k) == SubSeq(auths, 1, k)
<1>1. n \in Nat /\ DOMAIN auths = 1..n
  BY SeqFacts DEF Counted
<1>2. PICK p : Turns("count", 0, 0, auths, n, p)
  BY <1>1, CountFold
<1>3. ASSUME NEW k \in 0..n PROVE FirstOf(auths, k + 1) = 1 + p[k]
  <2> DEFINE s == part(k)
  <2>1. s = [i \in 1..k |-> auths[i]] /\ k \in Nat /\ k <= n
    BY <1>1, SubSeqFacts DEF Counted
  <2>2. DOMAIN s = 1..k /\ \A i \in 1..k : s[i] = auths[i]
    BY <2>1
  <2>3. k + 1 - 1 = k
    OBVIOUS
  <2>4. FirstOf(auths, k + 1) = 1 + CountAll(0, s)
    BY <2>3, FirstIs
  <2> HIDE DEF s, n
  <2>5. PICK q : Turns("count", 0, 0, s, k, q) /\ q[k] = CountAll(0, s)
    BY <2>1, <2>2, CountFold
  <2>6. q[k] = p[k]
    <3>1. n \in Nat /\ k \in Nat /\ k <= n /\ \A i \in 1..k : s[i] = auths[i]
      BY <1>1, <2>1, <2>2
    <3>2. Turns("count", 0, 0, s, k, q) /\ Turns("count", 0, 0, auths, n, p)
      BY <1>2, <2>5
    <3>3. \A i \in 0..k : q[i] = p[i]
      BY <3>1, <3>2, TurnsAgree
    <3> QED
      BY <2>1, <3>3
  <2> QED
    BY <2>4, <2>5, <2>6
<1> QED
  BY <1>2, <1>3

LEMMA FirstFacts ==
  ASSUME NEW auths, Counted(auths)
  PROVE  /\ FirstOf(auths, 1) = 1
         /\ \A k \in 1..Len(auths) :
              /\ FirstOf(auths, k) \in Nat \ {0}
              /\ FirstOf(auths, k + 1) = FirstOf(auths, k) + auths[k].numActions
         /\ FirstOf(auths, Len(auths) + 1) \in Nat \ {0}
<1> DEFINE n == Len(auths)
<1>1. n \in Nat /\ DOMAIN auths = 1..n
  BY SeqFacts DEF Counted
<1>2. PICK p : /\ Turns("count", 0, 0, auths, n, p)
               /\ \A k \in 0..n : FirstOf(auths, k + 1) = 1 + p[k]
  BY FirstTurns
<1>3. p[0] = 0 /\ \A k \in 1..n : p[k] = p[k - 1] + auths[k].numActions
  BY <1>2, TurnFacts DEF Turns
<1> HIDE DEF n
<1>4. \A k \in 1..n : auths[k].numActions \in Nat
  BY <1>1 DEF Counted
<1> DEFINE G == {k \in 0..n : p[k] \in Nat}
<1>5. G = 0..n
  <2>1. G \in SUBSET (0..n) /\ 0 \in G
    BY <1>1, <1>3
  <2>2. \A k \in 1..n : k - 1 \in G => k \in G
    BY <1>1, <1>3, <1>4
  <2> HIDE DEF G
  <2> QED
    BY <1>1, <2>1, <2>2, AllReached
<1>6. ASSUME NEW k \in 1..n
      PROVE  /\ FirstOf(auths, k) \in Nat \ {0}
             /\ FirstOf(auths, k + 1) = FirstOf(auths, k) + auths[k].numActions
  <2>1. k - 1 \in 0..n /\ k \in 0..n /\ k - 1 + 1 = k
    BY <1>1
  <2>2. FirstOf(auths, k) = 1 + p[k - 1] /\ FirstOf(auths, k + 1) = 1 + p[k]
    BY <1>2, <2>1
  <2>3. p[k - 1] \in Nat /\ p[k] = p[k - 1] + auths[k].numActions
    BY <1>3, <1>5, <2>1
  <2> QED
    BY <1>4, <2>2, <2>3
<1>7. FirstOf(auths, 1) = 1
  <2>1. 0 \in 0..n /\ 0 + 1 = 1
    BY <1>1
  <2>2. FirstOf(auths, 0 + 1) = 1 + p[0]
    BY <1>2, <2>1
  <2> QED
    BY <1>3, <2>2
<1>8. FirstOf(auths, n + 1) \in Nat \ {0}
  <2>1. n \in 0..n
    BY <1>1
  <2>2. FirstOf(auths, n + 1) = 1 + p[n] /\ p[n] \in Nat
    BY <1>2, <1>5, <2>1
  <2> QED
    BY <2>2
<1> QED
  BY <1>6, <1>7, <1>8 DEF n

(* One more authorization covers the actions after those that are covered. *)
LEMMA FirstAppended ==
  ASSUME NEW auths, Counted(auths), NEW auth, auth.numActions \in Nat
  PROVE  LET t == Append(auths, auth)   n == Len(auths)
         IN  /\ Counted(t)
             /\ \A i \in 1..(n + 1) : FirstOf(t, i) = FirstOf(auths, i)
             /\ FirstOf(t, Len(t) + 1) = FirstOf(auths, n + 1) + auth.numActions
<1> DEFINE t == Append(auths, auth)
           n == Len(auths)
<1>1. n \in Nat /\ DOMAIN auths = 1..n /\ IsSeq(auths)
  BY SeqFacts DEF Counted
<1>2. /\ IsSeq(t) /\ Len(t) = n + 1 /\ t[n + 1] = auth
      /\ \A i \in 1..n : t[i] = auths[i]
  BY <1>1, AppendFacts
<1> HIDE DEF t, n
<1>3. DOMAIN t = 1..(n + 1)
  BY <1>2, SeqFacts
<1>4. Counted(t)
  BY <1>1, <1>2, <1>3 DEF Counted
<1>5. ASSUME NEW i \in 1..(n + 1) PROVE FirstOf(t, i) = FirstOf(auths, i)
  <2>1. i - 1 \in 0..n /\ i - 1 \in 0..(n + 1)
    BY <1>1
  <2>2. SubSeq(auths, 1, i - 1) = [j \in 1..(i - 1) |-> auths[j]]
    BY <1>1, <2>1, SubSeqFacts DEF n
  <2>3. SubSeq(t, 1, i - 1) = [j \in 1..(i - 1) |-> t[j]]
    BY <1>2, <2>1, SubSeqFacts
  <2>4. \A j \in 1..(i - 1) : t[j] = auths[j]
    BY <1>1, <1>2
  <2>5. SubSeq(t, 1, i - 1) = SubSeq(auths, 1, i - 1)
    BY <2>2, <2>3, <2>4
  <2> QED
    BY <2>5, FirstIs
<1>6. FirstOf(t, n + 1 + 1) = FirstOf(t, n + 1) + auth.numActions
  <2>1. n + 1 \in 1..Len(t)
    BY <1>1, <1>2
  <2> QED
    BY <1>2, <1>4, <2>1, FirstFacts
<1>7. FirstOf(t, n + 1) = FirstOf(auths, n + 1)
  BY <1>1, <1>5
<1> QED
  BY <1>2, <1>4, <1>5, <1>6, <1>7 DEF t, n

(* Authorizations that cover the first actions of op, up to "last".        *)
AuthsSound(of, op, g, last) ==
  /\ Counted(g)
  /\ FirstOf(g, Len(g) + 1) = last + 1
  /\ \A i \in 1..Len(g) : IsSigned(g[i]) => Covers(of, op, g[i], FirstOf(g, i) - 1)

LEMMA AuthsAppended ==
  ASSUME NEW of, NEW op, NEW g, NEW last \in Nat, AuthsSound(of, op, g, last),
         NEW auth, auth.numActions \in Nat, IsSigned(auth) => Covers(of, op, auth, last)
  PROVE  AuthsSound(of, op, Append(g, auth), last + auth.numActions)
<1> DEFINE t == Append(g, auth)
           n == Len(g)
<1>1. n \in Nat /\ DOMAIN g = 1..n /\ IsSeq(g)
  BY SeqFacts DEF Counted, AuthsSound
<1>2. /\ Len(t) = n + 1 /\ t[n + 1] = auth
      /\ \A i \in 1..n : t[i] = g[i]
  BY <1>1, AppendFacts
<1>3. /\ Counted(t)
      /\ \A i \in 1..(n + 1) : FirstOf(t, i) = FirstOf(g, i)
      /\ FirstOf(t, Len(t) + 1) = FirstOf(g, n + 1) + auth.numActions
  BY FirstAppended DEF AuthsSound
<1>4. /\ FirstOf(g, n + 1) = last + 1
      /\ \A i \in 1..n : IsSigned(g[i]) => Covers(of, op, g[i], FirstOf(g, i) - 1)
  BY DEF AuthsSound
<1> HIDE DEF t, n
<1>5. FirstOf(t, Len(t) + 1) = last + auth.numActions + 1
  BY <1>3, <1>4
<1>6. ASSUME NEW i \in 1..Len(t), IsSigned(t[i]) PROVE Covers(of, op, t[i], FirstOf(t, i) - 1)
  <2>1. i \in 1..(n + 1)
    BY <1>2
  <2>2. CASE i \in 1..n
    BY <1>2, <1>3, <1>4, <1>6, <2>1, <2>2
  <2>3. CASE i = n + 1
    <3>1. t[i] = auth /\ FirstOf(t, i) - 1 = last
      BY <1>2, <1>3, <1>4, <2>1, <2>3
    <3> QED
      BY <1>6, <3>1
  <2> QED
    BY <1>1, <2>1, <2>2, <2>3
<1> QED
  BY <1>3, <1>5, <1>6 DEF AuthsSound, t

(* What stands for the actions between two signed operations, and what     *)
(* generateAuthData makes of the authorization i.                          *)
AuthOf(auth) ==
  [numActions |-> auth.numActions, header |-> auth.header, signature |-> auth.signature]
Gap(n)       == [numActions |-> n, header |-> NoHeader, signature |-> <<>>]
Piece(op, i) ==
  EmptyAuth(op.auths[i].startIndex - EndOf(op, i - 1)) \o <<AuthOf(op.auths[i])>>

LEMMA GeneratedIs ==
  ASSUME NEW op
  PROVE  GenerateAuthData(op) =
           FlattenSeq([i \in 1..Len(op.auths) |-> Piece(op, i)])
             \o EmptyAuth(Len(op.actions) - EndOf(op, Len(op.auths)))
BY DEF GenerateAuthData, Piece, EndOf, AuthOf

LEMMA AppendIs ==
  ASSUME NEW s, IsSeq(s), NEW a, NEW b
  PROVE  /\ s \o <<a>> = Append(s, a) /\ s \o <<>> = s
         /\ s \o (<<>> \o <<b>>) = Append(s, b)
         /\ s \o (<<a>> \o <<b>>) = Append(Append(s, a), b)
<1> DEFINE S == ToSet(s) \cup {a, b}
<1>1. s \in Seq(S) /\ a \in S /\ b \in S
  BY DEF IsSeq
<1> HIDE DEF S
<1> QED
  BY <1>1

LEMMA SeqOne ==
  ASSUME NEW a
  PROVE  IsSeq(<<>>) /\ IsSeq(<<a>>)
<1>1. <<>> \in Seq(ToSet(<<>>))
  OBVIOUS
<1>2. <<a>> \in Seq({a}) /\ ToSet(<<a>>) = {a}
  BY DEF ToSet
<1> QED
  BY <1>1, <1>2 DEF IsSeq

(* A stretch without a signature, of any length.                           *)
LEMMA GapAppended ==
  ASSUME NEW of, NEW op, NEW g, NEW last \in Nat, AuthsSound(of, op, g, last),
         NEW m \in Nat, last <= m
  PROVE  AuthsSound(of, op, g \o EmptyAuth(m - last), m)
<1>1. IsSeq(g)
  BY DEF AuthsSound, Counted
<1>2. CASE m = last
  <2>1. EmptyAuth(m - last) = <<>>
    BY <1>2 DEF EmptyAuth
  <2>2. g \o <<>> = g
    BY <1>1, AppendIs
  <2> QED
    BY <1>2, <2>1, <2>2
<1>3. CASE m # last
  <2> DEFINE n == m - last
             auth == Gap(n)
  <2>1. n \in Nat /\ ~(n <= 0) /\ last + n = m
    BY <1>3
  <2>2. EmptyAuth(n) = <<auth>>
    BY <2>1 DEF EmptyAuth, Gap
  <2> HIDE DEF n
  <2>3. auth.numActions = n /\ ~IsSigned(auth)
    BY DEF Gap, IsSigned
  <2> HIDE DEF auth
  <2>4. g \o <<auth>> = Append(g, auth)
    BY <1>1, AppendIs
  <2>5. AuthsSound(of, op, Append(g, auth), last + n)
    BY <2>1, <2>3, AuthsAppended
  <2> QED
    BY <2>1, <2>2, <2>4, <2>5 DEF n
<1> QED
  BY <1>2, <1>3

LEMMA PieceAppended ==
  ASSUME NEW of, NEW op, NEW i, NEW g, NEW last \in Nat, AuthsSound(of, op, g, last),
         last = EndOf(op, i - 1),
         op.auths[i].startIndex \in Nat, last <= op.auths[i].startIndex,
         op.auths[i].numActions \in Nat,
         Covers(of, op, op.auths[i], op.auths[i].startIndex)
  PROVE  /\ AuthsSound(of, op, g \o Piece(op, i), op.auths[i].startIndex + op.auths[i].numActions)
         /\ IsSeq(Piece(op, i))
<1> DEFINE m == op.auths[i].startIndex
           auth == AuthOf(op.auths[i])
           e == EmptyAuth(m - last)
<1>1. AuthsSound(of, op, g \o e, m)
  BY GapAppended
<1>2. /\ auth.numActions = op.auths[i].numActions
      /\ auth.header = op.auths[i].header /\ auth.signature = op.auths[i].signature
  BY DEF AuthOf
<1>3. Piece(op, i) = e \o <<auth>>
  BY DEF Piece
<1>4. IsSeq(g)
  BY DEF AuthsSound, Counted
<1> HIDE DEF m, auth
<1>5. Covers(of, op, auth, m) /\ auth.numActions \in Nat /\ m \in Nat
  BY <1>2 DEF Covers, m
<1>6. \/ e = <<>> \/ e = <<Gap(m - last)>>
  BY DEF EmptyAuth, Gap
<1> HIDE DEF e
<1>7. AuthsSound(of, op, Append(g \o e, auth), m + auth.numActions)
  BY <1>1, <1>5, AuthsAppended
<1>8. g \o (e \o <<auth>>) = Append(g \o e, auth)
  <2> DEFINE a == Gap(m - last)
  <2>1. /\ g \o <<a>> = Append(g, a) /\ g \o <<>> = g
        /\ g \o (<<>> \o <<auth>>) = Append(g, auth)
        /\ g \o (<<a>> \o <<auth>>) = Append(Append(g, a), auth)
    BY <1>4, AppendIs
  <2> HIDE DEF a
  <2>2. e = <<>> \/ e = <<a>>
    BY <1>6 DEF a
  <2> QED
    BY <2>1, <2>2
<1>9. IsSeq(e \o <<auth>>)
  BY <1>6, SeqOne, ConcatFacts
<1> QED
  BY <1>2, <1>3, <1>7, <1>8, <1>9 DEF m

LEMMA BatchFacts ==
  ASSUME NEW of, NEW op, BatchSound(of, op), \A s \in of : SignedSound(s)
  PROVE  /\ Fine(op) /\ IsSeq(op.auths)
         /\ Len(op.auths) \in Nat /\ DOMAIN op.auths = 1..Len(op.auths)
         /\ \A i \in 1..Len(op.auths) :
              /\ op.auths[i].startIndex \in Nat /\ op.auths[i].numActions \in Nat
              /\ EndOf(op, i - 1) <= op.auths[i].startIndex
              /\ EndOf(op, i) = op.auths[i].startIndex + op.auths[i].numActions
              /\ EndOf(op, i) <= Len(op.actions)
              /\ Covers(of, op, op.auths[i], op.auths[i].startIndex)
         /\ EndOf(op, 0) = 0
<1>1. Fine(op) /\ IsSeq(op.auths)
  BY DEF BatchSound, Fine
<1>2. Len(op.auths) \in Nat /\ DOMAIN op.auths = 1..Len(op.auths)
  BY <1>1, SeqFacts
<1>3. ASSUME NEW i \in 1..Len(op.auths)
      PROVE  /\ op.auths[i].startIndex \in Nat /\ op.auths[i].numActions \in Nat
             /\ EndOf(op, i - 1) <= op.auths[i].startIndex
             /\ EndOf(op, i) = op.auths[i].startIndex + op.auths[i].numActions
             /\ EndOf(op, i) <= Len(op.actions)
             /\ Covers(of, op, op.auths[i], op.auths[i].startIndex)
  <2>1. /\ op.auths[i].startIndex \in Nat /\ EndOf(op, i - 1) <= op.auths[i].startIndex
        /\ Covers(of, op, op.auths[i], op.auths[i].startIndex)
    BY <1>2 DEF BatchSound
  <2>2. EndOf(op, i) = op.auths[i].startIndex + op.auths[i].numActions
    BY <1>2 DEF EndOf
  <2>3. PICK s \in of : /\ op.auths[i].numActions = Len(s.actions)
                            /\ Holds(op, op.auths[i].startIndex, s)
    BY <2>1 DEF Covers
  <2>4. /\ op.auths[i].startIndex + Len(s.actions) <= Len(op.actions)
        /\ Len(s.actions) \in Nat
    BY <2>3, SeqFacts DEF Holds, SignedSound
  <2> QED
    BY <2>1, <2>2, <2>3, <2>4
<1> QED
  BY <1>1, <1>2, <1>3 DEF EndOf

(* The authorizations of a batch cover exactly its actions.                *)
LEMMA GeneratedFacts ==
  ASSUME NEW of, NEW op, BatchSound(of, op), \A s \in of : SignedSound(s)
  PROVE  AuthsSound(of, op, GenerateAuthData(op), Len(op.actions))
<1> DEFINE n == Len(op.auths)
           seqs == [i \in 1..n |-> Piece(op, i)]
           m == Len(op.actions)
<1>1. n \in Nat /\ m \in Nat /\ EndOf(op, 0) = 0
  BY BatchFacts, FineFacts
<1>2. \A i \in 1..n :
        /\ op.auths[i].startIndex \in Nat /\ op.auths[i].numActions \in Nat
        /\ EndOf(op, i - 1) <= op.auths[i].startIndex
        /\ EndOf(op, i) = op.auths[i].startIndex + op.auths[i].numActions
        /\ EndOf(op, i) <= m
        /\ Covers(of, op, op.auths[i], op.auths[i].startIndex)
  BY BatchFacts
<1>3. GenerateAuthData(op) = FlattenSeq(seqs) \o EmptyAuth(m - EndOf(op, n))
  BY GeneratedIs
<1>4. \A i \in 1..n : seqs[i] = Piece(op, i)
  OBVIOUS
<1>5. seqs = [i \in 1..n |-> seqs[i]]
  OBVIOUS
<1> HIDE DEF seqs, n, m
<1>6. \A i \in 1..n : IsSeq(Piece(op, i))
  <2> TAKE i \in 1..n
  <2> DEFINE e == EmptyAuth(op.auths[i].startIndex - EndOf(op, i - 1))
             b == <<AuthOf(op.auths[i])>>
  <2>1. IsSeq(e)
    BY SeqOne DEF EmptyAuth
  <2>2. IsSeq(b)
    BY SeqOne
  <2> HIDE DEF e, b
  <2>3. IsSeq(e \o b)
    BY <2>1, <2>2, ConcatFacts
  <2> QED
    BY <2>3 DEF Piece, e, b
<1>7. PICK p : Turns("join", 0, <<>>, seqs, n, p) /\ p[n] = FlattenSeq(seqs)
  BY <1>1, <1>4, <1>5, <1>6, Flattened
<1>8. p[0] = <<>> /\ \A k \in 1..n : p[k] = Join(p[k - 1], seqs[k])
  BY <1>7, TurnFacts DEF Turns
<1> DEFINE G == {k \in 0..n : EndOf(op, k) \in Nat /\ AuthsSound(of, op, p[k], EndOf(op, k))}
<1>9. 0 \in G
  <2> DEFINE g == <<>>
  <2>1. Len(g) = 0 /\ IsSeq(g) /\ DOMAIN g = {}
    <3>1. IsSeq(<<>>)
      BY SeqOne
    <3>2. Len(<<>>) = 0 /\ DOMAIN <<>> = {}
      OBVIOUS
    <3> QED
      BY <3>1, <3>2
  <2>2. Counted(g)
    BY <2>1 DEF Counted
  <2> HIDE DEF g
  <2>3. FirstOf(g, 1) = 1
    BY <2>2, FirstFacts
  <2>4. AuthsSound(of, op, g, 0)
    BY <2>1, <2>2, <2>3 DEF AuthsSound
  <2> QED
    BY <1>1, <1>8, <2>4 DEF g
<1>10. ASSUME NEW k \in 1..n, k - 1 \in G PROVE k \in G
  <2> DEFINE g == p[k - 1]
             last == EndOf(op, k - 1)
             auth == op.auths[k]
  <2>1. last \in Nat /\ AuthsSound(of, op, g, last)
    BY <1>10
  <2>2. /\ auth.startIndex \in Nat /\ auth.numActions \in Nat /\ last <= auth.startIndex
        /\ EndOf(op, k) = auth.startIndex + auth.numActions
        /\ Covers(of, op, auth, auth.startIndex)
    BY <1>2
  <2>3. AuthsSound(of, op, g \o Piece(op, k), auth.startIndex + auth.numActions)
    <3> HIDE DEF g
    <3> QED
      BY <2>1, <2>2, PieceAppended
  <2>4. p[k] = g \o Piece(op, k)
    BY <1>4, <1>8 DEF Join
  <2>5. EndOf(op, k) \in Nat
    BY <2>2
  <2>6. AuthsSound(of, op, p[k], EndOf(op, k))
    <3> HIDE DEF g, auth
    <3> QED
      BY <2>2, <2>3, <2>4
  <2> QED
    BY <1>1, <2>5, <2>6
<1>11. G = 0..n
  <2>1. G \in SUBSET (0..n)
    OBVIOUS
  <2> HIDE DEF G
  <2> QED
    BY <1>1, <1>9, <1>10, <2>1, AllReached
<1>12. n \in 0..n
  BY <1>1
<1>13. EndOf(op, n) \in Nat /\ AuthsSound(of, op, p[n], EndOf(op, n))
  BY <1>11, <1>12
<1>14. EndOf(op, n) <= m
  BY <1>1, <1>2
<1>15. AuthsSound(of, op, p[n] \o EmptyAuth(m - EndOf(op, n)), m)
  BY <1>1, <1>13, <1>14, GapAppended
<1> QED
  BY <1>3, <1>7, <1>15 DEF m

-----------------------------------------------------------------------------
(* Signatures.                                                             *)
TypedBy(sig, owner, hash, type) ==
  /\ sig.type = type /\ sig.over = <<Wallet[owner].prefix, hash>>
  /\ sig.by = owner /\ sig.low = FALSE /\ sig # <<>>

LEMMA TypedFacts ==
  ASSUME NEW owner \in Owners, NEW hash, NEW type
  PROVE  TypedBy(createTypedSignature(EthSign(owner, hash), type), owner, hash, type)
<1> DEFINE raw == EthSign(owner, hash)
           fixed == fixRawSignature(raw)
           t == [type |-> type]
           sig == createTypedSignature(raw, type)
<1>1. /\ raw.over = <<Wallet[owner].prefix, hash>> /\ raw.by = owner
      /\ DOMAIN raw = {"over", "by", "low"}
  BY DEF EthSign
<1> HIDE DEF raw
<1>2. /\ fixed.over = raw.over /\ fixed.by = owner /\ fixed.low = FALSE
      /\ DOMAIN fixed = {"over", "by", "low"}
  BY <1>1 DEF fixRawSignature
<1>3. DOMAIN t = {"type"} /\ t.type = type
  OBVIOUS
<1> HIDE DEF fixed, t
<1>4. sig = [x \in (DOMAIN t) \cup (DOMAIN fixed) |-> IF x \in DOMAIN t THEN t[x] ELSE fixed[x]]
  BY DEF createTypedSignature, Over, fixed, t
<1> HIDE DEF sig
<1>5. sig.type = type /\ sig.over = fixed.over /\ sig.by = owner /\ sig.low = FALSE
  BY <1>2, <1>3, <1>4
<1>6. "by" \in DOMAIN sig
  BY <1>2, <1>4
<1>7. sig # <<>>
  <2>1. DOMAIN <<>> = {}
    OBVIOUS
  <2> QED
    BY <1>6, <2>1
<1> QED
  BY <1>1, <1>2, <1>5, <1>7 DEF TypedBy, sig, raw

(* Every way of signing makes a signature of the owner over the hash, with *)
(* a v that the chain accepts.                                             *)
SignedBy(sig, owner, hash) ==
  /\ sig # <<>> /\ sig.by = owner /\ sig.low = FALSE
  /\ \E prefix \in SIGNATURE_TYPES : sig.over = <<prefix, hash>>

LEMMA SignWithFacts ==
  ASSUME NEW owner \in Owners, NEW hash, NEW method, NEW valid
  PROVE  SignedBy(SignWith(owner, hash, method, valid), owner, hash)
<1> DEFINE sig == SignWith(owner, hash, method, valid)
<1>1. CASE sig = ethSignTypedDataInternal(owner, hash)
  <2>1. /\ sig.by = owner /\ sig.low = FALSE /\ sig.over = <<"NO_PREPEND", hash>>
        /\ "by" \in DOMAIN sig
    BY <1>1 DEF ethSignTypedDataInternal
  <2> HIDE DEF sig
  <2>2. sig # <<>>
    <3>1. DOMAIN <<>> = {}
      OBVIOUS
    <3> QED
      BY <2>1, <3>1
  <2> QED
    BY <2>1, <2>2 DEF SIGNATURE_TYPES, SignedBy, sig
<1>2. CASE \E type : sig = createTypedSignature(EthSign(owner, hash), type)
  <2>1. Wallet[owner].prefix \in SIGNATURE_TYPES
    BY PrefixAssumption DEF SIGNATURE_TYPES
  <2>2. PICK type : sig = createTypedSignature(EthSign(owner, hash), type)
    BY <1>2
  <2> DEFINE typed == createTypedSignature(EthSign(owner, hash), type)
  <2>3. /\ typed.over = <<Wallet[owner].prefix, hash>> /\ typed.by = owner
        /\ typed.low = FALSE /\ typed # <<>>
    <3>1. TypedBy(typed, owner, hash, type)
      BY TypedFacts
    <3> HIDE DEF typed
    <3> QED
      BY <3>1 DEF TypedBy
  <2>4. sig = typed
    BY <2>2
  <2> HIDE DEF sig, typed
  <2>5. SignedBy(sig, owner, hash)
    BY <2>1, <2>3, <2>4 DEF SignedBy
  <2> QED
    BY <2>5 DEF sig
<1>3. \/ sig = ethSignTypedDataInternal(owner, hash)
      \/ sig = createTypedSignature(EthSign(owner, hash), "NO_PREPEND")
      \/ sig = createTypedSignature(EthSign(owner, hash), "DECIMAL")
  BY DEF SignWith
<1> QED
  BY <1>1, <1>2, <1>3

(* What Compatibility and typed data sign the client confirms, if its      *)
(* check of a signature without a prefix says whether that one is valid.   *)
LEMMA Verifies ==
  ASSUME NEW owner \in Owners, NEW hash, NEW method \in Trustworthy, NEW valid,
         valid <=> HasValidSignature(hash, UnsafeSignature(owner, hash), owner)
  PROVE  HasValidSignature(hash, SignWith(owner, hash, method, valid), owner)
<1> DEFINE sig == SignWith(owner, hash, method, valid)
<1>1. method \in {"Compatibility", "TypedData", "MetaMask", "MetaMaskLatest", "CoinbaseWallet"}
  BY FlowAssumption DEF Trustworthy, SigningMethod
<1>2. CASE method # "Compatibility"
  <2>1. sig = ethSignTypedDataInternal(owner, hash)
    BY <1>1, <1>2 DEF SignWith
  <2>2. /\ sig.by = owner /\ sig.over = <<"NO_PREPEND", hash>>
        /\ sig.type = "NO_PREPEND"
    BY <2>1 DEF ethSignTypedDataInternal
  <2> HIDE DEF sig
  <2>3. HasValidSignature(hash, sig, owner)
    BY <2>2 DEF HasValidSignature, ecRecoverTypedSignature
  <2> QED
    BY <2>3 DEF sig
<1>3. CASE method = "Compatibility" /\ valid
  BY <1>3 DEF SignWith, UnsafeSignature
<1>4. CASE method = "Compatibility" /\ ~valid
  <2> DEFINE raw == createTypedSignature(EthSign(owner, hash), "NO_PREPEND")
             typed == createTypedSignature(EthSign(owner, hash), "DECIMAL")
  <2>1. sig = typed
    BY <1>4 DEF SignWith
  <2>2. /\ raw.type = "NO_PREPEND" /\ raw.over = <<Wallet[owner].prefix, hash>>
        /\ raw.by = owner
    <3>1. TypedBy(raw, owner, hash, "NO_PREPEND")
      BY TypedFacts
    <3> HIDE DEF raw
    <3> QED
      BY <3>1 DEF TypedBy
  <2>3. /\ typed.type = "DECIMAL" /\ typed.over = <<Wallet[owner].prefix, hash>>
        /\ typed.by = owner
    <3>1. TypedBy(typed, owner, hash, "DECIMAL")
      BY TypedFacts
    <3> HIDE DEF typed
    <3> QED
      BY <3>1 DEF TypedBy
  <2>4. ~HasValidSignature(hash, raw, owner)
    BY <1>4 DEF UnsafeSignature
  <2> HIDE DEF sig, raw, typed
  <2>5. Wallet[owner].prefix # "NO_PREPEND"
    BY <2>2, <2>4 DEF HasValidSignature, ecRecoverTypedSignature
  <2>6. Wallet[owner].prefix = "DECIMAL"
    BY <2>5, PrefixAssumption
  <2>7. HasValidSignature(hash, sig, owner)
    BY <2>1, <2>3, <2>6 DEF HasValidSignature, ecRecoverTypedSignature
  <2> QED
    BY <2>7 DEF sig
<1> QED
  BY <1>2, <1>3, <1>4

(* What a signer signs.                                                    *)
LEMMA SignableFacts ==
  ASSUME NEW op, Fine(op), NEW i \in DOMAIN op.actions
  PROVE  Signable(ActionArgsToAction(op, op.actions[i]))
<1> DEFINE a == op.actions[i]
           b == ActionArgsToAction(op, a)
           n == Len(op.accounts)
<1>1. /\ a.actionType \in ActionTypes /\ a.amount \in AssetAmount
      /\ a.otherAddress \in Addresses
      /\ a.primaryMarketId \in Nat /\ a.secondaryMarketId \in Nat
      /\ a.accountId \in 0..(n - 1) /\ a.otherAccountId \in 0..(n - 1)
  BY DEF Fine, Built, IsBatch, IsActionArgs
<1>2. /\ n \in Nat /\ DOMAIN op.accounts = 1..n
      /\ \A j \in 1..n : op.accounts[j] \in NamedAccount
  <2>1. n \in Nat /\ DOMAIN op.accounts = 1..n
    BY FineFacts
  <2>2. op.accounts \in Seq(NamedAccount)
    BY DEF Fine, Built
  <2> DEFINE s == op.accounts
  <2> HIDE DEF s
  <2>3. \A j \in 1..Len(s) : s[j] \in NamedAccount
    BY <2>2 DEF s
  <2> QED
    BY <2>1, <2>3 DEF s
<1> HIDE DEF a, n
<1>3. a.accountId + 1 \in 1..n /\ a.otherAccountId + 1 \in 1..n
  BY <1>1, <1>2
<1>4. /\ op.accounts[a.accountId + 1] \in NamedAccount
      /\ op.accounts[a.otherAccountId + 1] \in NamedAccount
  BY <1>2, <1>3
<1>5. /\ b.actionType = a.actionType /\ b.amount = a.amount
      /\ b.otherAddress = a.otherAddress /\ b.primaryMarketId = a.primaryMarketId
      /\ b.secondaryMarketId = a.secondaryMarketId
      /\ b.primaryAccount = op.accounts[a.accountId + 1]
      /\ b.secondaryAccount = IF HasOther(a.actionType)
                              THEN op.accounts[a.otherAccountId + 1] ELSE NullAccount
  BY DEF ActionArgsToAction
<1> HIDE DEF b
<1>6. NamedAccount \subseteq AccountInfo /\ NullAccount \in AccountInfo
  BY DEF NamedAccount, AccountInfo, NullAccount, Addresses
<1>7. Signable(b)
  BY <1>1, <1>4, <1>5, <1>6 DEF Signable, IsAction
<1> QED
  BY <1>7 DEF a, b

-----------------------------------------------------------------------------
(* The steps of the invariant.                                             *)
LEMMA SignedSoundMade ==
  ASSUME NEW op, Fine(op), NEW header \in OperationHeader, NEW method, NEW domain,
         createSignableOperation(op, header).header.signer \in Owners
  PROVE  LET operation == createSignableOperation(op, header)
         IN  SignedSound(Over(operation,
               [signature |-> signOperation(domain, operation, method), domain |-> domain]))
<1> DEFINE operation == createSignableOperation(op, header)
           signer == operation.header.signer
           hash == getOperationHash(domain, operation)
           sig == signOperation(domain, operation, method)
           extra == [signature |-> sig, domain |-> domain]
           s == Over(operation, extra)
           n == Len(op.actions)
<1>1. n \in Nat /\ DOMAIN op.actions = 1..n
  BY FineFacts
<1>2. /\ operation.actions = [i \in 1..n |-> ActionArgsToAction(op, op.actions[i])]
      /\ operation.header \in OperationHeader
      /\ DOMAIN operation = {"actions", "header"}
  <2>1. operation.header = [header EXCEPT !.signer =
                              IF @ = ZERO THEN op.accounts[1].owner ELSE @]
    BY DEF createSignableOperation
  <2>2. signer \in Addresses
    BY DEF Addresses
  <2>3. operation.header = [header EXCEPT !.signer = signer]
    BY <2>1 DEF OperationHeader
  <2>4. operation.header \in OperationHeader
    <3> HIDE DEF operation
    <3>1. [header EXCEPT !.signer = signer] \in OperationHeader
      <4> HIDE DEF signer
      <4> QED
        BY <2>2 DEF OperationHeader
    <3> QED
      BY <2>3, <3>1
  <2> QED
    BY <1>1, <2>4 DEF createSignableOperation
<1>3. \E valid : sig = SignWith(signer, hash, method, valid)
  BY DEF signOperation
<1>4. DOMAIN extra = {"signature", "domain"} /\ extra.signature = sig /\ extra.domain = domain
  OBVIOUS
<1>5. signer \in Owners /\ signer = operation.header.signer
  OBVIOUS
<1>6. hash = getEIP712Hash(domain, "Operation",
        [actions |-> getActionsHash(operation.actions), header |-> operation.header])
  BY DEF getOperationHash
<1> HIDE DEF operation, signer, hash, sig, extra
<1>7. /\ s.actions = operation.actions /\ s.header = operation.header
      /\ s.signature = sig /\ s.domain = domain
  BY <1>2, <1>4 DEF Over
<1>8. getOperationHash(s.domain, s) = hash
  BY <1>6, <1>7 DEF getOperationHash
<1>9. SignedBy(sig, signer, hash)
  BY <1>3, <1>5, SignWithFacts
<1> HIDE DEF s
<1>10. IsSeq(s.actions) /\ Len(s.actions) = n
  <2>1. s.actions = [i \in 1..n |-> s.actions[i]]
    BY <1>2, <1>7
  <2> QED
    BY <1>1, <2>1, SeqMade
<1>11. ASSUME NEW i \in DOMAIN s.actions PROVE Signable(s.actions[i])
  <2>1. i \in DOMAIN op.actions /\ s.actions[i] = ActionArgsToAction(op, op.actions[i])
    BY <1>1, <1>2, <1>7
  <2> QED
    BY <2>1, SignableFacts
<1>12. SignedSound(s)
  BY <1>2, <1>5, <1>7, <1>8, <1>9, <1>10, <1>11 DEF SignedSound, SignedBy
<1> QED
  BY <1>12 DEF s, operation, extra, sig

LEMMA BatchMore ==
  ASSUME NEW of, NEW more, of \subseteq more, NEW op, BatchSound(of, op)
  PROVE  BatchSound(more, op)
BY DEF BatchSound, Covers

LEMMA SentMore ==
  ASSUME NEW of, NEW more, of \subseteq more, NEW tx, SentSound(of, tx)
  PROVE  SentSound(more, tx)
BY DEF SentSound, Covers

LEMMA NewSound ==
  ASSUME NEW of
  PROVE  BatchSound(of, NewBatch)
<1> DEFINE op == NewBatch
<1>1. Fine(op) /\ op.auths = <<>> /\ op.committed = FALSE
  BY InitiateFacts DEF NewBatch
<1> HIDE DEF op
<1>2. IsSeq(<<>>) /\ DOMAIN <<>> = {}
  <2>1. IsSeq(<<>>)
    BY SeqOne
  <2>2. DOMAIN <<>> = {}
    OBVIOUS
  <2> QED
    BY <2>1, <2>2
<1>3. BatchSound(of, op)
  BY <1>1, <1>2 DEF BatchSound, Fine
<1> QED
  BY <1>3 DEF op

LEMMA CoversOn ==
  ASSUME NEW of, \A s \in of : SignedSound(s), NEW op, NEW o, Kept(o, op), Fine(op),
         NEW auth, NEW first \in Nat, Covers(of, op, auth, first)
  PROVE  Covers(of, o, auth, first)
<1>1. PICK s \in of : /\ auth.header = s.header /\ auth.signature = s.signature
                      /\ auth.numActions = Len(s.actions) /\ Holds(op, first, s)
  BY DEF Covers
<1>2. IsSeq(s.actions)
  BY DEF SignedSound
<1>3. Holds(o, first, s)
  BY <1>1, <1>2, HoldsOn
<1> QED
  BY <1>1, <1>3 DEF Covers

LEMMA SameCovers ==
  ASSUME NEW of, NEW a, NEW b, a.accounts = b.accounts, a.actions = b.actions,
         NEW auth, NEW first, Covers(of, b, auth, first)
  PROVE  Covers(of, a, auth, first)
<1>1. PICK s \in of : /\ auth.header = s.header /\ auth.signature = s.signature
                      /\ auth.numActions = Len(s.actions) /\ Holds(b, first, s)
  BY DEF Covers
<1>2. \A x : Resolved(a, x) = Resolved(b, x)
  BY DEF Resolved
<1>3. Holds(a, first, s)
  BY <1>1, <1>2 DEF Holds
<1> QED
  BY <1>1, <1>3 DEF Covers

(* A relayer's own action.                                                 *)
LEMMA BatchBuilds ==
  ASSUME NEW of, \A s \in of : SignedSound(s), NEW op, BatchSound(of, op),
         NEW x, IsItem(x)
  PROVE  BatchSound(of, Build(op, x))
<1> DEFINE o == Build(op, x)
<1>1. Fine(op)
  BY DEF BatchSound, Fine
<1>2. Kept(o, op)
  BY <1>1, BuildFacts
<1> HIDE DEF o
<1>3. o.auths = op.auths /\ o.committed = op.committed /\ Fine(o)
  BY <1>2 DEF Kept, Keeps
<1>4. \A i : EndOf(o, i) = EndOf(op, i)
  BY <1>3 DEF EndOf
<1>5. ASSUME NEW i \in DOMAIN o.auths
      PROVE  /\ o.auths[i].startIndex \in Nat /\ EndOf(o, i - 1) <= o.auths[i].startIndex
             /\ Covers(of, o, o.auths[i], o.auths[i].startIndex)
  <2>1. /\ op.auths[i].startIndex \in Nat /\ EndOf(op, i - 1) <= op.auths[i].startIndex
        /\ Covers(of, op, op.auths[i], op.auths[i].startIndex)
    BY <1>3 DEF BatchSound
  <2>2. Covers(of, o, op.auths[i], op.auths[i].startIndex)
    BY <1>1, <1>2, <2>1, CoversOn
  <2> QED
    BY <1>3, <1>4, <2>1, <2>2
<1>6. BatchSound(of, o)
  BY <1>3, <1>5 DEF BatchSound, Fine
<1> QED
  BY <1>6 DEF o

(* A signed operation, added after what the batch has.                     *)
LEMMA BatchAdds ==
  ASSUME NEW of, \A s \in of : SignedSound(s), NEW op, BatchSound(of, op), NEW s \in of
  PROVE  BatchSound(of, addSignedOperation(op, s))
<1> DEFINE first == Len(op.actions)
           auth == [startIndex |-> first, numActions |-> Len(s.actions),
                    header |-> s.header, signature |-> s.signature]
           auths == Append(op.auths, auth)
           n == Len(op.auths)
           start == [op EXCEPT !.auths = auths]
           o == AddAll(start, s.actions)
<1>1. addSignedOperation(op, s) = o
  <2>1. op.committed = FALSE
    BY DEF BatchSound
  <2>2. start = [op EXCEPT !.auths = Append(@, auth)]
    OBVIOUS
  <2> HIDE DEF start
  <2> QED
    BY <2>1, <2>2 DEF addSignedOperation, AddAll, auth
<1>2. Fine(op) /\ first \in Nat /\ n \in Nat /\ DOMAIN op.auths = 1..n /\ IsSeq(op.auths)
  BY BatchFacts, FineFacts
<1>3. /\ auth.startIndex = first /\ auth.numActions = Len(s.actions)
      /\ auth.header = s.header /\ auth.signature = s.signature
  OBVIOUS
<1> HIDE DEF auth
<1>4. /\ IsSeq(auths) /\ Len(auths) = n + 1 /\ auths[n + 1] = auth
      /\ \A i \in 1..n : auths[i] = op.auths[i]
  BY <1>2, AppendFacts
<1> HIDE DEF auths
<1>5. /\ Fine(start) /\ start.actions = op.actions /\ start.auths = auths
      /\ start.accounts = op.accounts /\ start.committed = FALSE
  <2>1. IsOperation(op) /\ op.committed = FALSE
    BY DEF BatchSound
  <2>2. Changed(start, op, op.accounts, op.actions, auths)
    BY <2>1, OperationFields
  <2> HIDE DEF start
  <2>3. Built(start)
    BY <1>2, <2>2 DEF Changed, Fine, Built, IsBatch
  <2> QED
    BY <2>1, <2>2, <2>3 DEF Changed, Fine
<1> HIDE DEF start
<1>6. IsSeq(s.actions) /\ \A i \in DOMAIN s.actions : Signable(s.actions[i])
  BY DEF SignedSound
<1>7. AllAdded(o, start, s.actions, first)
  <2>1. Len(start.actions) = first
    BY <1>5
  <2> QED
    BY <1>5, <1>6, <2>1, AddAllFacts
<1> HIDE DEF o
<1>8. o.auths = auths /\ o.committed = FALSE /\ Fine(o) /\ Kept(o, start)
  BY <1>5, <1>7 DEF AllAdded, Kept, Keeps
<1>9. \A i \in 0..n : EndOf(o, i) = EndOf(op, i)
  BY <1>4, <1>8 DEF EndOf
<1>10. ASSUME NEW i \in DOMAIN o.auths
       PROVE  /\ o.auths[i].startIndex \in Nat /\ EndOf(o, i - 1) <= o.auths[i].startIndex
              /\ Covers(of, o, o.auths[i], o.auths[i].startIndex)
  <2>1. i \in 1..(n + 1)
    BY <1>4, <1>8, SeqFacts
  <2>2. CASE i \in 1..n
    <3>1. /\ op.auths[i].startIndex \in Nat /\ EndOf(op, i - 1) <= op.auths[i].startIndex
          /\ Covers(of, op, op.auths[i], op.auths[i].startIndex)
      BY <2>2, BatchFacts DEF n
    <3>2. Covers(of, start, op.auths[i], op.auths[i].startIndex)
      BY <1>5, <3>1, SameCovers
    <3>3. Covers(of, o, op.auths[i], op.auths[i].startIndex)
      BY <1>5, <1>8, <3>1, <3>2, CoversOn
    <3>4. o.auths[i] = op.auths[i] /\ EndOf(o, i - 1) = EndOf(op, i - 1)
      BY <1>2, <1>4, <1>8, <1>9, <2>2
    <3> QED
      BY <3>1, <3>3, <3>4
  <2>3. CASE i = n + 1
    <3>1. o.auths[i] = auth
      BY <1>4, <1>8, <2>3
    <3>2. EndOf(o, n) <= first
      <4>1. CASE n = 0
        BY <1>2, <4>1 DEF EndOf
      <4>2. CASE n # 0
        <5>1. n \in 1..n
          BY <1>2, <4>2
        <5>2. EndOf(op, n) <= first
          BY <5>1, BatchFacts DEF n, first
        <5> QED
          BY <1>2, <1>9, <5>2
      <4> QED
        BY <4>1, <4>2
    <3>3. Holds(o, first, s)
      <4>1. Len(o.actions) = first + Len(s.actions) /\ Len(o.actions) \in Nat
        BY <1>7, <1>8, FineFacts DEF AllAdded
      <4>2. Len(s.actions) \in Nat
        BY <1>6, SeqFacts
      <4> QED
        BY <1>2, <1>7, <4>1, <4>2 DEF Holds, AllAdded
    <3>4. Covers(of, o, auth, first)
      BY <1>3, <3>3 DEF Covers
    <3>5. i - 1 = n
      BY <1>2, <2>3
    <3> QED
      BY <1>2, <1>3, <3>1, <3>2, <3>4, <3>5
  <2> QED
    BY <1>2, <2>1, <2>2, <2>3
<1>11. BatchSound(of, o)
  BY <1>4, <1>8, <1>10 DEF BatchSound, Fine
<1> QED
  BY <1>1, <1>11


(* A batch that is sent.                                                   *)
LEMMA Committed ==
  ASSUME NEW of, \A s \in of : SignedSound(s), NEW op, BatchSound(of, op),
         NEW n \in Networks, NEW r
  PROVE  SentSound(of, [kind |-> "operate", network |-> n, sender |-> r,
                        accounts |-> op.accounts, actions |-> op.actions,
                        auths |-> GenerateAuthData(op)])
<1> DEFINE g == GenerateAuthData(op)
           tx == [kind |-> "operate", network |-> n, sender |-> r,
                  accounts |-> op.accounts, actions |-> op.actions, auths |-> g]
<1>1. AuthsSound(of, op, g, Len(op.actions))
  BY GeneratedFacts
<1> HIDE DEF g
<1>2. /\ tx.kind = "operate" /\ tx.network = n /\ tx.accounts = op.accounts
      /\ tx.actions = op.actions /\ tx.auths = g
  OBVIOUS
<1> HIDE DEF tx
<1>3. Built(op)
  BY DEF BatchSound
<1>4. Built(tx)
  BY <1>2, <1>3 DEF Built, IsBatch
<1>5. Counted(g) /\ IsSeq(g) /\ DOMAIN g = 1..Len(g)
  BY <1>1, SeqFacts DEF AuthsSound, Counted
<1>6. AllCovered(tx)
  BY <1>1, <1>2 DEF AuthsSound, AllCovered
<1>7. ASSUME NEW i \in DOMAIN g, IsSigned(g[i]) PROVE Covers(of, tx, g[i], FirstOf(g, i) - 1)
  <2>1. Covers(of, op, g[i], FirstOf(g, i) - 1)
    BY <1>1, <1>5, <1>7 DEF AuthsSound
  <2> QED
    BY <1>2, <2>1, SameCovers
<1>8. SentSound(of, tx)
  BY <1>2, <1>4, <1>5, <1>6, <1>7 DEF SentSound, Counted
<1> QED
  BY <1>8 DEF tx, g

-----------------------------------------------------------------------------
(* Sound holds at the start, and every step keeps it.                      *)
LEMMA InitSound == Init => Sound
<1> SUFFICES ASSUME Init PROVE Sound
  OBVIOUS
<1>1. network \in Networks /\ now \in Nat /\ signed = {} /\ pending = {}
  BY FlowAssumption DEF Init
<1>2. /\ DOMAIN batch = Relayers /\ DOMAIN chain = Networks /\ DOMAIN ended = Networks
      /\ \A r \in Relayers : batch[r] = NewBatch
  BY DEF Init
<1>3. \A r \in Relayers : BatchSound(signed, batch[r])
  BY <1>2, NewSound
<1>4. Remembered
  BY DEF Init, Remembered
<1> QED
  BY <1>1, <1>2, <1>3, <1>4 DEF Sound

LEMMA NextSound == Sound /\ [Next]_vars => Sound'
<1> SUFFICES ASSUME Sound, [Next]_vars PROVE Sound'
  OBVIOUS
<1>1. ASSUME NEW offer \in Offers, NEW method \in Methods, Sign(offer, method)
      PROVE  Sound'
  <2> DEFINE op == Drafted(offer.draft)
             operation == createSignableOperation(op, offer.header)
             s == Over(operation, [signature |-> signOperation(ClientDomain, operation, method),
                                   domain |-> ClientDomain])
  <2>1. /\ operation.header.signer \in Owners /\ signed' = signed \cup {s}
        /\ UNCHANGED <<network, networkId, batch, pending, now, chain, ended>>
    BY <1>1 DEF Sign
  <2>2. Fine(op) /\ offer.header \in OperationHeader
    BY DraftFacts, FlowAssumption
  <2>3. SignedSound(s)
    BY <2>1, <2>2, SignedSoundMade
  <2> HIDE DEF s
  <2>4. signed \subseteq signed'
    BY <2>1
  <2>5. \A t \in signed' : SignedSound(t)
    BY <2>1, <2>3 DEF Sound
  <2>6. \A r \in Relayers : BatchSound(signed', batch'[r])
    BY <2>1, <2>4, BatchMore DEF Sound
  <2>7. \A tx \in pending' : SentSound(signed', tx)
    BY <2>1, <2>4, SentMore DEF Sound
  <2> QED
    BY <2>1, <2>5, <2>6, <2>7 DEF Sound, Remembered
<1>2. ASSUME NEW s \in signed, CancelOperation(s) PROVE Sound'
  <2> DEFINE args == cancelOperation(s)
             tx == [kind |-> "cancel", network |-> network, sender |-> s.header.signer,
                    accounts |-> args.accounts, actions |-> args.actions,
                    auths |-> <<args.auth>>, operation |-> s]
  <2>1. /\ pending' = pending \cup {tx}
        /\ UNCHANGED <<network, networkId, signed, batch, now, chain, ended>>
    BY <1>2 DEF CancelOperation
  <2>2. /\ tx.kind = "cancel" /\ tx.network = network /\ tx.sender = s.header.signer
        /\ tx.accounts = args.accounts /\ tx.actions = args.actions
        /\ tx.auths = <<args.auth>> /\ tx.operation = s
    <3> HIDE DEF args
    <3> QED
      OBVIOUS
  <2> HIDE DEF tx
  <2>3. SentSound(signed, tx)
    BY <2>2 DEF SentSound, Sound
  <2> QED
    BY <2>1, <2>3 DEF Sound, Remembered
<1>3. ASSUME NEW r \in Relayers, NEW s \in signed, AddSigned(r, s) PROVE Sound'
  <2>1. /\ batch' = [batch EXCEPT ![r] = addSignedOperation(batch[r], s)]
        /\ UNCHANGED <<network, networkId, signed, pending, now, chain, ended>>
    BY <1>3 DEF AddSigned
  <2>2. BatchSound(signed, addSignedOperation(batch[r], s))
    BY BatchAdds DEF Sound
  <2>3. \A q \in Relayers : BatchSound(signed, batch'[q])
    BY <2>1, <2>2 DEF Sound
  <2> QED
    BY <2>1, <2>3 DEF Sound, Remembered
<1>4. ASSUME NEW r \in Relayers, Commit(r) PROVE Sound'
  <2> DEFINE op == batch[r]
             tx == [kind |-> "operate", network |-> network, sender |-> r,
                    accounts |-> op.accounts, actions |-> op.actions,
                    auths |-> GenerateAuthData(op)]
  <2>1. /\ pending' = pending \cup {tx}
        /\ batch' = [batch EXCEPT ![r] = NewBatch]
        /\ UNCHANGED <<network, networkId, signed, now, chain, ended>>
    BY <1>4 DEF Commit
  <2>2. SentSound(signed, tx)
    BY Committed DEF Sound
  <2> HIDE DEF tx
  <2>3. \A q \in Relayers : BatchSound(signed, batch'[q])
    BY <2>1, NewSound DEF Sound
  <2> QED
    BY <2>1, <2>2, <2>3 DEF Sound, Remembered
<1>5. ASSUME NEW r \in Relayers, NEW x \in OwnItems[r], AddOwn(r, x) PROVE Sound'
  <2>1. /\ batch' = [batch EXCEPT ![r] = Build(batch[r], x)]
        /\ UNCHANGED <<network, networkId, signed, pending, now, chain, ended>>
    BY <1>5 DEF AddOwn
  <2>2. IsItem(x)
    BY FlowAssumption
  <2>3. BatchSound(signed, Build(batch[r], x))
    BY <2>2, BatchBuilds DEF Sound
  <2>4. \A q \in Relayers : BatchSound(signed, batch'[q])
    BY <2>1, <2>3 DEF Sound
  <2> QED
    BY <2>1, <2>4 DEF Sound, Remembered
<1>6. ASSUME NEW tx \in pending, Run(tx) PROVE Sound'
  <2> DEFINE n == tx.network
             hashes == SignedHashes(n, tx)
  <2>1. /\ chain' = [chain EXCEPT ![n] = Operated(chain[n], n, tx)]
        /\ pending' = pending \ {tx}
        /\ ended' = [ended EXCEPT ![n] = ended[n] \cup hashes]
        /\ UNCHANGED <<network, networkId, signed, batch, now>>
    BY <1>6 DEF Run
  <2>2. n \in Networks
    BY DEF Sound, SentSound
  <2>3. /\ Operated(chain[n], n, tx).operational = chain[n].operational
        /\ Operated(chain[n], n, tx).invalidated = chain[n].invalidated \cup hashes
        /\ Operated(chain[n], n, tx) =
             [operational |-> chain[n].operational,
              invalidated |-> chain[n].invalidated \cup hashes]
    BY <2>2 DEF Operated, Sound, Remembered
  <2> HIDE DEF hashes, n
  <2>4. Remembered'
    BY <2>1, <2>2, <2>3 DEF Sound, Remembered
  <2> QED
    BY <2>1, <2>4 DEF Sound
<1>7. ASSUME NEW tx \in pending, Cancel(tx) PROVE Sound'
  <2> DEFINE n == tx.network
             hash == CancelHash(n, tx)
  <2>1. /\ chain' = [chain EXCEPT ![n] = Cancelled(chain[n], n, tx)]
        /\ pending' = pending \ {tx}
        /\ ended' = [ended EXCEPT ![n] = ended[n] \cup {hash}]
        /\ UNCHANGED <<network, networkId, signed, batch, now>>
    BY <1>7 DEF Cancel
  <2>2. n \in Networks
    BY DEF Sound, SentSound
  <2>3. Cancelled(chain[n], n, tx) =
          [operational |-> chain[n].operational,
           invalidated |-> chain[n].invalidated \cup {hash}]
    BY <2>2 DEF Cancelled, Sound, Remembered
  <2> HIDE DEF hash, n
  <2>4. Remembered'
    BY <2>1, <2>2, <2>3 DEF Sound, Remembered
  <2> QED
    BY <2>1, <2>4 DEF Sound
<1>8. ASSUME NEW tx \in pending, Fail(tx) PROVE Sound'
  BY <1>8 DEF Fail, Sound, Remembered
<1>9. CASE Tick
  BY <1>9 DEF Tick, Sound, Remembered
<1>10. ASSUME NEW n \in Networks, SetProvider(n) PROVE Sound'
  BY <1>10 DEF SetProvider, Sound, Remembered
<1>11. ASSUME NEW n \in Networks, NEW operational \in BOOLEAN, SetOperational(n, operational)
       PROVE  Sound'
  <2>1. /\ chain' = [chain EXCEPT ![n].operational = operational]
        /\ UNCHANGED <<network, networkId, signed, batch, pending, now, ended>>
    BY <1>11 DEF SetOperational
  <2>2. Remembered'
    BY <2>1 DEF Sound, Remembered
  <2> QED
    BY <2>1, <2>2 DEF Sound
<1>12. CASE UNCHANGED vars
  BY <1>12 DEF vars, Sound, Remembered
<1> QED
  BY <1>1, <1>2, <1>3, <1>4, <1>5, <1>6, <1>7, <1>8, <1>9, <1>10, <1>11, <1>12 DEF Next

(* Sound is an invariant.                                                  *)
THEOREM SoundInvariant == Spec => []Sound
<1> QED
  BY InitSound, NextSound, PTL DEF Spec

-----------------------------------------------------------------------------
(* What the proxy computes of what was signed.                             *)
LEMMA HashIs ==
  ASSUME NEW n, NEW tx, NEW auth, NEW first \in Nat \ {0}, NEW s, IsSeq(s.actions),
         auth.header = s.header, auth.numActions = Len(s.actions), Holds(tx, first - 1, s)
  PROVE  ProxyOperationHash(n, tx.accounts, tx.actions, auth, first) =
           getOperationHash(EIP712_DOMAIN_HASH(n), s)
<1> DEFINE m == Len(s.actions)
           mine  == [k \in 1..auth.numActions |-> Resolved(tx, tx.actions[first + k - 1])]
           yours == [k \in DOMAIN s.actions |-> getActionHash(s.actions[k])]
<1>1. m \in Nat /\ DOMAIN s.actions = 1..m
  BY SeqFacts
<1>2. ASSUME NEW k \in 1..m
      PROVE  Resolved(tx, tx.actions[first + k - 1]) = getActionHash(s.actions[k])
  <2>1. first + k - 1 = (first - 1) + k
    BY <1>1
  <2>2. Resolved(tx, tx.actions[(first - 1) + k]) = getActionHash(s.actions[k])
    BY <1>1 DEF Holds
  <2> QED
    BY <2>1, <2>2
<1>3. mine = yours
  BY <1>1, <1>2
<1>4. ProxyOperationHash(n, tx.accounts, tx.actions, auth, first) =
        getEIP712Hash(EIP712_DOMAIN_HASH(n), "Operation",
                      [actions |-> mine, header |-> auth.header])
  BY DEF ProxyOperationHash, Resolved
<1>5. getOperationHash(EIP712_DOMAIN_HASH(n), s) =
        getEIP712Hash(EIP712_DOMAIN_HASH(n), "Operation",
                      [actions |-> yours, header |-> s.header])
  BY DEF getOperationHash, getActionsHash
<1> HIDE DEF mine, yours
<1> QED
  BY <1>3, <1>4, <1>5

LEMMA SentFacts ==
  ASSUME Sound, NEW tx \in pending, tx.kind = "operate"
  PROVE  /\ Counted(tx.auths) /\ Built(tx) /\ AllCovered(tx)
         /\ Len(tx.auths) \in Nat /\ DOMAIN tx.auths = 1..Len(tx.auths)
         /\ \A i \in DOMAIN tx.auths : FirstOf(tx.auths, i) \in Nat \ {0}
<1>1. Counted(tx.auths) /\ Built(tx) /\ AllCovered(tx)
  BY DEF Sound, SentSound, Counted
<1>2. Len(tx.auths) \in Nat /\ DOMAIN tx.auths = 1..Len(tx.auths)
  BY <1>1, SeqFacts DEF Counted
<1> QED
  BY <1>1, <1>2, FirstFacts

(* An authorization with a signature is that of an operation somebody      *)
(* signed, and the proxy computes its hash, in its own domain.             *)
CameFrom(tx, i, s) ==
  /\ SignedSound(s)
  /\ tx.auths[i].header = s.header /\ tx.auths[i].signature = s.signature
  /\ tx.auths[i].numActions = Len(s.actions)
  /\ Holds(tx, FirstOf(tx.auths, i) - 1, s)
  /\ \A n : HashOf(n, tx, i) = getOperationHash(EIP712_DOMAIN_HASH(n), s)

LEMMA ComesFrom ==
  ASSUME Sound, NEW tx \in pending, tx.kind = "operate", NEW i \in DOMAIN tx.auths,
         IsSigned(tx.auths[i])
  PROVE  \E s \in signed : CameFrom(tx, i, s)
<1>1. Covers(signed, tx, tx.auths[i], FirstOf(tx.auths, i) - 1)
  BY DEF Sound, SentSound
<1>2. PICK s \in signed :
        /\ tx.auths[i].header = s.header /\ tx.auths[i].signature = s.signature
        /\ tx.auths[i].numActions = Len(s.actions)
        /\ Holds(tx, FirstOf(tx.auths, i) - 1, s)
  BY <1>1 DEF Covers
<1>3. SignedSound(s)
  BY DEF Sound
<1>4. FirstOf(tx.auths, i) \in Nat \ {0}
  BY SentFacts
<1>5. \A n : HashOf(n, tx, i) = getOperationHash(EIP712_DOMAIN_HASH(n), s)
  BY <1>2, <1>3, <1>4, HashIs DEF HashOf, SignedSound
<1> QED
  BY <1>2, <1>3, <1>5 DEF CameFrom

(* The same of the single operation a cancellation holds.                  *)
LEMMA CancelHashIs ==
  ASSUME NEW n, NEW tx, NEW s, IsSeq(s.actions), tx.auths[1].header = s.header,
         tx.auths[1].numActions = Len(s.actions), Holds(tx, 0, s)
  PROVE  CancelHash(n, tx) = getOperationHash(EIP712_DOMAIN_HASH(n), s)
<1> DEFINE first == 1
           auth == tx.auths[1]
<1>1. first \in Nat \ {0} /\ Holds(tx, first - 1, s)
  OBVIOUS
<1>2. auth.header = s.header /\ auth.numActions = Len(s.actions)
  OBVIOUS
<1> HIDE DEF first, auth
<1>3. ProxyOperationHash(n, tx.accounts, tx.actions, auth, first) =
        getOperationHash(EIP712_DOMAIN_HASH(n), s)
  BY <1>1, <1>2, HashIs
<1> QED
  BY <1>3 DEF CancelHash, first, auth

(* Operations with the same hash are the same: same domain, actions, and   *)
(* header.                                                                 *)
LEMMA SameHash ==
  ASSUME NEW d, NEW e, NEW s, NEW t, getOperationHash(d, s) = getOperationHash(e, t)
  PROVE  d = e /\ s.header = t.header
<1> DEFINE x == [actions |-> getActionsHash(s.actions), header |-> s.header]
           y == [actions |-> getActionsHash(t.actions), header |-> t.header]
           f == [domain |-> d, type |-> "Operation", struct |-> x]
           g == [domain |-> e, type |-> "Operation", struct |-> y]
<1>1. f = g
  BY DEF getOperationHash, getEIP712Hash
<1>2. f.domain = d /\ g.domain = e /\ f.struct = x /\ g.struct = y
  OBVIOUS
<1>3. x.header = s.header /\ y.header = t.header
  OBVIOUS
<1> HIDE DEF f, g, x, y
<1> QED
  BY <1>1, <1>2, <1>3

-----------------------------------------------------------------------------
(* The properties.                                                         *)

(* What Compatibility and typed data sign, the client confirms.            *)
LEMMA SoundVerifies == Sound => SignaturesVerify
<1> SUFFICES ASSUME Sound, NEW method \in Trustworthy
             PROVE  /\ \A s \in signed :
                         LET hash   == getOperationHash(ClientDomain, s)
                             signer == s.header.signer
                         IN  /\ HasValidSignature(hash, signOperation(ClientDomain, s, method), signer)
                             /\ cancelOperationByHashHasValidSignature(ClientDomain, hash,
                                  signCancelOperationByHash(ClientDomain, hash, signer, method), signer)
                    /\ \A owner \in Owners : \A expiration \in (now + 1)..(MaxTime + 1) :
                         walletLoginIsValid(networkId, expiration,
                           signLogin(networkId, expiration, owner, method, now), owner, now)
  BY DEF SignaturesVerify
<1>1. ASSUME NEW s \in signed, NEW hash, NEW signer, signer = s.header.signer,
             hash = getOperationHash(ClientDomain, s)
      PROVE  /\ HasValidSignature(hash, signOperation(ClientDomain, s, method), signer)
             /\ cancelOperationByHashHasValidSignature(ClientDomain, hash,
                  signCancelOperationByHash(ClientDomain, hash, signer, method), signer)
  <2>1. signer \in Owners
    BY <1>1 DEF Sound, SignedSound
  <2>2. ASSUME NEW h
        PROVE  HasValidSignature(h,
                 SignWith(signer, h, method,
                          HasValidSignature(h, UnsafeSignature(signer, h), signer)), signer)
    BY <2>1, Verifies
  <2>3. signOperation(ClientDomain, s, method) =
          SignWith(signer, hash, method,
                   HasValidSignature(hash, UnsafeSignature(signer, hash), signer))
    BY <1>1 DEF signOperation
  <2> DEFINE c == operationHashToCancelOperationHash(ClientDomain, hash)
  <2>4. signCancelOperationByHash(ClientDomain, hash, signer, method) =
          SignWith(signer, c, method,
                   HasValidSignature(c, UnsafeSignature(signer, c), signer))
    BY DEF signCancelOperationByHash
  <2> QED
    BY <2>2, <2>3, <2>4 DEF cancelOperationByHashHasValidSignature
<1>2. ASSUME NEW owner \in Owners, NEW expiration \in (now + 1)..(MaxTime + 1)
      PROVE  walletLoginIsValid(networkId, expiration,
               signLogin(networkId, expiration, owner, method, now), owner, now)
  <2> DEFINE hash == getWalletLoginHash(networkId, expiration)
             raw == UnsafeSignature(owner, hash)
             valid == walletLoginIsValid(networkId, expiration, raw, owner, now)
  <2>1. expiration > now
    BY FlowAssumption DEF Sound
  <2>2. valid <=> HasValidSignature(hash, raw, owner)
    BY <2>1 DEF walletLoginIsValid
  <2>3. signLogin(networkId, expiration, owner, method, now) = SignWith(owner, hash, method, valid)
    BY DEF signLogin
  <2> HIDE DEF valid
  <2>4. HasValidSignature(hash, SignWith(owner, hash, method, valid), owner)
    BY <2>2, Verifies
  <2> QED
    BY <2>1, <2>3, <2>4 DEF walletLoginIsValid
<1> QED
  BY <1>1, <1>2

(* Every operation, cancellation and login signed by Compatibility or as   *)
(* typed data is one the client itself confirms.                           *)
THEOREM SignaturesAreConfirmed == Spec => []SignaturesVerify
<1> QED
  BY SoundInvariant, SoundVerifies, PTL

LEMMA SoundOnce ==
  ASSUME Sound
  PROVE  \A tx \in pending : Run(tx) =>
           /\ SignedHashes(tx.network, tx) \cap ended[tx.network] = {}
           /\ \A i, j \in DOMAIN tx.auths :
                IsSigned(tx.auths[i]) /\ IsSigned(tx.auths[j]) /\ i # j
                  => HashOf(tx.network, tx, i) # HashOf(tx.network, tx, j)
<1> SUFFICES ASSUME NEW tx \in pending, Run(tx)
             PROVE  /\ SignedHashes(tx.network, tx) \cap ended[tx.network] = {}
                    /\ \A i, j \in DOMAIN tx.auths :
                         IsSigned(tx.auths[i]) /\ IsSigned(tx.auths[j]) /\ i # j
                           => HashOf(tx.network, tx, i) # HashOf(tx.network, tx, j)
  OBVIOUS
<1> DEFINE n == tx.network
<1>1. /\ tx.kind = "operate"
      /\ \A i \in DOMAIN tx.auths : Unused(chain[n], n, tx, i)
  BY DEF Run, OperateAccepted, AuthAccepted
<1>2. n \in Networks /\ ended[n] \subseteq chain[n].invalidated
  BY DEF Sound, SentSound, Remembered
<1>3. Len(tx.auths) \in Nat /\ DOMAIN tx.auths = 1..Len(tx.auths)
  BY <1>1, SentFacts
<1>4. \A i \in DOMAIN tx.auths : IsSigned(tx.auths[i]) =>
        /\ HashOf(n, tx, i) \notin chain[n].invalidated
        /\ \A j \in 1..(i - 1) : IsSigned(tx.auths[j]) => HashOf(n, tx, j) # HashOf(n, tx, i)
  BY <1>1 DEF Unused
<1>5. SignedHashes(n, tx) \cap ended[n] = {}
  BY <1>2, <1>4 DEF SignedHashes
<1>6. ASSUME NEW i \in DOMAIN tx.auths, NEW j \in DOMAIN tx.auths,
             IsSigned(tx.auths[i]), IsSigned(tx.auths[j]), i # j
      PROVE  HashOf(n, tx, i) # HashOf(n, tx, j)
  <2>1. j \in 1..(i - 1) \/ i \in 1..(j - 1)
    BY <1>3, <1>6
  <2> QED
    BY <1>4, <1>6, <2>1
<1> QED
  BY <1>5, <1>6

(* No signed operation runs twice on a network, or after its cancellation. *)
THEOREM OperationsRunOnce == Spec => RunsAtMostOnce
<1>1. Sound /\ [Next]_vars =>
        [\A tx \in pending : Run(tx) =>
           /\ SignedHashes(tx.network, tx) \cap ended[tx.network] = {}
           /\ \A i, j \in DOMAIN tx.auths :
                IsSigned(tx.auths[i]) /\ IsSigned(tx.auths[j]) /\ i # j
                  => HashOf(tx.network, tx, i) # HashOf(tx.network, tx, j)]_vars
  BY SoundOnce
<1> QED
  BY <1>1, SoundInvariant, PTL DEF Spec, RunsAtMostOnce

(* Every action of a transaction is covered by one of its authorizations.  *)
LEMMA Located ==
  ASSUME Sound, NEW tx \in pending, tx.kind = "operate", NEW k \in DOMAIN tx.actions
  PROVE  \E i \in DOMAIN tx.auths :
           k \in FirstOf(tx.auths, i)..(FirstOf(tx.auths, i) + tx.auths[i].numActions - 1)
<1> DEFINE g == tx.auths
           n == Len(g)
           first(i) == FirstOf(g, i)
           m == Len(tx.actions)
           here(i) == k \in first(i)..(first(i) + g[i].numActions - 1)
<1>1. Counted(g) /\ n \in Nat /\ DOMAIN g = 1..n /\ first(n + 1) = m + 1
  BY SentFacts DEF AllCovered
<1>2. m \in Nat /\ k \in 1..m
  <2>1. IsSeq(tx.actions)
    BY SentFacts DEF Built
  <2> QED
    BY <2>1, SeqFacts
<1>3. /\ first(1) = 1
      /\ \A i \in 1..n : first(i) \in Nat /\ first(i + 1) = first(i) + g[i].numActions
  BY <1>1, FirstFacts
<1>4. \A i \in 1..n : g[i].numActions \in Nat
  BY <1>1 DEF Counted
<1> HIDE DEF g, n, m, first
<1>5. SUFFICES ASSUME \A i \in 1..n : ~here(i) PROVE FALSE
  BY <1>1 DEF g, first
<1> DEFINE G == {j \in 0..n : first(j + 1) <= k}
<1>6. G \in SUBSET (0..n) /\ 0 \in G
  BY <1>1, <1>2, <1>3
<1>7. ASSUME NEW j \in 1..n, j - 1 \in G PROVE j \in G
  <2>1. j - 1 + 1 = j
    BY <1>1
  <2>2. first(j) <= k /\ first(j) \in Nat /\ first(j + 1) = first(j) + g[j].numActions
    BY <1>3, <1>7, <2>1
  <2>3. ~here(j)
    BY <1>5
  <2>4. first(j + 1) <= k
    BY <1>2, <1>4, <2>2, <2>3
  <2> QED
    BY <1>1, <2>4
<1>8. G = 0..n
  <2> HIDE DEF G
  <2> QED
    BY <1>1, <1>6, <1>7, AllReached
<1>9. first(n + 1) <= k
  BY <1>1, <1>8
<1> QED
  BY <1>1, <1>2, <1>9

(* Whoever the proxy takes for the signer of a signed operation is the one *)
(* who signed it, for this network.                                        *)
LEMMA TrueSigner ==
  ASSUME Sound, NEW tx \in pending, tx.kind = "operate", NEW i \in DOMAIN tx.auths,
         IsSigned(tx.auths[i]), NEW n, SignatureAccepted(n, tx, i),
         NEW s \in signed, CameFrom(tx, i, s)
  PROVE  SignerOf(n, tx, i) = s.signature.by /\ MadeFor(s, n)
<1> DEFINE hash == HashOf(n, tx, i)
           sig == s.signature
<1>1. /\ SignedSound(s) /\ tx.auths[i].header = s.header /\ tx.auths[i].signature = sig
      /\ hash = getOperationHash(EIP712_DOMAIN_HASH(n), s)
  BY DEF CameFrom
<1>2. /\ s.header.signer \in Owners /\ sig.by = s.header.signer /\ sig.low = FALSE
  BY <1>1 DEF SignedSound
<1>3. PICK prefix : sig.over = <<prefix, getOperationHash(s.domain, s)>>
  BY <1>1 DEF SignedSound
<1>4. SignerOf(n, tx, i) = s.header.signer
  BY <1>1 DEF SignatureAccepted
<1>5. SignerOf(n, tx, i) = ecRecoverTypedSignature(hash, sig)
  BY <1>1, <1>2 DEF SignerOf, Recover
<1>6. s.header.signer # ZERO
  BY <1>2, ZeroAssumption
<1> HIDE DEF hash, sig
<1>7. sig.over = <<sig.type, hash>>
  BY <1>4, <1>5, <1>6 DEF ecRecoverTypedSignature
<1>8. hash = getOperationHash(s.domain, s)
  BY <1>3, <1>7
<1>9. s.domain = EIP712_DOMAIN_HASH(n)
  <2> DEFINE d == s.domain
             e == EIP712_DOMAIN_HASH(n)
  <2>1. getOperationHash(d, s) = getOperationHash(e, s)
    BY <1>1, <1>8
  <2> HIDE DEF d, e
  <2>2. d = e
    BY <2>1, SameHash
  <2> QED
    BY <2>2 DEF d, e
<1> QED
  BY <1>2, <1>4, <1>9 DEF MadeFor, sig

LEMMA SoundAuthorized ==
  ASSUME Sound, NEW tx \in pending, Run(tx), NEW k \in DOMAIN tx.actions
  PROVE  LET a == tx.actions[k]
         IN  /\ Authorized(tx, a, tx.accounts[a.accountId + 1].owner)
             /\ a.actionType = "Transfer" =>
                  Authorized(tx, a, tx.accounts[a.otherAccountId + 1].owner)
<1> DEFINE a == tx.actions[k]
           n == tx.network
<1>1. /\ tx.kind = "operate"
      /\ \A i \in DOMAIN tx.auths : AuthAccepted(chain[n], n, tx, i, now)
  BY DEF Run, OperateAccepted
<1>2. PICK i \in DOMAIN tx.auths :
        k \in FirstOf(tx.auths, i)..(FirstOf(tx.auths, i) + tx.auths[i].numActions - 1)
  BY <1>1, Located
<1> DEFINE signer == SignerOf(n, tx, i)
           first == FirstOf(tx.auths, i)
           count == tx.auths[i].numActions
<1>3. /\ HeaderAccepted(tx.auths[i], tx.sender, now)
      /\ SignatureAccepted(n, tx, i)
      /\ ActionAccepted(tx, a, signer)
  BY <1>1, <1>2 DEF AuthAccepted
<1>4. ASSUME NEW owner, validateAccountOwner(owner, signer, tx.sender)
      PROVE  Authorized(tx, a, owner)
  <2>1. Speaks(owner, tx.sender) \/ Speaks(owner, signer)
    BY <1>4 DEF validateAccountOwner, Speaks
  <2>2. CASE Speaks(owner, tx.sender)
    BY <2>2 DEF Authorized
  <2>3. CASE ~IsSigned(tx.auths[i])
    BY <2>1, <2>3 DEF Authorized, SignerOf
  <2>4. CASE IsSigned(tx.auths[i]) /\ Speaks(owner, signer)
    <3>1. PICK s \in signed : CameFrom(tx, i, s)
      BY <1>1, <2>4, ComesFrom
    <3>2. signer = s.signature.by /\ MadeFor(s, n)
      BY <1>1, <1>3, <2>4, <3>1, TrueSigner
    <3>3. Speaks(owner, s.signature.by)
      BY <2>4, <3>2
    <3>4. /\ s.header.expiration = 0 \/ s.header.expiration >= now
          /\ s.header.sender \in {ZERO, tx.sender}
      BY <1>3, <3>1 DEF HeaderAccepted, CameFrom
    <3>5. \E j \in DOMAIN s.actions : getActionHash(s.actions[j]) = Resolved(tx, a)
      <4>1. /\ IsSeq(s.actions) /\ count = Len(s.actions) /\ Holds(tx, first - 1, s)
        BY <3>1 DEF CameFrom, SignedSound
      <4>2. first \in Nat \ {0} /\ Len(s.actions) \in Nat
        BY <1>1, <4>1, SentFacts, SeqFacts
      <4> HIDE DEF first
      <4> DEFINE j == k - first + 1
      <4>3. k \in first..(first + Len(s.actions) - 1)
        BY <1>2, <4>1 DEF first
      <4>4. j \in 1..Len(s.actions) /\ (first - 1) + j = k
        BY <4>2, <4>3
      <4>5. j \in DOMAIN s.actions
        BY <4>1, <4>4, SeqFacts
      <4> HIDE DEF j
      <4>6. Resolved(tx, tx.actions[(first - 1) + j]) = getActionHash(s.actions[j])
        BY <4>1, <4>5 DEF Holds
      <4> QED
        BY <4>4, <4>5, <4>6
    <3> HIDE DEF a
    <3> QED
      BY <3>2, <3>3, <3>4, <3>5 DEF Authorized
  <2> QED
    BY <2>1, <2>2, <2>3, <2>4
<1> HIDE DEF signer, a
<1>5. /\ validateAccountOwner(tx.accounts[a.accountId + 1].owner, signer, tx.sender)
      /\ a.actionType = "Transfer" =>
           validateAccountOwner(tx.accounts[a.otherAccountId + 1].owner, signer, tx.sender)
  BY <1>3 DEF ActionAccepted
<1> QED
  BY <1>4, <1>5 DEF a

(* What runs on an account its owner, or an operator the owner trusts,     *)
(* sent or signed for this network, unexpired and open to this sender.     *)
THEOREM AuthorityIsKept == Spec => OnlyAuthorizedRuns
<1>1. Sound /\ [Next]_vars =>
        [\A tx \in pending : Run(tx) =>
           \A i \in DOMAIN tx.actions :
             LET a == tx.actions[i]
             IN  /\ Authorized(tx, a, tx.accounts[a.accountId + 1].owner)
                 /\ a.actionType = "Transfer" =>
                      Authorized(tx, a, tx.accounts[a.otherAccountId + 1].owner)]_vars
  BY SoundAuthorized
<1> QED
  BY <1>1, SoundInvariant, PTL DEF Spec, OnlyAuthorizedRuns

LEMMA SoundAccepted == Sound => ValidMeansAccepted
<1> SUFFICES ASSUME Sound PROVE ValidMeansAccepted
  OBVIOUS
<1>1. WellFormed
  <2>1. ASSUME NEW s \in signed
        PROVE  /\ \A i \in DOMAIN s.actions : IsAction(s.actions[i])
               /\ s.header \in OperationHeader /\ s.signature.by = s.header.signer
    BY DEF Sound, SignedSound, Signable
  <2>2. ASSUME NEW tx \in pending, tx.kind = "operate" PROVE IsBatch(tx) /\ AllCovered(tx)
    BY <2>2, SentFacts DEF Built
  <2> QED
    BY <2>1, <2>2 DEF WellFormed
<1>2. ASSUME NEW tx \in pending, tx.kind = "operate", NEW i \in DOMAIN tx.auths,
             NEW s \in signed, s.signature = tx.auths[i].signature,
             MadeFor(s, tx.network), operationHasValidSignature(s.domain, s),
             IsSigned(tx.auths[i])
      PROVE  SignerOf(tx.network, tx, i) = tx.auths[i].header.signer
  <2> DEFINE n == tx.network
             hash == HashOf(n, tx, i)
             sig == s.signature
             mine == getOperationHash(s.domain, s)
  <2>1. PICK t \in signed : CameFrom(tx, i, t)
    BY <1>2, ComesFrom
  <2> DEFINE yours == getOperationHash(t.domain, t)
  <2>2. /\ SignedSound(t) /\ tx.auths[i].header = t.header
        /\ t.signature = sig /\ hash = getOperationHash(EIP712_DOMAIN_HASH(n), t)
    BY <1>2, <2>1 DEF CameFrom
  <2>3. \E p : sig.over = <<p, mine>>
    BY DEF Sound, SignedSound
  <2>4. (\E q : sig.over = <<q, yours>>) /\ sig.low = FALSE
    BY <2>2 DEF SignedSound
  <2>5. mine = yours
    <3> HIDE DEF mine, yours, sig
    <3> QED
      BY <2>3, <2>4
  <2>6. s.domain = t.domain /\ s.header = t.header
    BY <2>5, SameHash
  <2>7. hash = mine
    BY <1>2, <2>2, <2>5, <2>6 DEF MadeFor
  <2>8. ecRecoverTypedSignature(mine, sig) = s.header.signer
    BY <1>2 DEF operationHasValidSignature, HasValidSignature
  <2>9. SignerOf(n, tx, i) = ecRecoverTypedSignature(hash, sig)
    BY <1>2, <2>4 DEF SignerOf, Recover
  <2> QED
    BY <2>2, <2>6, <2>7, <2>8, <2>9
<1>3. ASSUME NEW tx \in pending, tx.kind = "operate", NEW i \in DOMAIN tx.auths
      PROVE  LET of == {s \in signed : s.signature = tx.auths[i].signature}
             IN  (\E s \in of : MadeFor(s, tx.network) /\ operationHasValidSignature(s.domain, s))
                   => SignatureAccepted(tx.network, tx, i)
  BY <1>2, <1>3 DEF SignatureAccepted
<1> QED
  BY <1>1, <1>3 DEF ValidMeansAccepted

(* What the client confirms as validly signed the proxy accepts.           *)
THEOREM ValidIsAccepted == Spec => []ValidMeansAccepted
<1> QED
  BY SoundInvariant, SoundAccepted, PTL


-----------------------------------------------------------------------------
(* Cancellations: the accounts of the actions, one after the other.        *)
CancelPiece(a) ==
  IF a.secondaryAccount.owner = ZERO THEN <<a.primaryAccount>>
  ELSE <<a.primaryAccount, a.secondaryAccount>>

Joins(s, p) ==
  /\ p[0] = <<>>
  /\ \A k \in 1..Len(s) : p[k] = p[k - 1] \o CancelPiece(s[k])
  /\ \A k \in 0..Len(s) : p[k] = CancelAccounts(SubSeq(s, 1, k))
  /\ p[Len(s)] = CancelAccounts(s)

LEMMA PieceFacts ==
  ASSUME NEW a
  PROVE  /\ IsSeq(CancelPiece(a)) /\ Len(CancelPiece(a)) \in {1, 2}
         /\ CancelPiece(a)[1] = a.primaryAccount
         /\ a.secondaryAccount.owner # ZERO =>
              Len(CancelPiece(a)) = 2 /\ CancelPiece(a)[2] = a.secondaryAccount
<1> DEFINE x == a.primaryAccount
           y == a.secondaryAccount
           none == a.secondaryAccount.owner = ZERO
<1>1. CancelPiece(a) = IF none THEN <<x>> ELSE <<x, y>>
  BY DEF CancelPiece
<1> HIDE DEF x, y, none
<1>2. <<x>> = [i \in 1..1 |-> <<x>>[i]] /\ <<x, y>> = [i \in 1..2 |-> <<x, y>>[i]]
  OBVIOUS
<1>3. /\ IsSeq(<<x>>) /\ Len(<<x>>) = 1 /\ <<x>>[1] = x
      /\ IsSeq(<<x, y>>) /\ Len(<<x, y>>) = 2 /\ <<x, y>>[1] = x /\ <<x, y>>[2] = y
  BY <1>2, SeqMade
<1> QED
  BY <1>1, <1>3 DEF x, y, none

LEMMA CancelFlattened ==
  ASSUME NEW s, IsSeq(s)
  PROVE  \E p : Turns("join", 0, <<>>, [i \in 1..Len(s) |-> CancelPiece(s[i])], Len(s), p)
                /\ p[Len(s)] = CancelAccounts(s)
<1> DEFINE n == Len(s)
           pieces == [i \in 1..n |-> CancelPiece(s[i])]
<1>1. n \in Nat /\ DOMAIN s = 1..n
  BY SeqFacts
<1>2. CancelAccounts(s) = FlattenSeq(pieces)
  BY <1>1 DEF CancelAccounts, CancelPiece
<1>3. \A i \in 1..n : pieces[i] = CancelPiece(s[i])
  OBVIOUS
<1>4. \A i \in 1..n : IsSeq(pieces[i])
  BY <1>3, PieceFacts
<1>5. pieces = [i \in 1..n |-> pieces[i]]
  OBVIOUS
<1> HIDE DEF n, pieces
<1>6. \E p : Turns("join", 0, <<>>, pieces, n, p) /\ p[n] = FlattenSeq(pieces)
  BY <1>1, <1>4, <1>5, Flattened
<1> QED
  BY <1>2, <1>6 DEF n, pieces

LEMMA CancelJoins ==
  ASSUME NEW s, IsSeq(s)
  PROVE  \E p : Joins(s, p)
<1> DEFINE n == Len(s)
           pieces == [i \in 1..n |-> CancelPiece(s[i])]
<1>1. n \in Nat /\ DOMAIN s = 1..n
  BY SeqFacts
<1>2. PICK p : Turns("join", 0, <<>>, pieces, n, p) /\ p[n] = CancelAccounts(s)
  BY CancelFlattened
<1>3. p[0] = <<>> /\ \A k \in 1..n : p[k] = p[k - 1] \o CancelPiece(s[k])
  <2>1. \A k \in 1..n : pieces[k] = CancelPiece(s[k])
    OBVIOUS
  <2> HIDE DEF pieces, n
  <2>2. p[0] = <<>> /\ \A k \in 1..n : p[k] = Join(p[k - 1], pieces[k])
    BY <1>2, TurnFacts DEF Turns
  <2> QED
    BY <2>1, <2>2 DEF Join
<1>4. ASSUME NEW k \in 0..n PROVE p[k] = CancelAccounts(SubSeq(s, 1, k))
  <2> DEFINE t == SubSeq(s, 1, k)
             parts == [i \in 1..k |-> CancelPiece(t[i])]
  <2>1. t = [i \in 1..k |-> s[i]] /\ IsSeq(t) /\ Len(t) = k
    BY SubSeqFacts
  <2>2. \A i \in 1..k : t[i] = s[i]
    BY <2>1
  <2>3. \A i \in 1..k : parts[i] = pieces[i]
    BY <1>1, <2>2
  <2> HIDE DEF t
  <2>4. PICK q : Turns("join", 0, <<>>, parts, k, q) /\ q[k] = CancelAccounts(t)
    BY <2>1, CancelFlattened
  <2>5. k \in Nat /\ k <= n
    BY <1>1
  <2> HIDE DEF parts, pieces, n
  <2>6. \A j \in 0..k : q[j] = p[j]
    BY <1>1, <1>2, <2>3, <2>4, <2>5, TurnsAgree
  <2> QED
    BY <2>4, <2>5, <2>6 DEF t
<1> QED
  BY <1>2, <1>3, <1>4 DEF Joins

(* Where an action's accounts are in the list.                             *)
LEMMA CancelPlaces ==
  ASSUME NEW s, IsSeq(s), NEW i \in DOMAIN s
  PROVE  LET c == CancelAccounts(s)
             place == CancelPlace(s, i)
         IN  /\ Len(c) \in Nat /\ place \in Nat
             /\ place < Len(c) /\ c[place + 1] = s[i].primaryAccount
             /\ s[i].secondaryAccount.owner # ZERO =>
                  /\ place + 1 < Len(c)
                  /\ c[place + 2] = s[i].secondaryAccount
<1> DEFINE n == Len(s)
<1>1. n \in Nat /\ DOMAIN s = 1..n
  BY SeqFacts
<1>2. PICK p : Joins(s, p)
  BY CancelJoins
<1>3. /\ p[0] = <<>> /\ \A k \in 1..n : p[k] = p[k - 1] \o CancelPiece(s[k])
      /\ p[i - 1] = CancelAccounts(SubSeq(s, 1, i - 1))
      /\ p[n] = CancelAccounts(s)
  BY <1>1, <1>2 DEF Joins
<1>4. CancelPlace(s, i) = Len(p[i - 1])
  BY <1>3 DEF CancelPlace
<1> HIDE DEF n
<1>5. \A k \in 0..n : IsSeq(p[k])
  <2> DEFINE G == {k \in 0..n : IsSeq(p[k])}
  <2>1. <<>> = [j \in 1..0 |-> <<>>[j]]
    OBVIOUS
  <2>2. IsSeq(<<>>)
    BY <2>1, SeqMade
  <2>3. G \in SUBSET (0..n) /\ 0 \in G
    BY <1>1, <1>3, <2>2
  <2>4. ASSUME NEW k \in 1..n, k - 1 \in G PROVE k \in G
    <3> DEFINE u == p[k - 1]
               v == CancelPiece(s[k])
    <3>1. IsSeq(u) /\ IsSeq(v) /\ p[k] = u \o v
      BY <1>3, <2>4, PieceFacts
    <3> HIDE DEF u, v
    <3>2. IsSeq(u \o v)
      BY <3>1, ConcatFacts
    <3>3. IsSeq(p[k])
      BY <3>1, <3>2
    <3>4. k \in 0..n
      BY <1>1
    <3> QED
      BY <3>3, <3>4
  <2>5. G = 0..n
    <3> HIDE DEF G
    <3> QED
      BY <1>1, <2>3, <2>4, AllReached
  <2> QED
    BY <2>5
<1>6. \A k \in 0..n : Len(p[k]) \in Nat
  BY <1>5, SeqFacts
<1> DEFINE Starts(j) == /\ Len(p[i]) <= Len(p[j])
                        /\ \A x \in 1..Len(p[i]) : p[j][x] = p[i][x]
<1>7. Starts(n)
  <2> DEFINE G == {k \in 0..n : k < i \/ Starts(k)}
  <2>1. G \in SUBSET (0..n) /\ 0 \in G
    BY <1>1
  <2>2. ASSUME NEW k \in 1..n, k - 1 \in G PROVE k \in G
    <3>1. CASE k < i
      BY <1>1, <3>1
    <3>2. CASE k = i
      BY <1>1, <1>6, <3>2
    <3>3. CASE k > i
      <4>1. Starts(k - 1)
        BY <1>1, <2>2, <3>3
      <4>2. k - 1 \in 0..n /\ i \in 0..n
        BY <1>1
      <4> DEFINE u == p[k - 1]
                 v == CancelPiece(s[k])
                 w == p[k]
                 z == p[i]
      <4>3. IsSeq(u) /\ IsSeq(v) /\ w = u \o v
        BY <1>3, <1>5, <4>2, PieceFacts
      <4>4. Len(u) \in Nat /\ Len(v) \in Nat /\ Len(z) \in Nat
        BY <1>6, <4>2, PieceFacts
      <4>5. Len(z) <= Len(u) /\ \A x \in 1..Len(z) : u[x] = z[x]
        BY <4>1
      <4> HIDE DEF u, v, w, z
      <4>6. Len(w) = Len(u) + Len(v) /\ \A x \in 1..Len(u) : w[x] = u[x]
        BY <4>3, ConcatFacts
      <4>7. Len(z) <= Len(w) /\ \A x \in 1..Len(z) : w[x] = z[x]
        BY <4>4, <4>5, <4>6
      <4>8. Starts(k)
        BY <4>7 DEF w, z
      <4> QED
        BY <4>8
    <3> QED
      BY <1>1, <3>1, <3>2, <3>3
  <2>3. G = 0..n
    <3> HIDE DEF G
    <3> QED
      BY <1>1, <2>1, <2>2, AllReached
  <2>4. n \in G
    BY <1>1, <2>3
  <2> QED
    BY <1>1, <2>4
<1> DEFINE u == p[i - 1]
           v == CancelPiece(s[i])
           w == p[i]
           c == p[n]
<1>8. IsSeq(u) /\ IsSeq(v) /\ w = u \o v
  <2>1. i - 1 \in 0..n
    BY <1>1
  <2> QED
    BY <1>1, <1>3, <1>5, <2>1, PieceFacts
<1>9. Len(u) \in Nat /\ Len(c) \in Nat /\ Len(v) \in {1, 2}
  <2>1. i - 1 \in 0..n /\ n \in 0..n
    BY <1>1
  <2> QED
    BY <1>6, <2>1, PieceFacts
<1>10. /\ v[1] = s[i].primaryAccount
       /\ s[i].secondaryAccount.owner # ZERO => Len(v) = 2 /\ v[2] = s[i].secondaryAccount
  BY PieceFacts
<1>11. Len(w) <= Len(c) /\ \A x \in 1..Len(w) : c[x] = w[x]
  BY <1>7
<1>12. c = CancelAccounts(s) /\ CancelPlace(s, i) = Len(u)
  BY <1>3, <1>4
<1> HIDE DEF u, v, w, c
<1>13. Len(w) = Len(u) + Len(v) /\ \A x \in 1..Len(v) : w[Len(u) + x] = v[x]
  BY <1>8, ConcatFacts
<1>14. Len(u) < Len(c) /\ c[Len(u) + 1] = v[1]
  BY <1>9, <1>11, <1>13
<1>15. Len(v) = 2 => Len(u) + 1 < Len(c) /\ c[Len(u) + 2] = v[2]
  BY <1>9, <1>11, <1>13
<1> QED
  BY <1>9, <1>10, <1>12, <1>14, <1>15

LEMMA SoundCancels == Sound => CancelsWhatWasSigned
<1> SUFFICES ASSUME Sound, NEW tx \in pending, tx.kind = "cancel",
                    MadeFor(tx.operation, tx.network)
             PROVE  /\ CancelAccepted(tx)
                    /\ CancelHash(tx.network, tx) =
                         getOperationHash(tx.operation.domain, tx.operation)
  BY DEF CancelsWhatWasSigned
<1> DEFINE s == tx.operation
           acts == s.actions
           c == CancelAccounts(acts)
           place(i) == CancelPlace(acts, i)
           auth == [numActions |-> Len(acts), header |-> s.header, signature |-> <<>>]
<1>1. /\ s \in signed /\ tx.sender = s.header.signer
      /\ tx.accounts = c /\ tx.actions = CancelArgs(acts) /\ tx.auths = <<auth>>
  <2> DEFINE args == cancelOperation(s)
  <2>1. SentSound(signed, tx)
    BY DEF Sound
  <2>2. /\ s \in signed /\ tx.sender = s.header.signer
        /\ tx.accounts = args.accounts /\ tx.actions = args.actions /\ tx.auths = <<args.auth>>
    BY <2>1 DEF SentSound
  <2>3. args.accounts = c /\ args.actions = CancelArgs(acts) /\ args.auth = auth
    BY DEF cancelOperation
  <2> HIDE DEF args, auth, c, acts
  <2> QED
    BY <2>2, <2>3
<1>2. SignedSound(s)
  BY <1>1 DEF Sound
<1>3. IsSeq(acts) /\ Len(acts) \in Nat /\ DOMAIN acts = 1..Len(acts)
  BY <1>2, SeqFacts DEF SignedSound
<1>4. /\ tx.auths[1].numActions = Len(acts) /\ tx.auths[1].header = s.header
  BY <1>1
<1>5. IsSeq(tx.actions) /\ Len(tx.actions) = Len(acts) /\ DOMAIN tx.actions = DOMAIN acts
  <2> DEFINE args == CancelArgs(acts)
  <2>1. DOMAIN args = DOMAIN acts /\ args = [i \in DOMAIN acts |-> args[i]]
    BY DEF CancelArgs
  <2> HIDE DEF args, acts
  <2>2. IsSeq(args) /\ Len(args) = Len(acts)
    BY <1>3, <2>1, SeqMade
  <2> QED
    BY <1>1, <2>1, <2>2 DEF args
<1>6. ASSUME NEW i \in DOMAIN acts
      PROVE  /\ tx.actions[i].accountId < Len(tx.accounts)
             /\ OnePrimary(tx.actions[i].actionType)
                  \/ tx.actions[i].otherAccountId < Len(tx.accounts)
             /\ Resolved(tx, tx.actions[i]) = getActionHash(acts[i])
  <2> DEFINE a == acts[i]
             b == tx.actions[i]
             none == a.secondaryAccount.owner = ZERO
  <2>1. /\ b.actionType = a.actionType /\ b.amount = a.amount /\ b.data = a.data
        /\ b.otherAddress = a.otherAddress /\ b.accountId = place(i)
        /\ b.otherAccountId = IF none THEN 0 ELSE place(i) + 1
        /\ b.primaryMarketId = a.primaryMarketId /\ b.secondaryMarketId = a.secondaryMarketId
    <3> DEFINE here == place(i)
    <3> HIDE DEF here
    <3>1. CancelArgs(acts)[i] =
            [actionType |-> a.actionType, amount |-> a.amount, data |-> a.data,
             otherAddress |-> a.otherAddress,
             accountId |-> here,
             otherAccountId |-> IF none THEN 0 ELSE here + 1,
             primaryMarketId |-> a.primaryMarketId, secondaryMarketId |-> a.secondaryMarketId]
      BY DEF CancelArgs, here
    <3>2. b = CancelArgs(acts)[i]
      BY <1>1
    <3> DEFINE x == [actionType |-> a.actionType, amount |-> a.amount, data |-> a.data,
                     otherAddress |-> a.otherAddress,
                     accountId |-> here,
                     otherAccountId |-> IF none THEN 0 ELSE here + 1,
                     primaryMarketId |-> a.primaryMarketId,
                     secondaryMarketId |-> a.secondaryMarketId]
    <3>3. /\ x.actionType = a.actionType /\ x.amount = a.amount /\ x.data = a.data
          /\ x.otherAddress = a.otherAddress /\ x.accountId = here
          /\ x.otherAccountId = IF none THEN 0 ELSE here + 1
          /\ x.primaryMarketId = a.primaryMarketId
          /\ x.secondaryMarketId = a.secondaryMarketId
      OBVIOUS
    <3>4. b = x
      BY <3>1, <3>2
    <3> HIDE DEF b, x, a, none
    <3> QED
      BY <3>3, <3>4 DEF here
  <2>2. /\ Len(c) \in Nat /\ place(i) \in Nat
        /\ place(i) < Len(c) /\ c[place(i) + 1] = a.primaryAccount
        /\ ~none => place(i) + 1 < Len(c) /\ c[place(i) + 2] = a.secondaryAccount
    BY <1>3, CancelPlaces
  <2>3. Signable(a)
    BY <1>2 DEF SignedSound
  <2>4. IF OnePrimary(a.actionType) THEN a.secondaryAccount = NullAccount ELSE ~none
    BY <2>3, ZeroAssumption DEF Signable, OnePrimary, HasOther, NamedAccount
  <2> HIDE DEF a, b, none, c, place, acts
  <2>5. b.accountId + 1 = place(i) + 1 /\ b.accountId < Len(c)
    BY <2>1, <2>2
  <2>6. ~none => b.otherAccountId + 1 = place(i) + 2 /\ b.otherAccountId < Len(c)
    BY <2>1, <2>2
  <2>7. /\ tx.accounts[b.accountId + 1] = a.primaryAccount
        /\ ~none => tx.accounts[b.otherAccountId + 1] = a.secondaryAccount
    BY <1>1, <2>2, <2>5, <2>6
  <2>8. (IF OnePrimary(b.actionType) THEN NullAccount ELSE tx.accounts[b.otherAccountId + 1])
          = a.secondaryAccount
    BY <2>1, <2>4, <2>7
  <2>9. Resolved(tx, b) = getActionHash(a)
    <3>1. Resolved(tx, b) = ProxyActionHash(b, a.primaryAccount, a.secondaryAccount)
      BY <2>7, <2>8 DEF Resolved
    <3> QED
      BY <2>1, <3>1 DEF ProxyActionHash, getActionHash, getAssetAmountHash
  <2>10. b.accountId < Len(tx.accounts)
    BY <1>1, <2>5
  <2>11. OnePrimary(b.actionType) \/ b.otherAccountId < Len(tx.accounts)
    BY <1>1, <2>1, <2>4, <2>6
  <2> QED
    BY <2>9, <2>10, <2>11 DEF a, b
<1>7. CancelAccepted(tx)
  <2>1. \A i \in 1..(1 + Len(acts) - 1) : i \in DOMAIN acts
    BY <1>3
  <2> HIDE DEF acts
  <2>2. InBounds(tx.accounts, tx.actions, 1, tx.auths[1].numActions)
    BY <1>4, <1>5, <1>6, <2>1 DEF InBounds
  <2> QED
    BY <1>1, <1>4, <2>2 DEF CancelAccepted
<1>8. CancelHash(tx.network, tx) = getOperationHash(EIP712_DOMAIN_HASH(tx.network), s)
  <2>1. Holds(tx, 0, s)
    <3>1. \A j \in DOMAIN acts : 0 + j = j
      BY <1>3
    <3>2. 0 + Len(acts) = Len(acts)
      BY <1>3
    <3> QED
      BY <1>3, <1>5, <1>6, <3>1, <3>2 DEF Holds
  <2>2. tx.auths[1].header = s.header /\ tx.auths[1].numActions = Len(s.actions)
        /\ IsSeq(s.actions)
    BY <1>3, <1>4
  <2> HIDE DEF s
  <2> QED
    BY <2>1, <2>2, CancelHashIs
<1>9. s.domain = EIP712_DOMAIN_HASH(tx.network)
  BY DEF MadeFor
<1> HIDE DEF s
<1> QED
  BY <1>7, <1>8, <1>9 DEF s

(* A cancellation reaches the operation it is for.                         *)
THEOREM CancellationsReach == Spec => []CancelsWhatWasSigned
  BY SoundInvariant, SoundCancels, PTL

=============================================================================
