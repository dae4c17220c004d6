--------------------------- MODULE BuilderProofs ---------------------------
(***************************************************************************)
(* Proofs about the builder of operations (AccountOperation): whatever is  *)
(* added to an operation, it stays one whose accounts are listed once and  *)
(* whose actions name places in that list, and what it had stays where it  *)
(* was. What SignedFlow and ContractCalls share.                           *)
(***************************************************************************)
EXTENDS AccountOperation, SumFacts

-----------------------------------------------------------------------------
(* What FoldLeft computes. The community modules define it as a recursive  *)
(* function over the subsets of the domain that takes the largest element  *)
(* first. One step of each of the folds of these modules:                  *)

Join(s, t) == s \o t

Turn(kind, x, acc, e) ==
  CASE kind = "build"     -> Build(acc, e)
    [] kind = "add"       -> AddAction(acc, e)
    [] kind = "liquidate" -> TradeHeld(x, acc, e)
    [] kind = "count"     -> acc + e.numActions
    [] kind = "join"      -> Join(acc, e)

FoldStep(kind, x, base, seq, h, s) ==
  IF s = {} THEN base ELSE Turn(kind, x, h[s \ {Max(s)}], seq[Max(s)])

(* The largest element of a set of positions.                              *)
LEMMA MaxFacts ==
  ASSUME NEW n \in Nat, NEW s \in SUBSET (1..n), s # {}
  PROVE  Max(s) \in s
<1> DEFINE R == OpToRel(<, Nat)
           B == {n - y : y \in s}
<1>1. IsWellFoundedOn(R, Nat)
  BY NatLessThanWellFounded
<1>2. PICK m \in B : \A k \in B : <<k, m>> \notin R
  <2>1. B \subseteq Nat /\ B # {}
    <3>1. PICK y \in s : TRUE
      OBVIOUS
    <3>2. \A z \in s : z \in 1..n
      OBVIOUS
    <3>3. \A z \in s : n - z \in Nat
      BY <3>2
    <3>4. n - y \in B
      OBVIOUS
    <3> QED
      BY <3>3, <3>4
  <2> HIDE DEF R, B
  <2> QED
    BY <1>1, <2>1, WFMin
<1>3. PICK x \in s : m = n - x
  BY <1>2
<1>4. ASSUME NEW y \in s PROVE x >= y
  <2>1. n - y \in B /\ n - y \in Nat /\ m \in Nat
    BY <1>3
  <2>2. ~(n - y < m)
    BY <1>2, <2>1 DEF OpToRel
  <2> QED
    BY <1>3, <2>2
<1> QED
  BY <1>4 DEF Max

LEMMA TakeMax ==
  ASSUME NEW n \in Nat, NEW s \in SUBSET (1..n), s # {}
  PROVE  /\ s \ {Max(s)} \in SUBSET (1..n)
         /\ Cardinality(s) \in Nat
         /\ Cardinality(s \ {Max(s)}) = Cardinality(s) - 1
<1> DEFINE S == 1..n
           x == Max(s)
<1>1. IsFiniteSet(S)
  BY FS_Interval
<1>2. s \in SUBSET S /\ x \in s
  BY MaxFacts
<1> HIDE DEF S, x
<1>3. /\ s \ {x} \in SUBSET S /\ Cardinality(s) \in Nat
      /\ Cardinality(s \ {x}) = Cardinality(s) - 1
  BY <1>1, <1>2, PickFacts
<1> QED
  BY <1>3 DEF S, x

(* The recursion has a solution.                                           *)
FoldsUpTo(kind, x, base, seq, n, h, k) ==
  /\ DOMAIN h = SUBSET (1..n) /\ h = [s \in SUBSET (1..n) |-> h[s]]
  /\ \A s \in SUBSET (1..n) :
       Cardinality(s) <= k => h[s] = FoldStep(kind, x, base, seq, h, s)

LEMMA FoldsExist ==
  ASSUME NEW kind, NEW x, NEW base, NEW seq, NEW n \in Nat, NEW k \in Nat
  PROVE  \E h : FoldsUpTo(kind, x, base, seq, n, h, k)
<1> DEFINE S == 1..n
           F == {j \in Nat : \E h : FoldsUpTo(kind, x, base, seq, n, h, j)}
<1>1. IsFiniteSet(S)
  BY FS_Interval
<1>2. 0 \in F
  <2>1. FoldsUpTo(kind, x, base, seq, n, [s \in SUBSET S |-> base], 0)
    <3>1. ASSUME NEW s \in SUBSET S, Cardinality(s) <= 0 PROVE s = {}
      <4>1. Cardinality(s) \in Nat /\ (Cardinality(s) = 0 <=> s = {})
        BY <1>1, PickFacts
      <4> QED
        BY <3>1, <4>1
    <3> QED
      BY <3>1 DEF FoldsUpTo, FoldStep
  <2> QED
    BY <2>1
<1>3. ASSUME NEW j \in F PROVE j + 1 \in F
  <2>1. PICK h : FoldsUpTo(kind, x, base, seq, n, h, j)
    OBVIOUS
  <2> DEFINE g == [s \in SUBSET S |-> IF Cardinality(s) <= j THEN h[s]
                                      ELSE FoldStep(kind, x, base, seq, h, s)]
  <2>2. ASSUME NEW s \in SUBSET S, Cardinality(s) <= j + 1
        PROVE  g[s] = FoldStep(kind, x, base, seq, g, s)
    <3>1. g[s] = FoldStep(kind, x, base, seq, h, s)
      BY <2>1, <2>2 DEF FoldsUpTo
    <3>2. CASE s = {}
      BY <3>1, <3>2 DEF FoldStep
    <3>3. CASE s # {}
      <4>1. Max(s) \in s
        BY <3>3, MaxFacts
      <4>2. s \ {Max(s)} \in SUBSET S /\ Cardinality(s \ {Max(s)}) <= j
        BY <2>2, <3>3, TakeMax
      <4>3. g[s \ {Max(s)}] = h[s \ {Max(s)}]
        BY <4>2
      <4> HIDE DEF g
      <4> QED
        BY <3>1, <3>3, <4>3 DEF FoldStep
    <3> QED
      BY <3>2, <3>3
  <2>3. DOMAIN g = SUBSET S /\ g = [s \in SUBSET S |-> g[s]]
    OBVIOUS
  <2> HIDE DEF g
  <2>4. FoldsUpTo(kind, x, base, seq, n, g, j + 1)
    BY <2>2, <2>3 DEF FoldsUpTo
  <2> QED
    BY <2>4
<1>4. F = Nat
  <2>1. F \in SUBSET Nat
    OBVIOUS
  <2> HIDE DEF F
  <2> QED
    BY <1>2, <1>3, <2>1, NatSets
<1> QED
  BY <1>4

Folds(kind, x, base, seq, n, h) ==
  h = [s \in SUBSET (1..n) |-> FoldStep(kind, x, base, seq, h, s)]

LEMMA FoldExists ==
  ASSUME NEW kind, NEW x, NEW base, NEW seq, NEW n \in Nat
  PROVE  \E h : Folds(kind, x, base, seq, n, h)
<1>1. IsFiniteSet(1..n)
  BY FS_Interval
<1>2. \A s \in SUBSET (1..n) : Cardinality(s) <= Cardinality(1..n)
  BY <1>1, FS_Subset
<1>3. Cardinality(1..n) \in Nat
  BY <1>1, FS_CardinalityType
<1>4. PICK h : FoldsUpTo(kind, x, base, seq, n, h, Cardinality(1..n))
  BY <1>3, FoldsExist
<1>5. h = [s \in SUBSET (1..n) |-> h[s]]
  BY <1>4 DEF FoldsUpTo
<1>6. \A s \in SUBSET (1..n) : h[s] = FoldStep(kind, x, base, seq, h, s)
  BY <1>2, <1>4 DEF FoldsUpTo
<1>7. [s \in SUBSET (1..n) |-> h[s]] =
        [s \in SUBSET (1..n) |-> FoldStep(kind, x, base, seq, h, s)]
  BY <1>6
<1>8. Folds(kind, x, base, seq, n, h)
  BY <1>5, <1>7 DEF Folds
<1> QED
  BY <1>8

(* So a fold goes through the sequence, one turn after the other.          *)
Turns(kind, x, base, seq, n, p) ==
  /\ p[0] = base
  /\ \A k \in 1..n : p[k] = Turn(kind, x, p[k - 1], seq[k])

LEMMA FoldTurns ==
  ASSUME NEW kind, NEW x, NEW base, NEW seq, NEW n \in Nat,
         NEW h, Folds(kind, x, base, seq, n, h)
  PROVE  \E p : Turns(kind, x, base, seq, n, p) /\ p[n] = h[1..n]
<1> DEFINE p == [k \in 0..n |-> h[1..k]]
<1>1. \A s \in SUBSET (1..n) : h[s] = FoldStep(kind, x, base, seq, h, s)
  <2> DEFINE f == [s \in SUBSET (1..n) |-> FoldStep(kind, x, base, seq, h, s)]
  <2>1. h = f
    BY DEF Folds
  <2>2. \A s \in SUBSET (1..n) : f[s] = FoldStep(kind, x, base, seq, h, s)
    OBVIOUS
  <2> HIDE DEF f
  <2> QED
    BY <2>1, <2>2
<1>2. p[0] = base
  <2>1. 1..0 = {} /\ {} \in SUBSET (1..n)
    OBVIOUS
  <2>2. h[{}] = base
    BY <1>1, <2>1 DEF FoldStep
  <2> QED
    BY <2>1, <2>2
<1>3. ASSUME NEW k \in 1..n PROVE p[k] = Turn(kind, x, p[k - 1], seq[k])
  <2>1. 1..k \in SUBSET (1..n) /\ 1..k # {}
    OBVIOUS
  <2>2. Max(1..k) = k
    BY DEF Max
  <2>3. (1..k) \ {k} = 1..(k - 1)
    OBVIOUS
  <2>4. h[1..k] = Turn(kind, x, h[1..(k - 1)], seq[k])
    BY <1>1, <2>1, <2>2, <2>3 DEF FoldStep
  <2> QED
    BY <2>4
<1>4. p[n] = h[1..n]
  OBVIOUS
<1> HIDE DEF p
<1> QED
  BY <1>2, <1>3, <1>4 DEF Turns

(* What is true of the base and kept by every turn is true of the fold: an *)
(* induction along the sequence, by the set of places where it is true.    *)
LEMMA AllReached ==
  ASSUME NEW n \in Nat, NEW G \in SUBSET (0..n), 0 \in G,
         \A k \in 1..n : k - 1 \in G => k \in G
  PROVE  G = 0..n
<1> DEFINE F == {k \in Nat : k <= n => k \in G}
<1>1. F = Nat
  <2>1. F \in SUBSET Nat /\ 0 \in F
    OBVIOUS
  <2>2. ASSUME NEW k \in F PROVE k + 1 \in F
    BY <2>2
  <2> HIDE DEF F
  <2> QED
    BY <2>1, <2>2, NatSets
<1>2. ASSUME NEW k \in 0..n PROVE k \in G
  <2>1. k \in Nat /\ k <= n
    OBVIOUS
  <2> QED
    BY <1>1, <2>1
<1> HIDE DEF F
<1> QED
  BY <1>2

(* The folds of these modules.                                             *)
BuildAll(base, seq)   == FoldLeft(Build, base, seq)
AddAll(base, seq)     == FoldLeft(AddAction, base, seq)
HeldAll(x, base, seq) == FoldLeft(LAMBDA state, held : TradeHeld(x, state, held), base, seq)
CountAll(base, seq)   == FoldLeft(LAMBDA n, auth : n + auth.numActions, base, seq)

LEMMA TurnFacts ==
  ASSUME NEW x, NEW acc, NEW e
  PROVE  /\ Turn("build", x, acc, e) = Build(acc, e)
         /\ Turn("add", x, acc, e) = AddAction(acc, e)
         /\ Turn("liquidate", x, acc, e) = TradeHeld(x, acc, e)
         /\ Turn("count", x, acc, e) = acc + e.numActions
         /\ Turn("join", x, acc, e) = Join(acc, e)
BY DEF Turn

LEMMA BuildFold ==
  ASSUME NEW base, NEW seq, NEW n \in Nat, DOMAIN seq = 1..n
  PROVE  \E p : Turns("build", 0, base, seq, n, p) /\ p[n] = BuildAll(base, seq)
<1> DEFINE Solves(h) == h = [s \in SUBSET (1..n) |->
                               IF s = {} THEN base
                               ELSE Build(h[s \ {Max(s)}], seq[Max(s)])]
           it == CHOOSE h : Solves(h)
<1>1. BuildAll(base, seq) = it[1..n]
  BY DEF BuildAll, FoldLeft, MapThenFoldSet
<1>2. \A h, s : FoldStep("build", 0, base, seq, h, s) =
                  IF s = {} THEN base ELSE Build(h[s \ {Max(s)}], seq[Max(s)])
  BY TurnFacts DEF FoldStep
<1>3. \A h : Folds("build", 0, base, seq, n, h) <=> Solves(h)
  BY <1>2 DEF Folds
<1>4. Folds("build", 0, base, seq, n, it)
  BY <1>3, FoldExists
<1> HIDE DEF it
<1> QED
  BY <1>1, <1>4, FoldTurns

LEMMA AddFold ==
  ASSUME NEW base, NEW seq, NEW n \in Nat, DOMAIN seq = 1..n
  PROVE  \E p : Turns("add", 0, base, seq, n, p) /\ p[n] = AddAll(base, seq)
<1> DEFINE Solves(h) == h = [s \in SUBSET (1..n) |->
                               IF s = {} THEN base
                               ELSE AddAction(h[s \ {Max(s)}], seq[Max(s)])]
           it == CHOOSE h : Solves(h)
<1>1. AddAll(base, seq) = it[1..n]
  BY DEF AddAll, FoldLeft, MapThenFoldSet
<1>2. \A h, s : FoldStep("add", 0, base, seq, h, s) =
                  IF s = {} THEN base ELSE AddAction(h[s \ {Max(s)}], seq[Max(s)])
  BY TurnFacts DEF FoldStep
<1>3. \A h : Folds("add", 0, base, seq, n, h) <=> Solves(h)
  BY <1>2 DEF Folds
<1>4. Folds("add", 0, base, seq, n, it)
  BY <1>3, FoldExists
<1> HIDE DEF it
<1> QED
  BY <1>1, <1>4, FoldTurns

LEMMA HeldFold ==
  ASSUME NEW x, NEW base, NEW seq, NEW n \in Nat, DOMAIN seq = 1..n
  PROVE  \E p : Turns("liquidate", x, base, seq, n, p) /\ p[n] = HeldAll(x, base, seq)
<1> DEFINE Solves(h) == h = [s \in SUBSET (1..n) |->
                               IF s = {} THEN base
                               ELSE TradeHeld(x, h[s \ {Max(s)}], seq[Max(s)])]
           it == CHOOSE h : Solves(h)
<1>1. HeldAll(x, base, seq) = it[1..n]
  BY DEF HeldAll, FoldLeft, MapThenFoldSet
<1>2. \A h, s : FoldStep("liquidate", x, base, seq, h, s) =
                  IF s = {} THEN base ELSE TradeHeld(x, h[s \ {Max(s)}], seq[Max(s)])
  BY TurnFacts DEF FoldStep
<1>3. \A h : Folds("liquidate", x, base, seq, n, h) <=> Solves(h)
  BY <1>2 DEF Folds
<1>4. Folds("liquidate", x, base, seq, n, it)
  BY <1>3, FoldExists
<1> HIDE DEF it
<1> QED
  BY <1>1, <1>4, FoldTurns

LEMMA CountFold ==
  ASSUME NEW base, NEW seq, NEW n \in Nat, DOMAIN seq = 1..n
  PROVE  \E p : Turns("count", 0, base, seq, n, p) /\ p[n] = CountAll(base, seq)
<1> DEFINE Solves(h) == h = [s \in SUBSET (1..n) |->
                               IF s = {} THEN base
                               ELSE h[s \ {Max(s)}] + seq[Max(s)].numActions]
           it == CHOOSE h : Solves(h)
<1>1. CountAll(base, seq) = it[1..n]
  BY DEF CountAll, FoldLeft, MapThenFoldSet
<1>2. \A h, s : FoldStep("count", 0, base, seq, h, s) =
                  IF s = {} THEN base ELSE h[s \ {Max(s)}] + seq[Max(s)].numActions
  BY TurnFacts DEF FoldStep
<1>3. \A h : Folds("count", 0, base, seq, n, h) <=> Solves(h)
  BY <1>2 DEF Folds
<1>4. Folds("count", 0, base, seq, n, it)
  BY <1>3, FoldExists
<1> HIDE DEF it
<1> QED
  BY <1>1, <1>4, FoldTurns

-----------------------------------------------------------------------------
(* Sequences.                                                              *)
LEMMA SeqFacts ==
  ASSUME NEW s, IsSeq(s)
  PROVE  /\ Len(s) \in Nat /\ DOMAIN s = 1..Len(s)
         /\ s = [i \in 1..Len(s) |-> s[i]]
BY DEF IsSeq

LEMMA SeqMade ==
  ASSUME NEW n \in Nat, NEW s, s = [i \in 1..n |-> s[i]]
  PROVE  IsSeq(s) /\ Len(s) = n
<1>1. \A i \in 1..n : s[i] \in ToSet(s)
  BY DEF ToSet
<1>2. s \in Seq(ToSet(s))
  BY <1>1
<1> QED
  BY <1>2 DEF IsSeq

LEMMA AppendFacts ==
  ASSUME NEW s, IsSeq(s), NEW x
  PROVE  /\ IsSeq(Append(s, x)) /\ Len(Append(s, x)) = Len(s) + 1
         /\ \A i \in DOMAIN s : Append(s, x)[i] = s[i]
         /\ Append(s, x)[Len(s) + 1] = x
<1> DEFINE S == ToSet(s) \cup {x}
           t == Append(s, x)
<1>1. s \in Seq(S) /\ x \in S
  BY DEF IsSeq
<1>2. /\ t \in Seq(S) /\ Len(t) = Len(s) + 1 /\ t[Len(s) + 1] = x
      /\ \A i \in DOMAIN s : t[i] = s[i]
  <2> HIDE DEF S
  <2> QED
    BY <1>1
<1> HIDE DEF S, t
<1>3. t = [i \in 1..Len(t) |-> t[i]] /\ Len(t) \in Nat
  BY <1>2
<1>4. IsSeq(t)
  BY <1>3, SeqMade
<1> QED
  BY <1>2, <1>4 DEF t

-----------------------------------------------------------------------------
(* The builder. What it adds leaves what there was where it was.           *)
Keeps(o, op) ==
  /\ o.auths = op.auths /\ o.committed = op.committed /\ o.proxy = op.proxy
  /\ Len(op.accounts) <= Len(o.accounts)
  /\ \A i \in DOMAIN op.accounts : o.accounts[i] = op.accounts[i]
  /\ Len(op.actions) <= Len(o.actions)
  /\ \A i \in DOMAIN op.actions : o.actions[i] = op.actions[i]
  /\ op.committed => o.actions = op.actions

Fine(op) == IsOperation(op) /\ Built(op)

Changed(o, op, accounts, actions, auths) ==
  /\ IsOperation(o) /\ o.committed = op.committed /\ o.proxy = op.proxy
  /\ o.accounts = accounts /\ o.actions = actions /\ o.auths = auths

LEMMA OperationFields ==
  ASSUME NEW op, IsOperation(op), NEW v
  PROVE  /\ Changed([op EXCEPT !.accounts = v], op, v, op.actions, op.auths)
         /\ Changed([op EXCEPT !.actions = v], op, op.accounts, v, op.auths)
         /\ Changed([op EXCEPT !.auths = v], op, op.accounts, op.actions, v)
BY DEF IsOperation, Changed

LEMMA FineFacts ==
  ASSUME NEW op, Fine(op)
  PROVE  /\ IsSeq(op.accounts) /\ IsSeq(op.actions)
         /\ Len(op.accounts) \in Nat /\ DOMAIN op.accounts = 1..Len(op.accounts)
         /\ Len(op.actions) \in Nat /\ DOMAIN op.actions = 1..Len(op.actions)
<1>1. op.accounts \in Seq(NamedAccount)
  BY DEF Fine, Built
<1>2. op.accounts = [i \in 1..Len(op.accounts) |-> op.accounts[i]] /\ Len(op.accounts) \in Nat
  <2> DEFINE s == op.accounts
  <2>1. s \in Seq(NamedAccount)
    BY <1>1
  <2> HIDE DEF s
  <2>2. s = [i \in 1..Len(s) |-> s[i]] /\ Len(s) \in Nat
    BY <2>1
  <2> QED
    BY <2>2 DEF s
<1>3. IsSeq(op.accounts)
  BY <1>2, SeqMade
<1> QED
  BY <1>3, SeqFacts DEF Fine, Built

LEMMA KeepsItself ==
  ASSUME NEW op, Fine(op)
  PROVE  Keeps(op, op)
BY FineFacts DEF Keeps

LEMMA KeepsOn ==
  ASSUME NEW a, NEW b, NEW c, Fine(a), Fine(b), Fine(c), Keeps(b, a), Keeps(c, b)
  PROVE  Keeps(c, a)
BY FineFacts DEF Keeps

(* getAccountId answers the place of the account, in a list that has no    *)
(* account twice.                                                          *)
LEMMA WithAccountFacts ==
  ASSUME NEW op, Fine(op), NEW account \in NamedAccount
  PROVE  LET o == WithAccount(op, account)
         IN  /\ Fine(o) /\ Keeps(o, op) /\ o.actions = op.actions
             /\ AccountId(o, account) \in 0..(Len(o.accounts) - 1)
             /\ o.accounts[AccountId(o, account) + 1] = account
<1> DEFINE o == WithAccount(op, account)
<1>1. /\ Fine(o) /\ Keeps(o, op) /\ o.actions = op.actions
      /\ \E i \in DOMAIN o.accounts : o.accounts[i] = account
  <2>1. CASE account \in ToSet(op.accounts)
    <3>1. o = op
      BY <2>1 DEF WithAccount
    <3> QED
      BY <2>1, <3>1, KeepsItself DEF ToSet
  <2>2. CASE account \notin ToSet(op.accounts)
    <3> DEFINE s == op.accounts
               t == Append(s, account)
    <3>1. o = [op EXCEPT !.accounts = t]
      BY <2>2 DEF WithAccount
    <3>2. /\ IsOperation(o) /\ o.accounts = t /\ o.actions = op.actions
          /\ o.auths = op.auths /\ o.committed = op.committed /\ o.proxy = op.proxy
      <4> HIDE DEF t
      <4>1. IsOperation(op)
        BY DEF Fine
      <4>2. Changed([op EXCEPT !.accounts = t], op, t, op.actions, op.auths)
        BY <4>1, OperationFields
      <4>3. Changed(o, op, t, op.actions, op.auths)
        BY <3>1, <4>2
      <4> QED
        BY <4>3 DEF Changed
    <3>3. /\ IsSeq(t) /\ Len(t) = Len(s) + 1 /\ t[Len(s) + 1] = account
          /\ \A i \in DOMAIN s : t[i] = s[i]
      BY FineFacts, AppendFacts
    <3>4. /\ DOMAIN s = 1..Len(s) /\ Len(s) \in Nat
          /\ DOMAIN t = 1..(Len(s) + 1)
      BY <3>3, FineFacts, SeqFacts
    <3>5. t \in Seq(NamedAccount)
      <4>1. s \in Seq(NamedAccount)
        BY DEF Fine, Built
      <4> HIDE DEF s
      <4> QED
        BY <4>1
    <3>6. \A i \in DOMAIN s : s[i] # account
      BY <2>2 DEF ToSet
    <3>7. /\ \A i \in DOMAIN s : s[i] \in AccountInfo
          /\ \A i, j \in DOMAIN s : s[i] = s[j] => i = j
          /\ \A i \in DOMAIN op.actions :
               /\ IsActionArgs(op.actions[i])
               /\ {op.actions[i].accountId, op.actions[i].otherAccountId} \subseteq 0..(Len(s) - 1)
      BY DEF Fine, Built, IsBatch
    <3>8. account \in AccountInfo
      BY DEF NamedAccount, AccountInfo
    <3>9. IsSeq(op.actions) /\ Len(op.actions) \in Nat
      BY FineFacts
    <3> HIDE DEF s, t
    <3>10. \A i \in DOMAIN t : i \in DOMAIN s \/ i = Len(s) + 1
      BY <3>4
    <3>11. /\ \A i \in DOMAIN t : t[i] \in AccountInfo
           /\ \A i, j \in DOMAIN t : t[i] = t[j] => i = j
      BY <3>3, <3>6, <3>7, <3>8, <3>10
    <3>12. \A i \in DOMAIN op.actions :
             /\ IsActionArgs(op.actions[i])
             /\ {op.actions[i].accountId, op.actions[i].otherAccountId} \subseteq 0..(Len(t) - 1)
      BY <3>3, <3>4, <3>7
    <3>13. Built(o)
      BY <3>2, <3>5, <3>9, <3>11, <3>12 DEF Built, IsBatch
    <3>14. Keeps(o, op)
      BY <3>2, <3>3, <3>4, <3>9 DEF Keeps, s
    <3>15. Len(s) + 1 \in DOMAIN t
      BY <3>4
    <3> QED
      BY <3>2, <3>3, <3>13, <3>14, <3>15 DEF Fine
  <2> QED
    BY <2>1, <2>2
<1> DEFINE P == {i \in DOMAIN o.accounts : o.accounts[i] = account}
<1>2. AccountId(o, account) = Min(P) - 1
  BY DEF AccountId
<1> HIDE DEF o
<1>3. Min(P) \in P
  <2>1. PICK i \in P : TRUE
    BY <1>1
  <2>2. \A j \in P : j = i
    BY <1>1, <2>1 DEF Fine, Built, IsBatch
  <2>3. P = {i}
    BY <2>1, <2>2
  <2>4. i \in Nat
    BY <1>1, <2>1, FineFacts
  <2>5. Min({i}) = i
    BY <2>4 DEF Min
  <2> QED
    BY <2>3, <2>5
<1>4. Min(P) \in 1..Len(o.accounts) /\ Len(o.accounts) \in Nat
  BY <1>1, <1>3, FineFacts
<1>5. o.accounts[Min(P)] = account
  BY <1>3
<1> HIDE DEF P
<1> QED
  BY <1>1, <1>2, <1>4, <1>5 DEF o

-----------------------------------------------------------------------------
(* The arguments of an action, with those that were not given.             *)
Given(args) == Over(args, NoArgs)

ArgNames ==
  {"primaryMarketId", "secondaryMarketId", "otherAddress", "otherAccountId", "data", "amount"}

Fitting(args, n) ==
  LET f == Given(args)
  IN  /\ f.amount \in AssetAmount /\ f.otherAddress \in Addresses
      /\ f.primaryMarketId \in Nat /\ f.secondaryMarketId \in Nat
      /\ f.otherAccountId = 0 \/ f.otherAccountId \in 0..(n - 1)

TheAction(type, id, args) == Over([actionType |-> type, accountId |-> id], Given(args))

LEMMA ActionFields ==
  ASSUME NEW type, NEW id, NEW args
  PROVE  LET a == TheAction(type, id, args)   f == Given(args)
         IN  /\ a.actionType = type /\ a.accountId = id
             /\ a.primaryMarketId = f.primaryMarketId
             /\ a.secondaryMarketId = f.secondaryMarketId
             /\ a.otherAddress = f.otherAddress /\ a.otherAccountId = f.otherAccountId
             /\ a.data = f.data /\ a.amount = f.amount
<1> DEFINE g == [actionType |-> type, accountId |-> id]
           f == Given(args)
<1>1. DOMAIN g = {"actionType", "accountId"}
  OBVIOUS
<1>2. ArgNames \subseteq DOMAIN f
  <2>1. DOMAIN f = (DOMAIN args) \cup (DOMAIN NoArgs)
    BY DEF Given, Over
  <2>2. DOMAIN NoArgs = ArgNames
    BY DEF NoArgs, ArgNames
  <2> QED
    BY <2>1, <2>2
<1>3. \A x \in ArgNames : x \notin DOMAIN g
  BY <1>1 DEF ArgNames
<1>4. TheAction(type, id, args) =
        [x \in (DOMAIN g) \cup (DOMAIN f) |-> IF x \in DOMAIN g THEN g[x] ELSE f[x]]
  BY DEF TheAction, Over
<1>5. \A x \in ArgNames : TheAction(type, id, args)[x] = f[x]
  <2> HIDE DEF g, f
  <2> QED
    BY <1>2, <1>3, <1>4
<1>6. /\ TheAction(type, id, args).actionType = type
      /\ TheAction(type, id, args).accountId = id
  <2>1. g.actionType = type /\ g.accountId = id
    OBVIOUS
  <2> HIDE DEF g, f
  <2> QED
    BY <1>1, <1>4, <2>1
<1> HIDE DEF g, f
<1> QED
  BY <1>5, <1>6 DEF ArgNames, f

(* A second account among the arguments changes nothing else.              *)
LEMMA OtherFields ==
  ASSUME NEW k, NEW args
  PROVE  LET f == Given(Over([otherAccountId |-> k], args))   g == Given(args)
         IN  /\ f.otherAccountId = k
             /\ f.amount = g.amount /\ f.otherAddress = g.otherAddress
             /\ f.primaryMarketId = g.primaryMarketId
             /\ f.secondaryMarketId = g.secondaryMarketId
<1> DEFINE h == [otherAccountId |-> k]
           n == NoArgs
<1>1. DOMAIN h = {"otherAccountId"} /\ h.otherAccountId = k
  OBVIOUS
<1>2. DOMAIN n = ArgNames
  BY DEF NoArgs, ArgNames
<1> HIDE DEF h, n
<1>3. Over(h, args) = [x \in (DOMAIN h) \cup (DOMAIN args) |->
                         IF x \in DOMAIN h THEN h[x] ELSE args[x]]
  BY DEF Over
<1>4. Given(Over(h, args)) =
        [x \in (DOMAIN h) \cup (DOMAIN args) \cup (DOMAIN n) |->
           IF x \in DOMAIN h THEN h[x] ELSE IF x \in DOMAIN args THEN args[x] ELSE n[x]]
  BY <1>3 DEF Given, Over, n
<1>5. Given(args) = [x \in (DOMAIN args) \cup (DOMAIN n) |->
                       IF x \in DOMAIN args THEN args[x] ELSE n[x]]
  BY DEF Given, Over, n
<1>6. \A x \in ArgNames \ {"otherAccountId"} : Given(Over(h, args))[x] = Given(args)[x]
  BY <1>1, <1>2, <1>4, <1>5
<1>7. Given(Over(h, args)).otherAccountId = k
  BY <1>1, <1>4
<1> QED
  BY <1>6, <1>7 DEF ArgNames, h

AddedTo(o, op, primary, type, args) ==
  /\ Fine(o) /\ Keeps(o, op)
  /\ \/ op.committed
     \/ /\ Len(o.actions) = Len(op.actions) + 1
        /\ \E id \in 0..(Len(o.accounts) - 1) :
             /\ o.actions[Len(op.actions) + 1] = TheAction(type, id, args)
             /\ o.accounts[id + 1] = primary

(* addActionArgs appends one action, unless the operation is committed.    *)
LEMMA AddArgsFacts ==
  ASSUME NEW op, Fine(op), NEW primary \in NamedAccount, NEW type \in ActionTypes,
         NEW args, Fitting(args, Len(op.accounts))
  PROVE  AddedTo(AddActionArgs(op, primary, type, args), op, primary, type, args)
<1> DEFINE o == AddActionArgs(op, primary, type, args)
           m == WithAccount(op, primary)
           id == AccountId(m, primary)
           a == TheAction(type, id, args)
           s == op.actions
           t == Append(s, a)
<1>1. CASE op.committed
  BY <1>1, KeepsItself DEF AddActionArgs, AddedTo
<1>2. CASE ~op.committed
  <2>1. /\ Fine(m) /\ Keeps(m, op) /\ m.actions = s
        /\ id \in 0..(Len(m.accounts) - 1) /\ m.accounts[id + 1] = primary
    BY WithAccountFacts
  <2>2. o = [m EXCEPT !.actions = t]
    <3>1. o = [m EXCEPT !.actions = Append(@, a)]
      BY <1>2 DEF AddActionArgs, TheAction, Given
    <3> HIDE DEF a, m
    <3> QED
      BY <2>1, <3>1
  <2> HIDE DEF o, m, id
  <2>3. /\ IsOperation(o) /\ o.actions = t /\ o.accounts = m.accounts
        /\ o.auths = m.auths /\ o.committed = m.committed /\ o.proxy = m.proxy
    <3>1. IsOperation(m)
      BY <2>1 DEF Fine
    <3> HIDE DEF t
    <3>2. Changed([m EXCEPT !.actions = t], m, m.accounts, t, m.auths)
      BY <3>1, OperationFields
    <3>3. Changed(o, m, m.accounts, t, m.auths)
      BY <2>2, <3>2
    <3> QED
      BY <3>3 DEF Changed
  <2>4. /\ a.actionType = type /\ a.accountId = id
        /\ a.amount \in AssetAmount /\ a.otherAddress \in Addresses
        /\ a.primaryMarketId \in Nat /\ a.secondaryMarketId \in Nat
        /\ a.otherAccountId = 0 \/ a.otherAccountId \in 0..(Len(op.accounts) - 1)
    BY ActionFields DEF Fitting
  <2> HIDE DEF a
  <2>5. IsSeq(s) /\ Len(s) \in Nat /\ DOMAIN s = 1..Len(s)
    BY FineFacts
  <2>6. /\ IsSeq(t) /\ Len(t) = Len(s) + 1 /\ t[Len(s) + 1] = a
        /\ \A i \in DOMAIN s : t[i] = s[i]
    <3> HIDE DEF s
    <3> QED
      BY <2>5, AppendFacts
  <2>7. DOMAIN t = 1..(Len(s) + 1)
    BY <2>6, SeqFacts
  <2> HIDE DEF s, t
  <2>8. /\ Len(op.accounts) \in Nat /\ Len(m.accounts) \in Nat
        /\ Len(op.accounts) <= Len(m.accounts)
    BY <2>1, FineFacts DEF Keeps
  <2>9. {a.accountId, a.otherAccountId} \subseteq 0..(Len(m.accounts) - 1)
    BY <2>1, <2>4, <2>8
  <2>10. IsActionArgs(a)
    BY <2>4, <2>9 DEF IsActionArgs
  <2>11. /\ m.accounts \in Seq(NamedAccount)
         /\ \A i \in DOMAIN m.accounts : m.accounts[i] \in AccountInfo
         /\ \A i, j \in DOMAIN m.accounts : m.accounts[i] = m.accounts[j] => i = j
         /\ \A i \in DOMAIN s :
              /\ IsActionArgs(s[i])
              /\ {s[i].accountId, s[i].otherAccountId} \subseteq 0..(Len(m.accounts) - 1)
    BY <2>1 DEF Fine, Built, IsBatch, s
  <2>12. ASSUME NEW i \in DOMAIN t
         PROVE  /\ IsActionArgs(t[i])
                /\ {t[i].accountId, t[i].otherAccountId} \subseteq 0..(Len(m.accounts) - 1)
    <3>1. CASE i \in DOMAIN s
      BY <2>6, <2>11, <3>1
    <3>2. CASE i = Len(s) + 1
      BY <2>6, <2>9, <2>10, <3>2
    <3> QED
      BY <2>5, <2>7, <3>1, <3>2
  <2>13. Fine(o)
    BY <2>3, <2>6, <2>11, <2>12 DEF Fine, Built, IsBatch
  <2>14. Keeps(o, op)
    BY <1>2, <2>1, <2>3, <2>5, <2>6 DEF Keeps, s
  <2> QED
    BY <2>1, <2>3, <2>6, <2>13, <2>14 DEF o, a, s, AddedTo
<1> QED
  BY <1>1, <1>2

(* An action with a second account is appended in the same way.            *)
LEMMA AddOtherFacts ==
  ASSUME NEW op, Fine(op), NEW primary \in NamedAccount, NEW other \in NamedAccount,
         NEW type \in ActionTypes, NEW args, Fitting(args, 0)
  PROVE  LET o == AddWithOther(op, primary, other, type, args)
             a == o.actions[Len(op.actions) + 1]
         IN  /\ Fine(o) /\ Keeps(o, op)
             /\ \/ op.committed
                \/ /\ Len(o.actions) = Len(op.actions) + 1
                   /\ a.primaryMarketId = Given(args).primaryMarketId
                   /\ a.secondaryMarketId = Given(args).secondaryMarketId
<1> DEFINE m == WithAccount(op, other)
           k == AccountId(m, other)
           with == Over([otherAccountId |-> k], args)
           o == AddActionArgs(m, primary, type, with)
           a == o.actions[Len(op.actions) + 1]
<1>1. /\ Fine(m) /\ Keeps(m, op) /\ m.actions = op.actions
      /\ k \in 0..(Len(m.accounts) - 1)
  BY WithAccountFacts
<1>2. /\ Fitting(with, Len(m.accounts))
      /\ Given(with).primaryMarketId = Given(args).primaryMarketId
      /\ Given(with).secondaryMarketId = Given(args).secondaryMarketId
  <2> HIDE DEF k, m
  <2> QED
    BY <1>1, OtherFields DEF Fitting
<1> HIDE DEF m, with
<1>3. AddedTo(o, m, primary, type, with)
  BY <1>1, <1>2, AddArgsFacts
<1>4. Keeps(o, op)
  <2> HIDE DEF o
  <2> QED
    BY <1>1, <1>3, KeepsOn DEF AddedTo
<1>5. AddWithOther(op, primary, other, type, args) = o
  BY DEF AddWithOther, m, with
<1> HIDE DEF o
<1>6. \/ op.committed
      \/ /\ Len(o.actions) = Len(op.actions) + 1
         /\ a.primaryMarketId = Given(args).primaryMarketId
         /\ a.secondaryMarketId = Given(args).secondaryMarketId
  <2>1. m.committed = op.committed
    BY <1>1 DEF Keeps
  <2>2. ASSUME NEW id, a = TheAction(type, id, with)
        PROVE  /\ a.primaryMarketId = Given(args).primaryMarketId
               /\ a.secondaryMarketId = Given(args).secondaryMarketId
    BY <1>2, <2>2, ActionFields
  <2> QED
    BY <1>1, <1>3, <2>1, <2>2 DEF AddedTo
<1> QED
  BY <1>3, <1>4, <1>5, <1>6 DEF AddedTo

-----------------------------------------------------------------------------
(* The builder's methods.                                                  *)
LEMMA GivenFields ==
  ASSUME NEW args
  PROVE  LET f == Given(args)   g == NoArgs   d == DOMAIN args
         IN  /\ f.amount = IF "amount" \in d THEN args.amount ELSE g.amount
             /\ f.otherAddress = IF "otherAddress" \in d THEN args.otherAddress ELSE ZERO
             /\ f.primaryMarketId = IF "primaryMarketId" \in d THEN args.primaryMarketId ELSE 0
             /\ f.secondaryMarketId =
                  IF "secondaryMarketId" \in d THEN args.secondaryMarketId ELSE 0
             /\ f.otherAccountId = IF "otherAccountId" \in d THEN args.otherAccountId ELSE 0
             /\ f.data = IF "data" \in d THEN args.data ELSE <<>>
<1> DEFINE g == NoArgs
<1>1. /\ DOMAIN g = ArgNames
      /\ g.otherAddress = ZERO /\ g.primaryMarketId = 0 /\ g.secondaryMarketId = 0
      /\ g.otherAccountId = 0 /\ g.data = <<>>
  BY DEF NoArgs, ArgNames
<1> HIDE DEF g
<1>2. Given(args) = [x \in (DOMAIN args) \cup (DOMAIN g) |->
                       IF x \in DOMAIN args THEN args[x] ELSE g[x]]
  BY DEF Given, Over, g
<1>3. \A x \in ArgNames : Given(args)[x] = IF x \in DOMAIN args THEN args[x] ELSE g[x]
  BY <1>1, <1>2
<1> QED
  BY <1>1, <1>3 DEF ArgNames, g

LEMMA AmountFacts ==
  /\ NoArgs.amount \in AssetAmount
  /\ \A amount \in Amount : AmountArgs(amount) \in AssetAmount
  /\ [sign |-> TRUE, denomination |-> "Par", ref |-> "Target", value |-> 0] \in AssetAmount
  /\ ZERO \in Addresses /\ Expiry \in Addresses
BY BuilderAssumption
   DEF NoArgs, NoAmount, AssetAmount, AmountDenomination, AmountReference, AmountArgs,
       Amount, Integer, Addresses

Kept(o, op) == Fine(o) /\ Keeps(o, op)

LEMMA OnePrimaryFacts ==
  ASSUME NEW op, Fine(op), NEW x, IsItem(x),
         x.method \in {"deposit", "withdraw", "buy", "sell", "call",
                       "setApprovalForExpiry", "setExpiry"}
  PROVE  Kept(Build(op, x), op)
<1>1. x.primary \in NamedAccount
  BY DEF IsItem
<1>2. \A type \in ActionTypes : \A args : Fitting(args, Len(op.accounts)) =>
        Kept(AddActionArgs(op, x.primary, type, args), op)
  BY <1>1, AddArgsFacts DEF Kept, AddedTo
<1>3. CASE x.method = "deposit"
  <2> DEFINE args == [amount |-> AmountArgs(x.amount), otherAddress |-> x.from,
                      primaryMarketId |-> x.marketId]
  <2>1. x.amount \in Amount /\ x.from \in Addresses /\ x.marketId \in Nat
    BY <1>3 DEF IsItem
  <2>2. Fitting(args, Len(op.accounts))
    BY <2>1, GivenFields, AmountFacts DEF Fitting
  <2>3. Build(op, x) = AddActionArgs(op, x.primary, "Deposit", args)
    BY <1>3 DEF Build, deposit
  <2> HIDE DEF args
  <2> QED
    BY <1>2, <2>2, <2>3 DEF ActionTypes
<1>4. CASE x.method = "withdraw"
  <2> DEFINE args == [amount |-> AmountArgs(x.amount), otherAddress |-> x.to,
                      primaryMarketId |-> x.marketId]
  <2>1. x.amount \in Amount /\ x.to \in Addresses /\ x.marketId \in Nat
    BY <1>4 DEF IsItem
  <2>2. Fitting(args, Len(op.accounts))
    BY <2>1, GivenFields, AmountFacts DEF Fitting
  <2>3. Build(op, x) = AddActionArgs(op, x.primary, "Withdraw", args)
    BY <1>4 DEF Build, withdraw
  <2> HIDE DEF args
  <2> QED
    BY <1>2, <2>2, <2>3 DEF ActionTypes
<1>5. ASSUME NEW type \in ActionTypes, NEW m \in Nat, NEW k \in Nat, x.amount \in Amount
      PROVE  Kept(Exchange(op, x, type, m, k), op)
  <2>1. CASE x.order \notin DOMAIN Mapped
    BY <2>1, KeepsItself DEF Exchange, Kept
  <2>2. CASE x.order \in DOMAIN Mapped
    <3> DEFINE to == Mapped[x.order].exchangeWrapperAddress
               args == [amount |-> AmountArgs(x.amount), otherAddress |-> to,
                        data |-> Mapped[x.order].bytes,
                        primaryMarketId |-> m, secondaryMarketId |-> k]
    <3>1. to \in Addresses
      BY <2>2, BuilderAssumption DEF Addresses
    <3>2. Exchange(op, x, type, m, k) = AddActionArgs(op, x.primary, type, args)
      BY <2>2 DEF Exchange
    <3> HIDE DEF to
    <3>3. Fitting(args, Len(op.accounts))
      BY <1>5, <3>1, GivenFields, AmountFacts DEF Fitting
    <3> HIDE DEF args
    <3> QED
      BY <1>2, <3>2, <3>3
  <2> QED
    BY <2>1, <2>2
<1>6. CASE x.method \in {"buy", "sell"}
  <2>1. x.amount \in Amount /\ x.takerMarketId \in Nat /\ x.makerMarketId \in Nat
    BY <1>6 DEF IsItem
  <2>2. Build(op, x) = Exchange(op, x, "Buy", x.makerMarketId, x.takerMarketId)
        \/ Build(op, x) = Exchange(op, x, "Sell", x.takerMarketId, x.makerMarketId)
    BY <1>6 DEF Build, buy, sell
  <2>3. "Buy" \in ActionTypes /\ "Sell" \in ActionTypes
    BY DEF ActionTypes
  <2> QED
    BY <1>5, <2>1, <2>2, <2>3
<1>7. ASSUME NEW to \in Addresses, NEW data
      PROVE  Kept(AddActionArgs(op, x.primary, "Call", [otherAddress |-> to, data |-> data]), op)
  <2> DEFINE args == [otherAddress |-> to, data |-> data]
  <2>1. Fitting(args, Len(op.accounts))
    BY GivenFields, AmountFacts DEF Fitting
  <2> HIDE DEF args
  <2>2. Kept(AddActionArgs(op, x.primary, "Call", args), op)
    BY <1>2, <2>1 DEF ActionTypes
  <2> QED
    BY <2>2 DEF args
<1>8. CASE x.method = "call"
  <2>1. x.callee \in Addresses
    BY <1>8 DEF IsItem
  <2> QED
    BY <1>7, <1>8, <2>1 DEF Build, call
<1>9. CASE x.method \in {"setApprovalForExpiry", "setExpiry"}
  BY <1>7, <1>9, AmountFacts DEF Build, setApprovalForExpiry, setExpiry
<1> QED
  BY <1>3, <1>4, <1>6, <1>8, <1>9

LEMMA WithOtherFacts ==
  ASSUME NEW op, Fine(op), NEW x, IsItem(x),
         x.method \in {"transfer", "trade", "liquidate", "vaporize", "liquidateExpiredAccount"}
  PROVE  Kept(Build(op, x), op)
<1>1. x.primary \in NamedAccount /\ x.amount \in Amount
  BY DEF IsItem
<1>2. \A other \in NamedAccount, type \in ActionTypes : \A args : Fitting(args, 0) =>
        Kept(AddWithOther(op, x.primary, other, type, args), op)
  BY <1>1, AddOtherFacts DEF Kept
<1>3. CASE x.method = "transfer"
  <2> DEFINE args == [amount |-> AmountArgs(x.amount), primaryMarketId |-> x.marketId]
  <2>1. x.toAccount \in NamedAccount /\ x.marketId \in Nat
    BY <1>3 DEF IsItem
  <2>2. Fitting(args, 0)
    BY <1>1, <2>1, GivenFields, AmountFacts DEF Fitting
  <2>3. Build(op, x) = AddWithOther(op, x.primary, x.toAccount, "Transfer", args)
    BY <1>3 DEF Build, transfer
  <2> HIDE DEF args
  <2> QED
    BY <1>2, <2>1, <2>2, <2>3 DEF ActionTypes
<1>4. CASE x.method = "trade"
  <2> DEFINE args == [amount |-> AmountArgs(x.amount), otherAddress |-> x.autoTrader,
                      data |-> x.data, primaryMarketId |-> x.inputMarketId,
                      secondaryMarketId |-> x.outputMarketId]
  <2>1. /\ x.inputMarketId \in Nat /\ x.outputMarketId \in Nat
        /\ x.otherAccount \in NamedAccount /\ x.autoTrader \in Addresses
    BY <1>4 DEF IsItem
  <2>2. Fitting(args, 0)
    BY <1>1, <2>1, GivenFields, AmountFacts DEF Fitting
  <2>3. Build(op, x) = AddWithOther(op, x.primary, x.otherAccount, "Trade", args)
    BY <1>4 DEF Build, trade
  <2> HIDE DEF args
  <2> QED
    BY <1>2, <2>1, <2>2, <2>3 DEF ActionTypes
<1>5. CASE x.method = "liquidate"
  <2> DEFINE args == [amount |-> AmountArgs(x.amount), primaryMarketId |-> x.liquidMarketId,
                      secondaryMarketId |-> x.payoutMarketId]
  <2>1. x.liquidAccount \in NamedAccount /\ x.liquidMarketId \in Nat /\ x.payoutMarketId \in Nat
    BY <1>5 DEF IsItem
  <2>2. Fitting(args, 0)
    BY <1>1, <2>1, GivenFields, AmountFacts DEF Fitting
  <2>3. Build(op, x) = AddWithOther(op, x.primary, x.liquidAccount, "Liquidate", args)
    BY <1>5 DEF Build, liquidate
  <2> HIDE DEF args
  <2> QED
    BY <1>2, <2>1, <2>2, <2>3 DEF ActionTypes
<1>6. CASE x.method = "vaporize"
  <2> DEFINE args == [amount |-> AmountArgs(x.amount), primaryMarketId |-> x.vaporMarketId,
                      secondaryMarketId |-> x.payoutMarketId]
  <2>1. x.vaporAccount \in NamedAccount /\ x.vaporMarketId \in Nat /\ x.payoutMarketId \in Nat
    BY <1>6 DEF IsItem
  <2>2. Fitting(args, 0)
    BY <1>1, <2>1, GivenFields, AmountFacts DEF Fitting
  <2>3. Build(op, x) = AddWithOther(op, x.primary, x.vaporAccount, "Vaporize", args)
    BY <1>6 DEF Build, vaporize
  <2> HIDE DEF args
  <2> QED
    BY <1>2, <2>1, <2>2, <2>3 DEF ActionTypes
<1>7. CASE x.method = "liquidateExpiredAccount"
  <2> DEFINE data == <<x.liquidMarketId, IF x.maxExpiry = 0 THEN ONES_31 ELSE x.maxExpiry>>
             args == [amount |-> AmountArgs(x.amount), otherAddress |-> Expiry,
                      primaryMarketId |-> x.liquidMarketId,
                      secondaryMarketId |-> x.payoutMarketId, data |-> data]
  <2>1. x.liquidAccount \in NamedAccount /\ x.liquidMarketId \in Nat /\ x.payoutMarketId \in Nat
    BY <1>7 DEF IsItem
  <2>2. Build(op, x) = AddWithOther(op, x.primary, x.liquidAccount, "Trade", args)
    BY <1>7 DEF Build, liquidateExpiredAccount
  <2> HIDE DEF data
  <2>3. Fitting(args, 0)
    BY <1>1, <2>1, GivenFields, AmountFacts DEF Fitting
  <2> HIDE DEF args
  <2> QED
    BY <1>2, <2>1, <2>2, <2>3 DEF ActionTypes
<1> QED
  BY <1>3, <1>4, <1>5, <1>6, <1>7

TradeAdded(o, op, primaryMarket, secondaryMarket) ==
  LET a == o.actions[Len(op.actions) + 1]
  IN  /\ Kept(o, op)
      /\ \/ op.committed
         \/ /\ Len(o.actions) = Len(op.actions) + 1
            /\ a.primaryMarketId = primaryMarket /\ a.secondaryMarketId = secondaryMarket

LEMMA ExpiredTradeFacts ==
  ASSUME NEW op, Fine(op), NEW m \in Nat, NEW k \in Nat,
         NEW x, x.primary \in NamedAccount, x.expiredAccount \in NamedAccount
  PROVE  TradeAdded(ExpiredTrade(op, x, m, k), op, m, k)
<1> DEFINE zero == [sign |-> TRUE, denomination |-> "Par", ref |-> "Target", value |-> 0]
           data == <<x.expiredMarket, x.expiryTimestamp>>
           args == [amount |-> zero, otherAddress |-> Expiry, data |-> data,
                    primaryMarketId |-> m, secondaryMarketId |-> k]
<1>1. ExpiredTrade(op, x, m, k) = AddWithOther(op, x.primary, x.expiredAccount, "Trade", args)
  BY DEF ExpiredTrade
<1>2. zero \in AssetAmount
  BY AmountFacts
<1> HIDE DEF zero, data
<1>3. Given(args).primaryMarketId = m /\ Given(args).secondaryMarketId = k
  BY GivenFields
<1>4. Fitting(args, 0)
  BY <1>2, GivenFields, AmountFacts DEF Fitting
<1> HIDE DEF args
<1> DEFINE o == AddWithOther(op, x.primary, x.expiredAccount, "Trade", args)
           a == o.actions[Len(op.actions) + 1]
<1>5. "Trade" \in ActionTypes
  BY DEF ActionTypes
<1>6. /\ Fine(o) /\ Keeps(o, op)
      /\ \/ op.committed
         \/ /\ Len(o.actions) = Len(op.actions) + 1
            /\ a.primaryMarketId = Given(args).primaryMarketId
            /\ a.secondaryMarketId = Given(args).secondaryMarketId
  BY <1>4, <1>5, AddOtherFacts
<1> HIDE DEF o
<1> QED
  BY <1>1, <1>3, <1>6 DEF TradeAdded, Kept, o

LEMMA FullFacts ==
  ASSUME NEW op, Fine(op), NEW x, IsItem(x), x.method = "fullyLiquidateExpiredAccount"
  PROVE  Kept(Build(op, x), op)
<1>1. /\ x.primary \in NamedAccount /\ x.expiredAccount \in NamedAccount
      /\ x.expiredMarket \in Nat /\ x.collateralPreferences \in Seq(Nat)
  BY DEF IsItem
<1>2. ASSUME NEW o, Fine(o), NEW m \in Nat, NEW k \in Nat
      PROVE  Kept(ExpiredTrade(o, x, m, k), o)
  BY <1>1, <1>2, ExpiredTradeFacts DEF TradeAdded
<1>3. ASSUME NEW state, Kept(state.op, op), NEW held \in Nat
      PROVE  Kept(TradeHeld(x, state, held).op, op)
  <2>1. \/ TradeHeld(x, state, held) = state
        \/ TradeHeld(x, state, held).op = ExpiredTrade(state.op, x, x.expiredMarket, held)
        \/ TradeHeld(x, state, held).op = ExpiredTrade(state.op, x, held, x.expiredMarket)
    BY DEF TradeHeld
  <2>2. \A o : Kept(o, state.op) => Kept(o, op)
    BY <1>3, KeepsOn DEF Kept
  <2> QED
    BY <1>1, <1>2, <1>3, <2>1, <2>2 DEF Kept
<1> DEFINE seq == x.collateralPreferences
           base == [op |-> op, owed |-> Frac(1, 1)]
           n == Len(seq)
           end == HeldAll(x, base, seq)
<1>4. n \in Nat /\ DOMAIN seq = 1..n /\ \A k \in 1..n : seq[k] \in Nat
  <2>1. seq \in Seq(Nat)
    BY <1>1
  <2> HIDE DEF seq
  <2> QED
    BY <2>1
<1>5. Kept(base.op, op)
  BY KeepsItself DEF Kept
<1> HIDE DEF seq, base, n
<1>6. PICK p : Turns("liquidate", x, base, seq, n, p) /\ p[n] = end
  BY <1>4, HeldFold
<1>7. p[0] = base /\ \A k \in 1..n : p[k] = TradeHeld(x, p[k - 1], seq[k])
  BY <1>6, TurnFacts DEF Turns
<1> HIDE DEF end
<1> DEFINE G == {k \in 0..n : Kept(p[k].op, op)}
<1>8. G = 0..n
  <2>1. G \in SUBSET (0..n) /\ 0 \in G
    BY <1>4, <1>5, <1>7
  <2>2. ASSUME NEW k \in 1..n, k - 1 \in G PROVE k \in G
    <3>1. Kept(p[k - 1].op, op) /\ seq[k] \in Nat
      BY <1>4, <2>2
    <3>2. Kept(TradeHeld(x, p[k - 1], seq[k]).op, op)
      BY <1>3, <3>1
    <3> QED
      BY <1>4, <1>7, <3>2
  <2> HIDE DEF G
  <2> QED
    BY <1>4, <2>1, <2>2, AllReached
<1>9. Kept(end.op, op)
  BY <1>4, <1>6, <1>8
<1>10. Build(op, x) = op \/ Build(op, x) = end.op
  BY DEF Build, fullyLiquidateExpiredAccount, HeldAll, end, base, seq
<1> QED
  BY <1>9, <1>10, KeepsItself DEF Kept

LEMMA BuildFacts ==
  ASSUME NEW op, Fine(op), NEW x, IsItem(x)
  PROVE  Kept(Build(op, x), op)
<1>1. x.method \in {"deposit", "withdraw", "buy", "sell", "call", "setApprovalForExpiry",
                    "setExpiry", "transfer", "trade", "liquidate", "vaporize",
                    "liquidateExpiredAccount", "fullyLiquidateExpiredAccount"}
  BY DEF IsItem
<1> QED
  BY <1>1, OnePrimaryFacts, WithOtherFacts, FullFacts

LEMMA InitiateFacts ==
  ASSUME NEW proxy, NEW sendEthTo
  PROVE  LET op == Initiate(proxy, sendEthTo)
         IN  /\ Fine(op) /\ op.auths = <<>> /\ op.committed = FALSE
             /\ op.accounts = <<>> /\ op.actions = <<>>
BY DEF Initiate, Fine, IsOperation, Built, IsBatch, IsSeq
=============================================================================
