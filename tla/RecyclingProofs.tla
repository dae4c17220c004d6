--------------------------- MODULE RecyclingProofs ---------------------------
(***************************************************************************)
(* Proofs about the market registry and Recycling, for any number of ids,  *)
(* tokens and users: the list of free ids is right as long as no id was    *)
(* removed twice, and until then every live proxy keeps its market and, if *)
(* keepers are in time, holds what its users may claim.                    *)
(***************************************************************************)
EXTENDS Recycling, SumFacts

USE RegistryAssumption, RecyclingAssumption

-----------------------------------------------------------------------------
(* The registry.                                                           *)

(* There are finitely many free ids, all of them ids in use before.        *)
LEMMA FreeIdsFinite ==
  ASSUME NEW R \in RegistryType
  PROVE  /\ IsFiniteSet(FreeIds(R))
         /\ Cardinality(FreeIds(R)) \in Nat
         /\ FreeIds(R) \subseteq MarketIds \ {0}
         /\ R.numMarkets \in 1..MaxMarkets
<1>1. R.numMarkets \in 1..MaxMarkets
  BY DEF RegistryType
<1>2. IsFiniteSet(1..(R.numMarkets - 1))
  BY <1>1, FS_Interval
<1>3. FreeIds(R) \subseteq 1..(R.numMarkets - 1)
  BY DEF FreeIds
<1>4. IsFiniteSet(FreeIds(R))
  BY <1>2, <1>3, FS_Subset
<1>5. FreeIds(R) \subseteq MarketIds \ {0}
  BY <1>1, <1>3 DEF MarketIds
<1> QED
  BY <1>1, <1>4, <1>5, FS_CardinalityType

(* An id handed out is either new or was freed: nothing is listed under    *)
(* it.                                                                     *)
LEMMA NewIdUnused ==
  ASSUME NEW R \in RegistryType, ListsFreeIds(R),
         \A id \in MarketIds : id >= R.numMarkets => R.token[id] = NoToken,
         NewMarketId(R) < MaxMarkets
  PROVE  /\ NewMarketId(R) \in MarketIds \ {0}
         /\ R.token[NewMarketId(R)] = NoToken
<1>1. R.numMarkets \in 1..MaxMarkets
  BY FreeIdsFinite
<1>2. CASE R.head = 0
  BY <1>1, <1>2 DEF NewMarketId, MarketIds
<1>3. CASE R.head # 0
  <2> DEFINE n == Cardinality(FreeIds(R))
  <2>1. PICK s \in [1..n -> FreeIds(R)] : IsChain(R, s, n, FreeIds(R))
    BY DEF ListsFreeIds
  <2>2. n \in Nat /\ FreeIds(R) \subseteq MarketIds \ {0}
    BY FreeIdsFinite
  <2> HIDE DEF n
  <2>3. n # 0 /\ R.head = s[1]
    BY <1>3, <2>1 DEF IsChain
  <2>4. s[1] \in FreeIds(R)
    BY <2>1, <2>2, <2>3
  <2> QED
    BY <1>3, <2>2, <2>3, <2>4 DEF NewMarketId, FreeIds
<1> QED
  BY <1>2, <1>3

(* Adding a market leaves a well-typed registry.                           *)
LEMMA AddMarketType ==
  ASSUME NEW R \in RegistryType, NEW t \in Tokens, NEW b \in BOOLEAN,
         NewMarketId(R) < MaxMarkets
  PROVE  /\ AddMarket(R, t, b) \in RegistryType
         /\ NewMarketId(R) \in MarketIds
<1>1. R.numMarkets \in 1..MaxMarkets /\ R.head \in MarketIds
  BY DEF RegistryType
<1>2. NewMarketId(R) \in MarketIds
  BY <1>1 DEF NewMarketId, MarketIds
<1>3. (IF R.head = 0 THEN R.numMarkets + 1 ELSE R.numMarkets) \in 1..MaxMarkets
  BY <1>1 DEF NewMarketId
<1>4. (IF R.head = 0 THEN 0 ELSE R.next[NewMarketId(R)]) \in MarketIds
  BY <1>1, <1>2 DEF RegistryType, MarketIds
<1> QED
  BY <1>2, <1>3, <1>4 DEF AddMarket, RegistryType

(* Adding a market takes the front off the list of free ids.               *)
LEMMA AddMarketList ==
  ASSUME NEW R \in RegistryType, NEW t \in Tokens, NEW b \in BOOLEAN,
         ListsFreeIds(R), NewMarketId(R) < MaxMarkets
  PROVE  ListsFreeIds(AddMarket(R, t, b))
<1> DEFINE Q == AddMarket(R, t, b)
           n == Cardinality(FreeIds(R))
<1>1. /\ n \in Nat
      /\ IsFiniteSet(FreeIds(R))
      /\ FreeIds(R) \subseteq MarketIds \ {0}
      /\ R.numMarkets \in 1..MaxMarkets
      /\ R.token \in [MarketIds -> Tokens \cup {NoToken}]
  BY FreeIdsFinite DEF RegistryType
<1>2. PICK s \in [1..n -> FreeIds(R)] : IsChain(R, s, n, FreeIds(R))
  BY DEF ListsFreeIds
<1>3. Q.token = [R.token EXCEPT ![NewMarketId(R)] = t] /\ Q.next = R.next
  BY DEF AddMarket
<1>4. CASE R.head = 0
  <2>1. n = 0
    <3> HIDE DEF n
    <3> SUFFICES ASSUME n # 0 PROVE FALSE
      OBVIOUS
    <3>1. s[1] \in FreeIds(R) /\ R.head = s[1]
      BY <1>1, <1>2 DEF IsChain
    <3> QED
      BY <1>1, <1>4, <3>1
  <2>2. FreeIds(R) = {}
    BY <1>1, <2>1, FS_EmptySet
  <2>3. Q.numMarkets = R.numMarkets + 1 /\ Q.head = 0
    BY <1>4 DEF AddMarket
  <2>4. Q.token = [R.token EXCEPT ![R.numMarkets] = t]
    BY <1>3, <1>4 DEF NewMarketId
  <2>5. R.numMarkets \in MarketIds
    BY <1>1, <1>4 DEF NewMarketId, MarketIds
  <2>6. FreeIds(Q) = {}
    <3> SUFFICES ASSUME NEW id \in FreeIds(Q) PROVE FALSE
      OBVIOUS
    <3>1. id \in 1..R.numMarkets /\ Q.token[id] = NoToken
      BY <1>1, <2>3 DEF FreeIds
    <3>2. id # R.numMarkets
      BY <1>1, <2>4, <2>5, <3>1
    <3>3. id \in MarketIds
      BY <1>1, <3>1, <2>5 DEF MarketIds
    <3>4. R.token[id] = NoToken
      BY <1>1, <2>4, <3>1, <3>2, <3>3
    <3> QED
      BY <1>1, <2>2, <3>1, <3>2, <3>4 DEF FreeIds
  <2>7. Cardinality(FreeIds(Q)) = 0
    BY <2>6, FS_EmptySet
  <2>8. s \in [1..0 -> {}]
    BY <1>2, <2>1, <2>2
  <2> HIDE DEF Q
  <2>9. IsChain(Q, s, 0, {})
    BY <2>3, <2>8 DEF IsChain
  <2>10. ListsFreeIds(Q)
    BY <2>6, <2>7, <2>8, <2>9 DEF ListsFreeIds
  <2> QED
    BY <2>10 DEF Q
<1>5. CASE R.head # 0
  <2> DEFINE id == s[1]
             r == [i \in 1..(n - 1) |-> s[i + 1]]
  <2>1. n # 0 /\ R.head = id
    <3> HIDE DEF n
    <3> QED  BY <1>2, <1>5 DEF IsChain
  <2>2. id \in FreeIds(R)
    <3> HIDE DEF n
    <3> QED  BY <1>1, <1>2, <2>1
  <2>3. /\ Q.numMarkets = R.numMarkets
        /\ Q.token = [R.token EXCEPT ![id] = t]
        /\ Q.head = R.next[id]
    BY <1>3, <1>5, <2>1 DEF AddMarket, NewMarketId
  <2> HIDE DEF Q
  <2>4. FreeIds(Q) = FreeIds(R) \ {id}
    <3> HIDE DEF id
    <3>1. \A k \in 1..(R.numMarkets - 1) : k \in MarketIds
      BY <1>1 DEF MarketIds
    <3>2. \A k \in 1..(R.numMarkets - 1) :
            Q.token[k] = NoToken <=> R.token[k] = NoToken /\ k # id
      BY <1>1, <2>2, <2>3, <3>1
    <3> QED
      BY <2>3, <3>2 DEF FreeIds
  <2>5. Cardinality(FreeIds(Q)) = n - 1
    <3> HIDE DEF id
    <3>1. Cardinality(FreeIds(R) \ {id}) = Cardinality(FreeIds(R)) - 1
      BY <1>1, <2>2, FS_RemoveElement
    <3> QED  BY <2>4, <3>1
  <2> HIDE DEF n
  <2>6. \A i, j \in 1..n : s[i] = s[j] => i = j
    BY <1>2 DEF IsChain
  <2>7. r \in [1..(n - 1) -> FreeIds(R) \ {id}]
    <3> SUFFICES ASSUME NEW i \in 1..(n - 1)
                 PROVE  s[i + 1] \in FreeIds(R) \ {id}
      OBVIOUS
    <3>1. i + 1 \in 1..n /\ i + 1 # 1 /\ 1 \in 1..n
      BY <1>1
    <3> QED
      BY <1>2, <2>6, <3>1
  <2>8. \A i, j \in 1..(n - 1) : r[i] = r[j] => i = j
    BY <1>1, <2>6
  <2>9. Q.head = IF n - 1 = 0 THEN 0 ELSE r[1]
    <3>1. R.next[s[1]] = IF 1 = n THEN 0 ELSE s[1 + 1]
      BY <1>1, <1>2, <2>1 DEF IsChain
    <3> QED
      BY <1>1, <2>1, <2>3, <3>1
  <2>10. \A i \in 1..(n - 1) :
           Q.next[r[i]] = IF i = n - 1 THEN 0 ELSE r[i + 1]
    <3> SUFFICES ASSUME NEW i \in 1..(n - 1)
                 PROVE  Q.next[r[i]] = IF i = n - 1 THEN 0 ELSE r[i + 1]
      OBVIOUS
    <3>1. i + 1 \in 1..n
      BY <1>1
    <3>2. R.next[s[i + 1]] = IF i + 1 = n THEN 0 ELSE s[i + 1 + 1]
      BY <1>2, <3>1 DEF IsChain
    <3>3. i # n - 1 => r[i + 1] = s[i + 1 + 1]
      BY <1>1
    <3>4. Q.next[r[i]] = R.next[s[i + 1]]
      BY <1>3 DEF Q
    <3> QED
      BY <1>1, <3>2, <3>3, <3>4
  <2>11. IsChain(Q, r, n - 1, FreeIds(R) \ {id})
    <3> HIDE DEF r, id
    <3> QED  BY <2>7, <2>8, <2>9, <2>10 DEF IsChain
  <2> QED
    <3> HIDE DEF r, id
    <3>1. ListsFreeIds(Q)
      BY <2>4, <2>5, <2>7, <2>11 DEF ListsFreeIds
    <3> QED  BY <3>1 DEF Q
<1> QED
  BY <1>4, <1>5

(* Removing a market leaves a well-typed registry.                         *)
LEMMA RemoveMarketType ==
  ASSUME NEW R \in RegistryType, NEW id \in MarketIds, R.token[id] # NoToken
  PROVE  RemoveMarket(R, id) \in RegistryType
<1>1. R.token[id] \in Tokens
  BY DEF RegistryType
<1>2. 0 \in MarketIds
  BY DEF MarketIds
<1>3. (IF R.head = 0 THEN R.next ELSE [R.next EXCEPT ![id] = R.head])
        \in [MarketIds -> MarketIds]
  BY DEF RegistryType
<1> QED
  BY <1>1, <1>2, <1>3 DEF RemoveMarket, Deleted, RegistryType

(* Removing a market puts its id at the front of the list of free ids, if  *)
(* the id has no link left from an earlier time in the list.               *)
LEMMA RemoveMarketList ==
  ASSUME NEW R \in RegistryType, NEW id \in 1..(R.numMarkets - 1),
         ListsFreeIds(R), R.token[id] # NoToken, R.next[id] = 0
  PROVE  ListsFreeIds(RemoveMarket(R, id))
<1> DEFINE Q == RemoveMarket(R, id)
           n == Cardinality(FreeIds(R))
<1>1. /\ n \in Nat
      /\ IsFiniteSet(FreeIds(R))
      /\ FreeIds(R) \subseteq MarketIds \ {0}
      /\ R.numMarkets \in 1..MaxMarkets
      /\ R.token \in [MarketIds -> Tokens \cup {NoToken}]
      /\ R.next \in [MarketIds -> MarketIds]
  BY FreeIdsFinite DEF RegistryType
<1>2. PICK s \in [1..n -> FreeIds(R)] : IsChain(R, s, n, FreeIds(R))
  BY DEF ListsFreeIds
<1> DEFINE r == [i \in 1..(n + 1) |-> IF i = 1 THEN id ELSE s[i - 1]]
<1>3. /\ Q.numMarkets = R.numMarkets
      /\ Q.token = [R.token EXCEPT ![id] = NoToken]
      /\ Q.head = id
      /\ Q.next = IF R.head = 0 THEN R.next ELSE [R.next EXCEPT ![id] = R.head]
  BY DEF RemoveMarket
<1> HIDE DEF Q
<1>4. \A k \in 1..(R.numMarkets - 1) : k \in MarketIds
  <2>1. R.numMarkets \in 1..MaxMarkets
    BY <1>1
  <2> QED
    BY <2>1 DEF MarketIds
<1>5. FreeIds(Q) = FreeIds(R) \cup {id}
  <2>1. \A k \in 1..(R.numMarkets - 1) :
          Q.token[k] = NoToken <=> R.token[k] = NoToken \/ k = id
    BY <1>1, <1>3, <1>4
  <2> QED
    BY <1>3, <2>1 DEF FreeIds
<1>6. id \notin FreeIds(R)
  BY DEF FreeIds
<1>7. Cardinality(FreeIds(Q)) = n + 1
  <2>1. Cardinality(FreeIds(R) \cup {id}) = Cardinality(FreeIds(R)) + 1
    BY <1>1, <1>6, FS_AddElement
  <2> QED
    BY <1>5, <2>1
<1> HIDE DEF n
<1>8. /\ \A i, j \in 1..n : s[i] = s[j] => i = j
      /\ R.head = IF n = 0 THEN 0 ELSE s[1]
      /\ \A i \in 1..n : R.next[s[i]] = IF i = n THEN 0 ELSE s[i + 1]
  BY <1>2 DEF IsChain
<1>9. r \in [1..(n + 1) -> FreeIds(R) \cup {id}]
  <2> SUFFICES ASSUME NEW i \in 1..(n + 1), i # 1
               PROVE  s[i - 1] \in FreeIds(R)
    OBVIOUS
  <2>1. i - 1 \in 1..n
    BY <1>1
  <2> QED
    BY <2>1
<1>10. \A i \in 1..n : s[i] # id
  BY <1>6
<1>11. \A i, j \in 1..(n + 1) : r[i] = r[j] => i = j
  <2> SUFFICES ASSUME NEW i \in 1..(n + 1), NEW j \in 1..(n + 1), r[i] = r[j]
               PROVE  i = j
    OBVIOUS
  <2>1. i # 1 => i - 1 \in 1..n
    BY <1>1
  <2>2. j # 1 => j - 1 \in 1..n
    BY <1>1
  <2> QED
    BY <1>1, <1>8, <1>10, <2>1, <2>2
<1>12. Q.head = r[1]
  BY <1>1, <1>3
<1>13. \A i \in 1..(n + 1) :
         Q.next[r[i]] = IF i = n + 1 THEN 0 ELSE r[i + 1]
  <2> SUFFICES ASSUME NEW i \in 1..(n + 1)
               PROVE  Q.next[r[i]] = IF i = n + 1 THEN 0 ELSE r[i + 1]
    OBVIOUS
  <2>0. id \in MarketIds
    BY <1>4
  <2>1. CASE i = 1
    <3>1. CASE n = 0
      BY <1>3, <1>8, <2>1, <3>1
    <3>2. CASE n # 0
      <4>1. R.head = s[1] /\ s[1] \in FreeIds(R)
        BY <1>1, <1>8, <3>2
      <4>2. R.head # 0
        BY <1>1, <4>1
      <4>3. Q.next[id] = s[1]
        BY <1>1, <1>3, <2>0, <4>1, <4>2
      <4>4. 2 \in 1..(n + 1) /\ i # n + 1
        BY <1>1, <2>1, <3>2
      <4>5. r[1] = id /\ r[1 + 1] = s[1]
        BY <1>1, <4>4
      <4> QED
        BY <2>1, <4>3, <4>4, <4>5
    <3> QED
      BY <3>1, <3>2
  <2>2. CASE i # 1
    <3>1. i - 1 \in 1..n /\ i \in 1..(n + 1)
      BY <1>1, <2>2
    <3>2. r[i] = s[i - 1] /\ s[i - 1] # id
      BY <1>10, <2>2, <3>1
    <3>3. Q.next[s[i - 1]] = R.next[s[i - 1]]
      BY <1>1, <1>3, <3>1, <3>2
    <3>4. R.next[s[i - 1]] = IF i - 1 = n THEN 0 ELSE s[i - 1 + 1]
      BY <1>8, <3>1
    <3>5. i # n + 1 => r[i + 1] = s[i - 1 + 1]
      BY <1>1, <2>2, <3>1
    <3> QED
      BY <1>1, <3>1, <3>2, <3>3, <3>4, <3>5
  <2> QED
    BY <2>1, <2>2
<1>14. IsChain(Q, r, n + 1, FreeIds(R) \cup {id})
  <2>1. n + 1 # 0
    BY <1>1
  <2> HIDE DEF r
  <2> QED
    BY <1>9, <1>11, <1>12, <1>13, <2>1 DEF IsChain
<1>15. ListsFreeIds(Q)
  <2> HIDE DEF r
  <2> QED
    BY <1>5, <1>7, <1>9, <1>14 DEF ListsFreeIds
<1> QED
  BY <1>15 DEF Q

(* Whether the list is right depends on the links and the tokens alone.    *)
LEMMA SameList ==
  ASSUME NEW R, NEW Q,
         Q.numMarkets = R.numMarkets, Q.token = R.token,
         Q.head = R.head, Q.next = R.next,
         ListsFreeIds(R)
  PROVE  ListsFreeIds(Q)
<1>1. FreeIds(Q) = FreeIds(R)
  BY DEF FreeIds
<1> DEFINE n == Cardinality(FreeIds(R))
<1>2. PICK s \in [1..n -> FreeIds(R)] : IsChain(R, s, n, FreeIds(R))
  BY DEF ListsFreeIds
<1> HIDE DEF n
<1>3. IsChain(Q, s, n, FreeIds(R))
  BY <1>2 DEF IsChain
<1> QED
  BY <1>1, <1>3 DEF ListsFreeIds, n

-----------------------------------------------------------------------------
(* The steps.                                                              *)

(* What the steps of users and keepers leave alone keeps the invariant.    *)
LEMMA BooksStep ==
  ASSUME Inductive, TypeOK',
         registry'.numMarkets = registry.numMarkets,
         registry'.token = registry.token,
         registry'.recyclable = registry.recyclable,
         registry'.marketOf = registry.marketOf,
         registry'.head = registry.head,
         registry'.next = registry.next,
         UNCHANGED <<marketId, isRecycled, removals>>
  PROVE  Inductive'
<1>1. MarketsFound'
  BY DEF Inductive, MarketsFound, FindsMarkets
<1>2. LinksBounded' /\ OnlyProxiesRecyclable'
  BY DEF Inductive, LinksBounded, OnlyProxiesRecyclable
<1>3. FreeIdsListed'
  BY SameList DEF Inductive, FreeIdsListed, RecycledOnce
<1>4. MarketKept'
  BY DEF Inductive, MarketKept, RecycledOnce
<1> QED
  BY <1>1, <1>2, <1>3, <1>4 DEF Inductive

(* A credit is well typed and writes only to balances and supplies.        *)
LEMMA CreditStep ==
  ASSUME Inductive, NEW t \in Recyclables, NEW u \in Users, NEW n \in Amounts,
         Credit(t, u, n), UNCHANGED <<marketId, isRecycled, removals, now, withdrawn>>,
         leveraged' \subseteq Recyclables \X Users
  PROVE  Inductive'
<1>1. TypeOK /\ n \in Nat
  BY DEF Inductive
<1>2. marketId[t] \in MarketIds
  BY <1>1 DEF TypeOK
<1>3. registry' \in RegistryType
  <2>1. registry.supply[marketId[t]] + n \in Nat
    BY <1>1, <1>2 DEF TypeOK, RegistryType
  <2>2. registry' = [registry EXCEPT !.supply[marketId[t]] =
                       registry.supply[marketId[t]] + n]
    BY DEF Credit
  <2> QED
    BY <1>1, <1>2, <2>1, <2>2 DEF TypeOK, RegistryType
<1>4. par' \in [Recyclables -> [Users -> Nat]] /\ held' \in [Recyclables -> Nat]
  BY <1>1 DEF Credit, TypeOK
<1>5. TypeOK'
  BY <1>1, <1>3, <1>4 DEF TypeOK
<1>6. /\ registry'.numMarkets = registry.numMarkets
      /\ registry'.token = registry.token
      /\ registry'.recyclable = registry.recyclable
      /\ registry'.marketOf = registry.marketOf
      /\ registry'.head = registry.head
      /\ registry'.next = registry.next
  BY <1>1 DEF Credit, TypeOK, RegistryType
<1> QED
  BY <1>5, <1>6, BooksStep

(* So is a debit, which takes no more than there is.                       *)
LEMMA DebitStep ==
  ASSUME Inductive, NEW t \in Recyclables, NEW u \in Users, NEW n \in Amounts,
         Debit(t, u, n), UNCHANGED <<marketId, isRecycled, removals, now, withdrawn>>,
         leveraged' \subseteq Recyclables \X Users
  PROVE  Inductive'
<1> DEFINE id == marketId[t]
           m  == registry.token[id]
<1>1. TypeOK /\ n \in Nat
  BY DEF Inductive
<1>2. id \in MarketIds /\ m \in Recyclables
  BY <1>1 DEF TypeOK, Debit
<1>3. n <= par[t][u] /\ n <= registry.supply[id] /\ n <= held[m]
  BY DEF Debit, Affordable
<1>4. /\ registry' = [registry EXCEPT !.supply[id] = @ - n]
      /\ par' = [par EXCEPT ![t][u] = @ - n]
      /\ held' = [held EXCEPT ![m] = @ - n]
  BY DEF Debit
<1>5. registry.supply \in [MarketIds -> Nat] /\ registry.supply[id] - n \in Nat
  BY <1>1, <1>2, <1>3 DEF TypeOK, RegistryType
<1>6. registry' \in RegistryType
  BY <1>1, <1>2, <1>4, <1>5 DEF TypeOK, RegistryType
<1>7. par' \in [Recyclables -> [Users -> Nat]]
  BY <1>1, <1>3, <1>4 DEF TypeOK
<1>8. held' \in [Recyclables -> Nat]
  BY <1>1, <1>2, <1>3, <1>4 DEF TypeOK
<1>9. TypeOK'
  BY <1>1, <1>6, <1>7, <1>8 DEF TypeOK
<1>10. /\ registry'.numMarkets = registry.numMarkets
       /\ registry'.token = registry.token
       /\ registry'.recyclable = registry.recyclable
       /\ registry'.marketOf = registry.marketOf
       /\ registry'.head = registry.head
       /\ registry'.next = registry.next
  BY <1>1, <1>4 DEF TypeOK, RegistryType
<1> QED
  BY <1>9, <1>10, BooksStep

(* What users and keepers do keeps the invariant.                          *)
LEMMA UserStepInductive ==
  ASSUME Inductive, NEW t \in Recyclables, NEW u \in Users, UserStep(t, u)
  PROVE  Inductive'
<1>1. leveraged \subseteq Recyclables \X Users
  BY DEF Inductive, TypeOK
<1>2. ASSUME NEW n \in Amounts, DepositIntoDolomiteMargin(t, u, n)
      PROVE  Inductive'
  BY <1>1, <1>2, CreditStep DEF DepositIntoDolomiteMargin
<1>3. ASSUME NEW n \in Amounts, WithdrawFromDolomiteMargin(t, u, n)
      PROVE  Inductive'
  BY <1>1, <1>3, DebitStep DEF WithdrawFromDolomiteMargin
<1>4. ASSUME NEW n \in Amounts, TradeOpen(t, u, n)
      PROVE  Inductive'
  BY <1>1, <1>4, CreditStep DEF TradeOpen
<1>5. ASSUME NEW n \in Amounts, TradeClose(t, u, n)
      PROVE  Inductive'
  BY <1>1, <1>5, DebitStep DEF TradeClose
<1>6. ASSUME NEW n \in Amounts, Liquidated(t, u, n)
      PROVE  Inductive'
  BY <1>1, <1>6, DebitStep DEF Liquidated
<1>7. ASSUME WithdrawAfterRecycle(t, u)
      PROVE  Inductive'
  <2>1. TypeOK'
    <3>1. held[t] - par[t][u] \in Nat
      BY <1>7 DEF WithdrawAfterRecycle, Inductive, TypeOK
    <3> QED
      BY <1>7, <3>1 DEF WithdrawAfterRecycle, Inductive, TypeOK
  <2> QED
    BY <1>7, <2>1, BooksStep DEF WithdrawAfterRecycle
<1> QED
  BY <1>2, <1>3, <1>4, <1>5, <1>6, <1>7 DEF UserStep

(* Adding a market keeps the invariant.                                    *)
LEMMA AddStepInductive ==
  ASSUME Inductive, NEW t \in Tokens, OwnerAddMarket(t)
  PROVE  Inductive'
<1> DEFINE id == NewMarketId(registry)
<1>0. PICK b \in BOOLEAN : b <=> t \in Recyclables
  <2>1. CASE t \in Recyclables
    <3> SUFFICES TRUE <=> t \in Recyclables
      OBVIOUS
    <3> QED  BY <2>1
  <2>2. CASE t \notin Recyclables
    <3> SUFFICES FALSE <=> t \in Recyclables
      OBVIOUS
    <3> QED  BY <2>2
  <2> QED
    BY <2>1, <2>2
<1>1. /\ TypeOK
      /\ registry \in RegistryType
      /\ id < MaxMarkets
      /\ registry' = AddMarket(registry, t, b)
      /\ NoMarket(registry, t)
      /\ UNCHANGED <<isRecycled, held, par, leveraged, withdrawn, now, removals>>
  BY <1>0 DEF Inductive, TypeOK, OwnerAddMarket
<1>2. registry' \in RegistryType /\ id \in MarketIds
  BY <1>1, AddMarketType
<1>3. /\ registry'.token = [registry.token EXCEPT ![id] = t]
      /\ registry'.recyclable = [registry.recyclable EXCEPT ![id] = b]
      /\ registry'.head = IF registry.head = 0 THEN 0 ELSE registry.next[id]
      /\ registry'.numMarkets = IF registry.head = 0 THEN registry.numMarkets + 1
                                ELSE registry.numMarkets
      /\ registry'.marketOf = [registry.marketOf EXCEPT ![t] = id]
      /\ registry'.next = registry.next
  BY <1>1 DEF AddMarket
<1>4. /\ registry.token \in [MarketIds -> Tokens \cup {NoToken}]
      /\ registry.recyclable \in [MarketIds -> BOOLEAN]
      /\ registry.marketOf \in [Tokens -> MarketIds]
      /\ registry.next \in [MarketIds -> MarketIds]
      /\ registry.head \in MarketIds
      /\ registry.numMarkets \in 1..MaxMarkets
  BY <1>1 DEF RegistryType
<1>5. id \in MarketIds \ {0} /\ id < registry'.numMarkets
  <2>1. registry.head < registry.numMarkets
    BY DEF Inductive, LinksBounded
  <2>2. id # 0
    BY <1>4 DEF NewMarketId
  <2> QED
    BY <1>2, <1>3, <1>4, <2>1, <2>2 DEF NewMarketId, MarketIds
<1>6. /\ marketId' \in [Recyclables -> MarketIds]
      /\ marketId' = IF t \in Recyclables THEN [marketId EXCEPT ![t] = id]
                     ELSE marketId
      /\ t \in Recyclables => marketId[t] = 0
  BY <1>1, <1>2 DEF OwnerAddMarket, Initialize, TypeOK
<1>7. TypeOK'
  BY <1>1, <1>2, <1>6 DEF TypeOK
<1>8. MarketsFound'
  <2>1. \A k \in MarketIds : registry.token[k] # t
    <3> SUFFICES ASSUME NEW k \in MarketIds, registry.token[k] = t PROVE FALSE
      OBVIOUS
    <3>1. registry.marketOf[t] = k
      BY DEF Inductive, MarketsFound, FindsMarkets
    <3> QED
      BY <1>1, <3>1 DEF NoMarket
  <2>2. SUFFICES ASSUME NEW k \in MarketIds, registry'.token[k] # NoToken
                 PROVE  registry'.marketOf[registry'.token[k]] = k
    BY DEF MarketsFound, FindsMarkets
  <2>3. CASE k = id
    BY <1>2, <1>3, <1>4, <2>3
  <2>4. CASE k # id
    <3>1. registry'.token[k] = registry.token[k] /\ registry.token[k] \in Tokens
      BY <1>3, <1>4, <2>2, <2>4
    <3>2. registry.marketOf[registry.token[k]] = k
      BY <2>2, <3>1 DEF Inductive, MarketsFound, FindsMarkets
    <3> QED
      BY <1>3, <1>4, <2>1, <3>1, <3>2
  <2> QED
    BY <2>3, <2>4
<1>9. LinksBounded'
  <2>1. registry.numMarkets <= registry'.numMarkets
    BY <1>3, <1>4
  <2>2. \A k \in MarketIds :
          /\ registry.next[k] < registry.numMarkets
          /\ removals[k] = 0 => registry.next[k] = 0
    BY DEF Inductive, LinksBounded
  <2>5. \A k \in MarketIds : registry.next[k] \in Nat
    BY <1>4 DEF MarketIds
  <2>3. registry'.head < registry'.numMarkets
    BY <1>2, <1>3, <1>4, <2>1, <2>2, <2>5
  <2>4. \A k \in MarketIds :
          /\ registry'.next[k] < registry'.numMarkets
          /\ removals'[k] = 0 => registry'.next[k] = 0
    BY <1>1, <1>3, <1>4, <2>1, <2>2, <2>5
  <2> QED
    BY <2>3, <2>4 DEF LinksBounded
<1>10. OnlyProxiesRecyclable'
  <2>0. 0 \in MarketIds /\ id # 0
    BY <1>5 DEF MarketIds
  <2>1. registry'.token[0] # NoToken /\ ~registry'.recyclable[0]
    <3>1. /\ registry'.token[0] = registry.token[0]
          /\ registry'.recyclable[0] = registry.recyclable[0]
      BY <1>3, <1>4, <2>0
    <3> QED
      BY <3>1 DEF Inductive, OnlyProxiesRecyclable
  <2>2. ASSUME NEW k \in MarketIds
        PROVE  /\ registry'.recyclable[k] => registry'.token[k] \in Recyclables
               /\ k >= registry'.numMarkets => registry'.token[k] = NoToken
    <3>1. CASE k = id
      <4>1. registry'.recyclable[k] = b /\ registry'.token[k] = t
        BY <1>3, <1>4, <2>2, <3>1
      <4>2. ~(k >= registry'.numMarkets)
        BY <1>3, <1>4, <1>5, <3>1 DEF MarketIds
      <4> QED
        BY <1>0, <4>1, <4>2
    <3>2. CASE k # id
      <4>1. /\ registry'.recyclable[k] = registry.recyclable[k]
            /\ registry'.token[k] = registry.token[k]
        BY <1>3, <1>4, <3>2
      <4>2. k >= registry'.numMarkets => k >= registry.numMarkets
        BY <1>3, <1>4 DEF MarketIds
      <4> QED
        BY <4>1, <4>2 DEF Inductive, OnlyProxiesRecyclable
    <3> QED
      BY <3>1, <3>2
  <2> QED
    BY <2>1, <2>2 DEF OnlyProxiesRecyclable
<1>11. FreeIdsListed'
  <2>1. RecycledOnce' => RecycledOnce
    BY <1>1 DEF RecycledOnce
  <2>2. ListsFreeIds(registry) => ListsFreeIds(registry')
    BY <1>1, AddMarketList
  <2> QED
    BY <2>1, <2>2 DEF Inductive, FreeIdsListed
<1>12. MarketKept'
  <2>1. SUFFICES ASSUME RecycledOnce', NEW p \in Recyclables \ isRecycled,
                        marketId'[p] # 0
                 PROVE  registry'.token[marketId'[p]] = p
    BY <1>1 DEF MarketKept
  <2>2. RecycledOnce /\ ListsFreeIds(registry)
    BY <1>1, <2>1 DEF RecycledOnce, Inductive, FreeIdsListed
  <2>3. registry.token[id] = NoToken
    BY <1>1, <2>2, NewIdUnused DEF Inductive, OnlyProxiesRecyclable
  <2>4. CASE p = t
    BY <1>2, <1>3, <1>4, <1>6, <2>4 DEF Inductive, TypeOK
  <2>5. CASE p # t
    <3>1. marketId'[p] = marketId[p] /\ marketId[p] \in MarketIds
      BY <1>1, <1>6, <2>5 DEF TypeOK
    <3>2. registry.token[marketId[p]] = p
      BY <2>1, <2>2, <3>1 DEF Inductive, MarketKept
    <3>3. marketId[p] # id
      BY <2>3, <3>2
    <3> QED
      BY <1>3, <1>4, <3>1, <3>2, <3>3
  <2> QED
    BY <2>4, <2>5
<1> QED
  BY <1>7, <1>8, <1>9, <1>10, <1>11, <1>12 DEF Inductive

(* Removing a market keeps the invariant.                                  *)
LEMMA RemoveStepInductive ==
  ASSUME Inductive, NEW id \in MarketIds, OwnerRemoveMarket(id)
  PROVE  Inductive'
<1> DEFINE t == registry.token[id]
<1>1. /\ TypeOK
      /\ registry \in RegistryType
      /\ t # NoToken
      /\ registry.recyclable[id]
      /\ registry' = RemoveMarket(registry, id)
      /\ registry'.head = marketId[t]
      /\ t \notin isRecycled
      /\ isRecycled' = isRecycled \cup {t}
      /\ removals' = [removals EXCEPT ![id] = @ + 1]
      /\ UNCHANGED <<marketId, held, par, leveraged, withdrawn, now>>
  BY DEF Inductive, TypeOK, OwnerRemoveMarket, MayRemove, Recycle
<1>2. t \in Recyclables /\ id \in 1..(registry.numMarkets - 1) /\ id # 0
  <2>1. registry.numMarkets \in 1..MaxMarkets
    BY <1>1 DEF RegistryType
  <2>2. t \in Recyclables /\ id # 0
    BY <1>1 DEF Inductive, OnlyProxiesRecyclable
  <2>3. ~(id >= registry.numMarkets)
    BY <1>1 DEF Inductive, OnlyProxiesRecyclable
  <2> QED
    BY <2>1, <2>2, <2>3 DEF MarketIds
<1>3. /\ registry'.token = [registry.token EXCEPT ![id] = NoToken]
      /\ registry'.recyclable = [registry.recyclable EXCEPT ![id] = FALSE]
      /\ registry'.head = id
      /\ registry'.numMarkets = registry.numMarkets
      /\ registry'.marketOf = [registry.marketOf EXCEPT ![t] = 0]
      /\ registry'.next = IF registry.head = 0 THEN registry.next
                          ELSE [registry.next EXCEPT ![id] = registry.head]
  BY <1>1 DEF RemoveMarket
<1>4. /\ registry.token \in [MarketIds -> Tokens \cup {NoToken}]
      /\ registry.recyclable \in [MarketIds -> BOOLEAN]
      /\ registry.marketOf \in [Tokens -> MarketIds]
      /\ registry.next \in [MarketIds -> MarketIds]
      /\ registry.head \in MarketIds
      /\ registry.numMarkets \in 1..MaxMarkets
      /\ removals \in [MarketIds -> Nat]
      /\ t \in Tokens
  BY <1>1 DEF RegistryType, TypeOK
<1>5. TypeOK'
  <2>1. registry' \in RegistryType
    BY <1>1, RemoveMarketType
  <2>2. removals' \in [MarketIds -> Nat]
    BY <1>1, <1>4
  <2> QED
    BY <1>1, <1>2, <2>1, <2>2 DEF TypeOK
<1>6. MarketsFound'
  <2> SUFFICES ASSUME NEW k \in MarketIds, registry'.token[k] # NoToken
               PROVE  registry'.marketOf[registry'.token[k]] = k
    BY DEF MarketsFound, FindsMarkets
  <2>1. k # id /\ registry'.token[k] = registry.token[k]
    BY <1>3, <1>4
  <2>2. registry.marketOf[registry.token[k]] = k /\ registry.marketOf[t] = id
    BY <1>1, <2>1 DEF Inductive, MarketsFound, FindsMarkets
  <2>3. registry.token[k] # t /\ registry.token[k] \in Tokens
    BY <1>4, <2>1, <2>2
  <2> QED
    BY <1>3, <1>4, <2>1, <2>2, <2>3
<1>7. LinksBounded'
  <2>1. registry.head < registry.numMarkets /\ id < registry.numMarkets
    BY <1>2, <1>4 DEF Inductive, LinksBounded
  <2>2. ASSUME NEW k \in MarketIds
        PROVE  /\ registry'.next[k] < registry'.numMarkets
               /\ removals'[k] = 0 => registry'.next[k] = 0
    <3>1. /\ registry.next[k] < registry.numMarkets
          /\ removals[k] = 0 => registry.next[k] = 0
      BY DEF Inductive, LinksBounded
    <3>2. registry'.next[k] < registry'.numMarkets
      BY <1>3, <1>4, <2>1, <3>1
    <3>3. CASE k = id
      <4>1. removals'[k] # 0
        BY <1>1, <1>4, <3>3
      <4> QED
        BY <3>2, <4>1
    <3>4. CASE k # id
      <4>1. removals'[k] = removals[k] /\ registry'.next[k] = registry.next[k]
        BY <1>1, <1>3, <1>4, <3>4
      <4> QED
        BY <3>1, <3>2, <4>1
    <3> QED
      BY <3>3, <3>4
  <2>3. registry'.head < registry'.numMarkets
    BY <1>3, <2>1
  <2> QED
    BY <2>2, <2>3 DEF LinksBounded
<1>8. OnlyProxiesRecyclable'
  <2>1. registry'.token[0] # NoToken /\ ~registry'.recyclable[0]
    <3>1. 0 \in MarketIds
      BY DEF MarketIds
    <3>2. /\ registry'.token[0] = registry.token[0]
          /\ registry'.recyclable[0] = registry.recyclable[0]
      BY <1>2, <1>3, <1>4, <3>1
    <3> QED
      BY <3>2 DEF Inductive, OnlyProxiesRecyclable
  <2>2. ASSUME NEW k \in MarketIds
        PROVE  /\ registry'.recyclable[k] => registry'.token[k] \in Recyclables
               /\ k >= registry'.numMarkets => registry'.token[k] = NoToken
    <3>1. CASE k = id
      BY <1>3, <1>4, <3>1
    <3>2. CASE k # id
      <4>1. /\ registry'.recyclable[k] = registry.recyclable[k]
            /\ registry'.token[k] = registry.token[k]
        BY <1>3, <1>4, <3>2
      <4> QED
        BY <1>3, <4>1 DEF Inductive, OnlyProxiesRecyclable
    <3> QED
      BY <3>1, <3>2
  <2> QED
    BY <2>1, <2>2 DEF OnlyProxiesRecyclable
<1>9. ASSUME RecycledOnce'
      PROVE  RecycledOnce /\ removals[id] = 0
  <2>1. ASSUME NEW k \in MarketIds
        PROVE  removals[k] <= removals'[k] /\ removals'[k] <= 1
    BY <1>1, <1>4, <1>9 DEF RecycledOnce
  <2>2. removals'[id] = removals[id] + 1
    BY <1>1, <1>4
  <2>3. removals[id] = 0
    BY <1>4, <2>1, <2>2
  <2>4. \A k \in MarketIds : removals[k] \in Nat /\ removals'[k] \in Nat
    BY <1>4, <1>5 DEF TypeOK
  <2> QED
    BY <2>1, <2>3, <2>4 DEF RecycledOnce
<1>10. FreeIdsListed'
  <2> SUFFICES ASSUME RecycledOnce' PROVE ListsFreeIds(registry')
    BY DEF FreeIdsListed
  <2>1. ListsFreeIds(registry) /\ registry.next[id] = 0
    BY <1>9 DEF Inductive, FreeIdsListed, LinksBounded
  <2> QED
    BY <1>1, <1>2, <2>1, RemoveMarketList
<1>11. MarketKept'
  <2> SUFFICES ASSUME RecycledOnce', NEW p \in Recyclables \ isRecycled',
                      marketId'[p] # 0
               PROVE  registry'.token[marketId'[p]] = p
    BY DEF MarketKept
  <2>1. p # t /\ p \notin isRecycled /\ marketId'[p] = marketId[p]
    BY <1>1
  <2>2. registry.token[marketId[p]] = p /\ marketId[p] \in MarketIds
    BY <1>1, <1>9, <2>1 DEF Inductive, MarketKept, TypeOK
  <2>3. marketId[p] # id
    BY <2>1, <2>2
  <2> QED
    BY <1>3, <1>4, <2>1, <2>2, <2>3
<1> QED
  BY <1>5, <1>6, <1>7, <1>8, <1>10, <1>11 DEF Inductive

(* The invariant holds after deployment.                                   *)
LEMMA InitInductive == Init => Inductive
<1> SUFFICES ASSUME Init PROVE Inductive
  OBVIOUS
<1>1. 0 \in MarketIds /\ 1 \in 1..MaxMarkets
  BY DEF MarketIds
<1>2. InitialRegistry \in RegistryType
  BY <1>1 DEF InitialRegistry, RegistryType
<1>3. TypeOK
  BY <1>1, <1>2 DEF Init, TypeOK
<1>4. /\ registry.numMarkets = 1 /\ registry.head = 0
      /\ registry.token = [id \in MarketIds |->
                             IF id = 0 THEN NativeToken ELSE NoToken]
      /\ registry.recyclable = [id \in MarketIds |-> FALSE]
      /\ registry.marketOf = [t \in Tokens |-> 0]
      /\ registry.next = [id \in MarketIds |-> 0]
  BY DEF Init, InitialRegistry
<1>5. MarketsFound
  BY <1>1, <1>4 DEF MarketsFound, FindsMarkets
<1>6. LinksBounded /\ OnlyProxiesRecyclable
  BY <1>1, <1>4 DEF LinksBounded, OnlyProxiesRecyclable, MarketIds
<1>7. FreeIdsListed
  <2>1. FreeIds(registry) = {}
    BY <1>4 DEF FreeIds
  <2>2. Cardinality(FreeIds(registry)) = 0
    BY <2>1, FS_EmptySet
  <2>3. [i \in 1..0 |-> 0] \in [1..0 -> {}]
    OBVIOUS
  <2>4. IsChain(registry, [i \in 1..0 |-> 0], 0, {})
    BY <1>4, <2>3 DEF IsChain
  <2> QED
    BY <2>1, <2>2, <2>3, <2>4 DEF FreeIdsListed, ListsFreeIds
<1>8. MarketKept
  BY DEF Init, MarketKept
<1> QED
  BY <1>3, <1>5, <1>6, <1>7, <1>8 DEF Inductive

(* Every step keeps the invariant.                                         *)
LEMMA NextInductive == Inductive /\ [Next]_vars => Inductive'
<1> SUFFICES ASSUME Inductive, [Next]_vars PROVE Inductive'
  OBVIOUS
<1>1. ASSUME NEW t \in Tokens, OwnerAddMarket(t) PROVE Inductive'
  BY <1>1, AddStepInductive
<1>2. ASSUME NEW id \in MarketIds, OwnerRemoveMarket(id) PROVE Inductive'
  BY <1>2, RemoveStepInductive
<1>3. ASSUME NEW t \in Recyclables, NEW u \in Users, UserStep(t, u)
      PROVE  Inductive'
  BY <1>3, UserStepInductive
<1>4. CASE Tick
  <2>1. TypeOK'
    BY <1>4 DEF Tick, Inductive, TypeOK
  <2> QED
    BY <1>4, <2>1, BooksStep DEF Tick
<1>5. CASE UNCHANGED vars
  <2>1. TypeOK'
    BY <1>5 DEF vars, Inductive, TypeOK
  <2> QED
    BY <1>5, <2>1, BooksStep DEF vars
<1> QED
  BY <1>1, <1>2, <1>3, <1>4, <1>5 DEF Next

-----------------------------------------------------------------------------
(* The invariant holds in every state: registry, proxies and books are     *)
(* well typed, the free ids are in the list and live proxies have their    *)
(* markets until an id is removed a second time.                           *)
THEOREM RegistryInductive == Spec => []Inductive
  BY InitInductive, NextInductive, PTL DEF Spec

(* The registry and the proxies' books always have their types: nobody is  *)
(* paid more than there is.                                                *)
THEOREM RecyclingTypeCorrect == Spec => []TypeOK
<1>1. Inductive => TypeOK
  BY DEF Inductive
<1> QED
  BY <1>1, RegistryInductive, PTL

(* A token is never listed twice, and its market is found from it.         *)
THEOREM TokensListedOnce == Spec => []MarketsFound
<1>1. Inductive => MarketsFound
  BY DEF Inductive
<1> QED
  BY <1>1, RegistryInductive, PTL

(* The list of free ids is right as long as no id was removed twice.       *)
THEOREM FreeListRight == Spec => []FreeIdsListed
<1>1. Inductive => FreeIdsListed
  BY DEF Inductive
<1> QED
  BY <1>1, RegistryInductive, PTL

(* A live proxy keeps its market as long as no id was removed twice.       *)
THEOREM ProxiesKeepMarkets == Spec => []MarketKept
<1>1. Inductive => MarketKept
  BY DEF Inductive
<1> QED
  BY <1>1, RegistryInductive, PTL

-----------------------------------------------------------------------------
(* What the users of a proxy may claim.                                    *)

Unpaid(t)     == {v \in Users : <<t, v>> \notin withdrawn}
ClaimsOf(t)   == [u \in Unpaid(t) |-> par[t][u]]

(* The claims are a sum over finitely many users.                          *)
LEMMA ClaimsType ==
  ASSUME TypeOK, NEW t \in Recyclables
  PROVE  /\ Claims(t) = SumFunction(ClaimsOf(t))
         /\ IsFiniteSet(Unpaid(t))
         /\ ClaimsOf(t) \in [Unpaid(t) -> Int]
         /\ Claims(t) \in Int
<1>1. IsFiniteSet(Unpaid(t))
  BY FS_Subset DEF Unpaid
<1>2. ClaimsOf(t) \in [Unpaid(t) -> Int]
  BY DEF TypeOK, Unpaid, ClaimsOf
<1>3. Claims(t) = SumFunction(ClaimsOf(t))
  BY DEF Claims, ClaimsOf, Unpaid
<1> QED
  BY <1>1, <1>2, <1>3, SumType

(* Claims depend on the balances of the proxy and on who was paid.         *)
LEMMA SameClaims ==
  ASSUME NEW t \in Recyclables, par'[t] = par[t],
         \A v \in Users : <<t, v>> \in withdrawn' <=> <<t, v>> \in withdrawn
  PROVE  Claims(t)' = Claims(t)
<1>1. Unpaid(t)' = Unpaid(t)
  BY DEF Unpaid
<1>2. ClaimsOf(t)' = ClaimsOf(t)
  BY <1>1 DEF ClaimsOf
<1> QED
  BY <1>2 DEF Claims, ClaimsOf, Unpaid

(* A change of the balance of one user changes the claims by as much.      *)
LEMMA ClaimChanges ==
  ASSUME TypeOK, TypeOK', NEW t \in Recyclables, NEW u \in Users,
         NEW new \in Nat, par' = [par EXCEPT ![t][u] = new],
         withdrawn' = withdrawn, <<t, u>> \notin withdrawn
  PROVE  Claims(t)' = Claims(t) - par[t][u] + new
<1>1. Unpaid(t)' = Unpaid(t) /\ u \in Unpaid(t)
  BY DEF Unpaid
<1>2. /\ par'[t][u] = new
      /\ \A v \in Users \ {u} : par'[t][v] = par[t][v]
  BY DEF TypeOK
<1>3. /\ Claims(t) = SumFunction(ClaimsOf(t))
      /\ IsFiniteSet(Unpaid(t))
      /\ ClaimsOf(t) \in [Unpaid(t) -> Int]
  BY ClaimsType
<1>4. /\ Claims(t)' = SumFunction(ClaimsOf(t)')
      /\ ClaimsOf(t)' \in [Unpaid(t) -> Int]
  <2>1. /\ (Claims(t) = SumFunction(ClaimsOf(t)))'
        /\ (ClaimsOf(t) \in [Unpaid(t) -> Int])'
    BY ClaimsType, PTL
  <2> QED
    BY <1>1, <2>1
<1>5. /\ ClaimsOf(t)[u] = par[t][u] /\ ClaimsOf(t)'[u] = new
      /\ \A v \in Unpaid(t) \ {u} : ClaimsOf(t)'[v] = ClaimsOf(t)[v]
  BY <1>1, <1>2 DEF ClaimsOf, Unpaid
<1>6. SumFunction(ClaimsOf(t)') =
        SumFunction(ClaimsOf(t)) - ClaimsOf(t)[u] + ClaimsOf(t)'[u]
  <2> DEFINE S == Unpaid(t)
             f == ClaimsOf(t)
             g == ClaimsOf(t)'
  <2>1. /\ IsFiniteSet(S) /\ f \in [S -> Int] /\ g \in [S -> Int] /\ u \in S
        /\ \A v \in S \ {u} : g[v] = f[v]
    BY <1>1, <1>3, <1>4, <1>5
  <2> HIDE DEF S, f, g
  <2>2. SumFunction(g) = SumFunction(f) - f[u] + g[u]
    BY <2>1, SumChange
  <2> QED
    BY <2>2 DEF f, g
<1> QED
  BY <1>3, <1>4, <1>5, <1>6

-----------------------------------------------------------------------------
(* Proxies stay backed.                                                    *)

(* The claims of one proxy are backed.                                     *)
BackedProxy(t) ==
  /\ held[t] >= Claims(t)
  /\ marketId[t] # 0 /\ t \notin isRecycled
       => registry.supply[marketId[t]] = Claims(t)

(* The ids of two live proxies differ.                                     *)
LEMMA OwnMarket ==
  ASSUME Inductive, RecycledOnce, NEW t \in Recyclables \ isRecycled,
         marketId[t] # 0
  PROVE  registry.token[marketId[t]] = t
BY DEF Inductive, MarketKept

(* A credit backs what it adds to the claims.                              *)
LEMMA CreditBacked ==
  ASSUME Inductive, Inductive', Backed, NEW t \in Recyclables \ isRecycled,
         NEW u \in Users, NEW n \in Amounts, Credit(t, u, n),
         UNCHANGED <<marketId, isRecycled, removals, now, withdrawn>>,
         \A account \in leveraged' : now <= MaxExpiration[account[1]] + Week
  PROVE  Backed'
<1> DEFINE id == marketId[t]
<1>1. TypeOK /\ TypeOK' /\ n \in Nat
  BY DEF Inductive
<1>2. /\ registry.token[id] = t /\ id \in MarketIds
      /\ registry'.token = registry.token
      /\ registry'.supply = [registry.supply EXCEPT ![id] = @ + n]
      /\ par' = [par EXCEPT ![t][u] = par[t][u] + n]
      /\ held' = [held EXCEPT ![t] = held[t] + n]
  BY <1>1 DEF Credit, TypeOK, RegistryType
<1>3. id # 0 /\ t # NoToken /\ t # NativeToken
  BY <1>2 DEF Backed
<1>4. par[t][u] + n \in Nat /\ <<t, u>> \notin withdrawn
  BY <1>1 DEF Backed, TypeOK
<1>5. Claims(t)' = Claims(t) - par[t][u] + (par[t][u] + n)
  <2> DEFINE new == par[t][u] + n
  <2>1. /\ t \in Recyclables /\ new \in Nat /\ withdrawn' = withdrawn
        /\ <<t, u>> \notin withdrawn /\ par' = [par EXCEPT ![t][u] = new]
    BY <1>1, <1>2, <1>4
  <2> HIDE DEF new
  <2>2. Claims(t)' = Claims(t) - par[t][u] + new
    BY <1>1, <2>1, ClaimChanges
  <2> QED
    BY <2>2 DEF new
<1>6. Claims(t)' = Claims(t) + n
  BY <1>1, <1>5, ClaimsType DEF TypeOK
<1>7. ASSUME RecycledOnce', NEW k \in Recyclables PROVE BackedProxy(k)'
  <2>1. RecycledOnce /\ BackedProxy(k)
    BY <1>7 DEF RecycledOnce, Backed, ClaimsBacked, BackedProxy
  <2>2. CASE k = t
    <3>1. held'[t] = held[t] + n /\ registry'.supply[id] = registry.supply[id] + n
      BY <1>1, <1>2 DEF TypeOK, RegistryType
    <3> QED
      BY <1>1, <1>3, <1>6, <2>1, <2>2, <3>1, ClaimsType DEF BackedProxy, TypeOK
  <2>3. CASE k # t
    <3>1. Claims(k)' = Claims(k)
      <4>1. par'[k] = par[k]
        BY <1>1, <1>2, <2>3 DEF TypeOK
      <4> QED
        BY <4>1, SameClaims
    <3>2. held'[k] = held[k]
      BY <1>1, <1>2, <2>3 DEF TypeOK
    <3>3. ASSUME marketId[k] # 0, k \notin isRecycled
          PROVE  registry'.supply[marketId[k]] = registry.supply[marketId[k]]
      <4>1. registry.token[marketId[k]] = k
        BY <2>1, <3>3, OwnMarket
      <4>2. marketId[k] # id /\ marketId[k] \in MarketIds
        BY <1>1, <1>2, <2>3, <4>1 DEF TypeOK
      <4> QED
        BY <1>1, <1>2, <4>2 DEF TypeOK, RegistryType
    <3> QED
      BY <2>1, <3>1, <3>2, <3>3 DEF BackedProxy
  <2> QED
    BY <2>2, <2>3
<1>8. ClaimsBacked'
  BY <1>7 DEF ClaimsBacked, BackedProxy
<1>9. \A k \in Recyclables, v \in Users : marketId[k] = 0 => par'[k][v] = 0
  <2>1. \A k \in Recyclables : marketId[k] = 0 => par'[k] = par[k]
    BY <1>1, <1>2, <1>3 DEF TypeOK
  <2> QED
    BY <2>1 DEF Backed
<1>10. \A k \in MarketIds : registry'.token[k] = NoToken => registry'.supply[k] = 0
  BY <1>1, <1>2, <1>3 DEF Backed, TypeOK, RegistryType
<1> QED
  BY <1>2, <1>8, <1>9, <1>10 DEF Backed

(* A debit of a live proxy takes from its claims what it takes from it.    *)
LEMMA DebitBacked ==
  ASSUME Inductive, Inductive', Backed, NEW t \in Recyclables \ isRecycled,
         NEW u \in Users, NEW n \in Amounts, Debit(t, u, n),
         UNCHANGED <<marketId, isRecycled, removals, now, withdrawn>>,
         leveraged' \subseteq leveraged
  PROVE  Backed'
<1> DEFINE id == marketId[t]
           m  == registry.token[id]
<1>1. TypeOK /\ TypeOK' /\ n \in Nat \ {0}
  BY DEF Inductive
<1>2. /\ id \in MarketIds /\ m \in Recyclables \ isRecycled
      /\ n <= par[t][u] /\ n <= registry.supply[id] /\ n <= held[m]
      /\ registry'.token = registry.token
      /\ registry'.supply = [registry.supply EXCEPT ![id] = @ - n]
      /\ par' = [par EXCEPT ![t][u] = par[t][u] - n]
      /\ held' = [held EXCEPT ![m] = held[m] - n]
  BY <1>1 DEF Debit, Affordable, TypeOK, RegistryType
<1>3. par[t][u] \in Nat /\ par[t][u] - n \in Nat /\ <<t, u>> \notin withdrawn
  BY <1>1, <1>2 DEF Backed, TypeOK
<1>4. id # 0
  BY <1>1, <1>2, <1>3 DEF Backed
<1>5. Claims(t)' = Claims(t) - par[t][u] + (par[t][u] - n)
  <2> DEFINE new == par[t][u] - n
  <2>1. /\ t \in Recyclables /\ new \in Nat /\ withdrawn' = withdrawn
        /\ <<t, u>> \notin withdrawn /\ par' = [par EXCEPT ![t][u] = new]
    BY <1>1, <1>2, <1>3
  <2> HIDE DEF new
  <2>2. Claims(t)' = Claims(t) - par[t][u] + new
    BY <1>1, <2>1, ClaimChanges
  <2> QED
    BY <2>2 DEF new
<1>6. Claims(t)' = Claims(t) - n
  BY <1>1, <1>3, <1>5, ClaimsType
<1>7. ASSUME RecycledOnce', NEW k \in Recyclables PROVE BackedProxy(k)'
  <2>1. RecycledOnce /\ BackedProxy(k)
    BY <1>7 DEF RecycledOnce, Backed, ClaimsBacked, BackedProxy
  <2>2. m = t
    BY <1>4, <2>1, OwnMarket
  <2>3. CASE k = t
    <3>1. held'[t] = held[t] - n /\ registry'.supply[id] = registry.supply[id] - n
      BY <1>1, <1>2, <2>2 DEF TypeOK, RegistryType
    <3>2. held[t] \in Nat /\ registry.supply[id] \in Nat /\ Claims(t) \in Int
      BY <1>1, <1>2, ClaimsType DEF TypeOK, RegistryType
    <3> QED
      BY <1>1, <1>4, <1>6, <2>1, <2>3, <3>1, <3>2 DEF BackedProxy
  <2>4. CASE k # t
    <3>1. Claims(k)' = Claims(k)
      <4>1. par'[k] = par[k]
        BY <1>1, <1>2, <2>4 DEF TypeOK
      <4> QED
        BY <4>1, SameClaims
    <3>2. held'[k] = held[k]
      BY <1>1, <1>2, <2>2, <2>4 DEF TypeOK
    <3>3. ASSUME marketId[k] # 0, k \notin isRecycled
          PROVE  registry'.supply[marketId[k]] = registry.supply[marketId[k]]
      <4>1. registry.token[marketId[k]] = k
        BY <2>1, <3>3, OwnMarket
      <4>2. marketId[k] # id /\ marketId[k] \in MarketIds
        BY <1>1, <1>2, <2>2, <2>4, <4>1 DEF TypeOK
      <4> QED
        BY <1>1, <1>2, <4>2 DEF TypeOK, RegistryType
    <3> QED
      BY <2>1, <3>1, <3>2, <3>3 DEF BackedProxy
  <2> QED
    BY <2>3, <2>4
<1>8. ClaimsBacked'
  BY <1>7 DEF ClaimsBacked, BackedProxy
<1>9. \A k \in Recyclables, v \in Users : marketId[k] = 0 => par'[k][v] = 0
  <2>1. \A k \in Recyclables : marketId[k] = 0 => par'[k] = par[k]
    BY <1>1, <1>2, <1>4 DEF TypeOK
  <2> QED
    BY <2>1 DEF Backed
<1>10. \A k \in MarketIds : registry'.token[k] = NoToken => registry'.supply[k] = 0
  BY <1>1, <1>2 DEF Backed, TypeOK, RegistryType
<1> QED
  BY <1>2, <1>8, <1>9, <1>10 DEF Backed

(* A withdrawal after the recycling takes a whole claim.                   *)
LEMMA WithdrawalBacked ==
  ASSUME Inductive, Inductive', Backed, NEW t \in Recyclables, NEW u \in Users,
         WithdrawAfterRecycle(t, u)
  PROVE  Backed'
<1>1. /\ TypeOK /\ TypeOK' /\ t \in isRecycled /\ <<t, u>> \notin withdrawn
      /\ withdrawn' = withdrawn \cup {<<t, u>>}
      /\ held' = [held EXCEPT ![t] = held[t] - par[t][u]]
      /\ UNCHANGED <<registry, marketId, isRecycled, par, leveraged, now, removals>>
  BY DEF WithdrawAfterRecycle, Inductive
<1>2. Claims(t)' = Claims(t) - par[t][u]
  <2> DEFINE S == Unpaid(t)
             f == ClaimsOf(t)
             g == ClaimsOf(t)'
  <2>1. u \in S /\ Unpaid(t)' = S \ {u}
    BY <1>1 DEF Unpaid
  <2>2. Claims(t) = SumFunction(f) /\ IsFiniteSet(S) /\ f \in [S -> Int]
    BY <1>1, ClaimsType
  <2>3. Claims(t)' = SumFunction(g) /\ g \in [S \ {u} -> Int]
    <3>1. /\ (Claims(t) = SumFunction(ClaimsOf(t)))'
          /\ (ClaimsOf(t) \in [Unpaid(t) -> Int])'
      BY <1>1, ClaimsType, PTL
    <3> QED
      BY <2>1, <3>1
  <2>4. f[u] = par[t][u] /\ \A v \in S \ {u} : g[v] = f[v]
    BY <1>1, <2>1 DEF ClaimsOf, Unpaid
  <2> HIDE DEF S, f, g
  <2>5. SumFunction(g) = SumFunction(f) - f[u]
    BY ONLY <2>1, <2>2, <2>3, <2>4, SumLess
  <2> QED
    BY <2>2, <2>3, <2>4, <2>5
<1>3. ASSUME RecycledOnce', NEW k \in Recyclables PROVE BackedProxy(k)'
  <2>1. RecycledOnce /\ BackedProxy(k)
    BY <1>1, <1>3 DEF RecycledOnce, Backed, ClaimsBacked, BackedProxy
  <2>2. CASE k = t
    <3>1. held'[t] = held[t] - par[t][u]
      BY <1>1 DEF TypeOK
    <3>2. held[t] \in Nat /\ par[t][u] \in Nat /\ Claims(t) \in Int
      BY <1>1, ClaimsType DEF TypeOK
    <3> QED
      BY <1>1, <1>2, <2>1, <2>2, <3>1, <3>2 DEF BackedProxy
  <2>3. CASE k # t
    <3>1. Claims(k)' = Claims(k)
      BY <1>1, <2>3, SameClaims
    <3>2. held'[k] = held[k]
      BY <1>1, <2>3 DEF TypeOK
    <3> QED
      BY <1>1, <2>1, <3>1, <3>2 DEF BackedProxy
  <2> QED
    BY <2>2, <2>3
<1>4. ClaimsBacked'
  BY <1>3 DEF ClaimsBacked, BackedProxy
<1> QED
  BY <1>1, <1>4 DEF Backed

(* What leaves balances, tokens held and payments alone leaves the claims. *)
LEMMA QuietBacked ==
  ASSUME Inductive, Backed, UNCHANGED <<registry, marketId, isRecycled, held, par,
                                        withdrawn, removals>>,
         now <= now', now' \in Nat,
         \A account \in leveraged' : now' <= MaxExpiration[account[1]] + Week
  PROVE  Backed'
<1>1. \A t \in Recyclables : Claims(t)' = Claims(t)
  BY SameClaims
<1>2. ClaimsBacked'
  BY <1>1 DEF Backed, ClaimsBacked, RecycledOnce
<1>3. \A t \in isRecycled : MaxExpiration[t] + Week < now'
  <2> TAKE t \in isRecycled
  <2>1. MaxExpiration[t] + Week < now /\ t \in Recyclables /\ now \in Nat
    BY DEF Backed, Inductive, TypeOK
  <2>2. MaxExpiration[t] + Week \in Nat
    BY <2>1
  <2> QED
    BY <2>1, <2>2
<1> QED
  BY <1>2, <1>3 DEF Backed

(* A new market starts with no supply and its proxy with no claims.        *)
LEMMA AddBacked ==
  ASSUME Inductive, Inductive', Backed, NEW t \in Tokens, OwnerAddMarket(t)
  PROVE  Backed'
<1> DEFINE id == NewMarketId(registry)
<1>1. /\ TypeOK /\ TypeOK'
      /\ id < MaxMarkets
      /\ registry' = AddMarket(registry, t, t \in Recyclables)
      /\ UNCHANGED <<isRecycled, held, par, leveraged, withdrawn, now, removals>>
  BY DEF OwnerAddMarket, Inductive
<1>2. /\ registry.numMarkets \in 1..MaxMarkets /\ registry.head \in MarketIds
      /\ registry.token \in [MarketIds -> Tokens \cup {NoToken}]
  BY <1>1 DEF TypeOK, RegistryType
<1>3. id \in MarketIds \ {0}
  BY <1>1, <1>2 DEF NewMarketId, MarketIds
<1>4. /\ registry'.token = [registry.token EXCEPT ![id] = t]
      /\ registry'.supply = registry.supply
  BY <1>1 DEF AddMarket
<1>5. marketId' = IF t \in Recyclables THEN [marketId EXCEPT ![t] = id] ELSE marketId
  BY DEF OwnerAddMarket, Initialize
<1>6. \A k \in Recyclables : Claims(k)' = Claims(k)
  BY <1>1, SameClaims
<1>7. ASSUME t \in Recyclables, RecycledOnce'
      PROVE  Claims(t) = 0 /\ registry.supply[id] = 0
  <2>1. marketId[t] = 0
    BY <1>7 DEF OwnerAddMarket, Initialize
  <2>2. /\ IsFiniteSet(Unpaid(t)) /\ ClaimsOf(t) \in [Unpaid(t) -> Int]
        /\ Claims(t) = SumFunction(ClaimsOf(t))
    BY <1>1, <1>7, ClaimsType
  <2>3. \A u \in Unpaid(t) : ClaimsOf(t)[u] = 0
    BY <1>7, <2>1 DEF Backed, ClaimsOf, Unpaid
  <2>4. Claims(t) = 0
    BY <2>2, <2>3, SumZero
  <2>5. registry.token[id] = NoToken
    <3>1. RecycledOnce
      BY <1>1, <1>7 DEF RecycledOnce
    <3>2. \A k \in MarketIds : k >= registry.numMarkets => registry.token[k] = NoToken
      BY DEF Inductive, OnlyProxiesRecyclable
    <3>3. registry \in RegistryType /\ ListsFreeIds(registry)
      BY <1>1, <3>1 DEF Inductive, FreeIdsListed, TypeOK
    <3> QED
      BY <1>1, <3>2, <3>3, NewIdUnused
  <2> QED
    BY <1>3, <2>4, <2>5 DEF Backed
<1>8. ASSUME RecycledOnce', NEW k \in Recyclables PROVE BackedProxy(k)'
  <2>1. RecycledOnce /\ BackedProxy(k)
    BY <1>1, <1>8 DEF RecycledOnce, Backed, ClaimsBacked, BackedProxy
  <2>2. marketId[k] \in MarketIds /\ marketId \in [Recyclables -> MarketIds]
    BY <1>1 DEF TypeOK
  <2>3. CASE k = t
    <3>1. marketId'[k] = id
      BY <1>5, <2>2, <2>3
    <3> QED
      BY <1>1, <1>4, <1>6, <1>7, <1>8, <2>1, <2>3, <3>1 DEF BackedProxy
  <2>4. CASE k # t
    <3>1. marketId'[k] = marketId[k]
      BY <1>5, <2>2, <2>4
    <3> QED
      BY <1>1, <1>4, <1>6, <2>1, <3>1 DEF BackedProxy
  <2> QED
    BY <2>3, <2>4
<1>9. ClaimsBacked'
  BY <1>8 DEF ClaimsBacked, BackedProxy
<1>10. \A k \in Recyclables : marketId'[k] = 0 => marketId[k] = 0
  BY <1>1, <1>3, <1>5 DEF TypeOK
<1>11. \A k \in Recyclables : marketId[k] # 0 => marketId'[k] # 0
  BY <1>1, <1>3, <1>5 DEF TypeOK
<1>12. /\ registry'.token[0] = NativeToken
       /\ \A k \in MarketIds : registry'.token[k] = NoToken => registry.token[k] = NoToken
  <2>1. 0 \in MarketIds /\ t # NoToken
    BY DEF MarketIds
  <2> QED
    BY <1>2, <1>3, <1>4, <2>1 DEF Backed
<1>13. isRecycled \subseteq Recyclables
  BY <1>1 DEF TypeOK
<1> QED
  BY <1>1, <1>4, <1>9, <1>10, <1>11, <1>12, <1>13 DEF Backed

(* A market is removed when no account of its proxy is leveraged any more. *)
LEMMA RemoveBacked ==
  ASSUME Inductive, Inductive', Backed, NEW id \in MarketIds, OwnerRemoveMarket(id)
  PROVE  Backed'
<1> DEFINE t == registry.token[id]
<1>1. /\ TypeOK /\ TypeOK'
      /\ t # NoToken /\ registry.recyclable[id]
      /\ MaxExpiration[t] + Week < now
      /\ registry' = RemoveMarket(registry, id)
      /\ registry'.head = marketId[t]
      /\ isRecycled' = isRecycled \cup {t}
      /\ removals' = [removals EXCEPT ![id] = @ + 1]
      /\ UNCHANGED <<marketId, held, par, leveraged, withdrawn, now>>
  BY DEF Inductive, OwnerRemoveMarket, MayRemove, Recycle
<1>2. t \in Recyclables /\ id # 0
  BY <1>1 DEF Inductive, OnlyProxiesRecyclable
<1>3. /\ registry'.token = [registry.token EXCEPT ![id] = NoToken]
      /\ registry'.supply = [registry.supply EXCEPT ![id] = 0]
      /\ marketId[t] = id
  BY <1>1 DEF RemoveMarket, Deleted
<1>4. /\ registry.token \in [MarketIds -> Tokens \cup {NoToken}]
      /\ registry.supply \in [MarketIds -> Nat]
      /\ removals \in [MarketIds -> Nat] /\ 0 \in MarketIds
  <2>1. registry \in RegistryType /\ removals \in [MarketIds -> Nat]
    BY <1>1 DEF TypeOK
  <2>2. 0 \in MarketIds
    BY DEF MarketIds
  <2> QED
    BY <2>1, <2>2 DEF RegistryType
<1>5. RecycledOnce' => RecycledOnce
  <2>1. \A k \in MarketIds : removals[k] <= removals'[k]
    BY <1>1, <1>4
  <2>2. removals' \in [MarketIds -> Nat]
    BY <1>1 DEF TypeOK
  <2> QED
    BY <1>4, <2>1, <2>2 DEF RecycledOnce
<1>6. \A k \in Recyclables : Claims(k)' = Claims(k)
  BY <1>1, SameClaims
<1>7. ASSUME RecycledOnce', NEW k \in Recyclables PROVE BackedProxy(k)'
  <2>1. RecycledOnce /\ BackedProxy(k)
    BY <1>5, <1>7 DEF Backed, ClaimsBacked, BackedProxy
  <2>2. ASSUME marketId[k] # 0, k \notin isRecycled'
        PROVE  registry'.supply[marketId[k]] = registry.supply[marketId[k]]
    <3>1. registry.token[marketId[k]] = k /\ k # t
      BY <1>1, <2>1, <2>2, OwnMarket
    <3>2. marketId[k] # id /\ marketId[k] \in MarketIds
      BY <1>1, <3>1 DEF TypeOK
    <3> QED
      BY <1>3, <1>4, <3>2
  <2> QED
    BY <1>1, <1>6, <2>1, <2>2 DEF BackedProxy
<1>8. ClaimsBacked'
  BY <1>7 DEF ClaimsBacked, BackedProxy
<1>9. \A k \in MarketIds : registry'.token[k] = NoToken => registry'.supply[k] = 0
  BY <1>3, <1>4 DEF Backed
<1>10. registry'.token[0] = NativeToken
  BY <1>2, <1>3, <1>4 DEF Backed
<1> QED
  BY <1>1, <1>2, <1>3, <1>8, <1>9, <1>10 DEF Backed

(* Whatever users and keepers do, proxies stay backed.                     *)
LEMMA UserStepBacked ==
  ASSUME Inductive, Inductive', Backed, NEW t \in Recyclables, NEW u \in Users,
         UserStep(t, u)
  PROVE  Backed'
<1>1. ASSUME NEW n \in Amounts, DepositIntoDolomiteMargin(t, u, n) PROVE Backed'
  BY <1>1, CreditBacked DEF DepositIntoDolomiteMargin, Backed
<1>2. ASSUME NEW n \in Amounts, WithdrawFromDolomiteMargin(t, u, n) PROVE Backed'
  BY <1>2, DebitBacked DEF WithdrawFromDolomiteMargin
<1>3. ASSUME NEW n \in Amounts, TradeOpen(t, u, n) PROVE Backed'
  <2>1. now <= MaxExpiration[t] + Week
    BY <1>3 DEF TradeOpen, IsExpired, Inductive, TypeOK
  <2>2. \A account \in leveraged' : now <= MaxExpiration[account[1]] + Week
    BY <1>3, <2>1 DEF TradeOpen, Backed
  <2> QED
    BY <1>3, <2>2, CreditBacked DEF TradeOpen
<1>4. ASSUME NEW n \in Amounts, TradeClose(t, u, n) PROVE Backed'
  BY <1>4, DebitBacked DEF TradeClose
<1>5. ASSUME NEW n \in Amounts, Liquidated(t, u, n) PROVE Backed'
  <2>1. <<t, u>> \in leveraged /\ t \in Recyclables
    BY <1>5 DEF Liquidated
  <2>2. now <= MaxExpiration[t] + Week /\ MaxExpiration[t] + Week \in Nat /\ now \in Nat
    BY <2>1 DEF Backed, Inductive, TypeOK
  <2>3. t \notin isRecycled
    BY <2>2 DEF Backed
  <2> QED
    BY <1>5, <2>3, DebitBacked DEF Liquidated
<1>6. ASSUME WithdrawAfterRecycle(t, u) PROVE Backed'
  BY <1>6, WithdrawalBacked
<1> QED
  BY <1>1, <1>2, <1>3, <1>4, <1>5, <1>6 DEF UserStep

(* If keepers close leveraged positions in time, a proxy always holds what *)
(* its users may claim, before and after it is recycled, and its market's  *)
(* supply is just that, whoever used the id before.                        *)
THEOREM ProxiesBacked == KeepersInTime => (Spec => []ClaimsBacked)
<1> SUFFICES ASSUME KeepersInTime PROVE Spec => []ClaimsBacked
  OBVIOUS
<1>1. Init => Backed
  <2> SUFFICES ASSUME Init PROVE Backed
    OBVIOUS
  <2>1. TypeOK
    BY InitInductive DEF Inductive
  <2>2. \A t \in Recyclables, u \in Users : par[t][u] = 0
    BY DEF Init
  <2>3. ASSUME NEW t \in Recyclables PROVE Claims(t) = 0
    <3>1. /\ Claims(t) = SumFunction(ClaimsOf(t)) /\ IsFiniteSet(Unpaid(t))
          /\ ClaimsOf(t) \in [Unpaid(t) -> Int]
      BY <2>1, ClaimsType
    <3>2. \A u \in Unpaid(t) : ClaimsOf(t)[u] = 0
      BY <2>2 DEF ClaimsOf, Unpaid
    <3> QED
      BY <3>1, <3>2, SumZero
  <2>4. /\ leveraged = {} /\ withdrawn = {} /\ isRecycled = {}
        /\ \A t \in Recyclables : held[t] = 0 /\ marketId[t] = 0
    BY DEF Init
  <2>5. ClaimsBacked
    BY <2>3, <2>4 DEF ClaimsBacked
  <2>6. /\ registry.token[0] = NativeToken
        /\ \A id \in MarketIds : registry.supply[id] = 0
    <3>1. 0 \in MarketIds
      BY DEF MarketIds
    <3> QED
      BY <3>1 DEF Init, InitialRegistry
  <2> QED
    BY <2>2, <2>4, <2>5, <2>6 DEF Backed
<1>2. Inductive /\ Inductive' /\ Backed /\ [Next]_vars => Backed'
  <2> SUFFICES ASSUME Inductive, Inductive', Backed, [Next]_vars PROVE Backed'
    OBVIOUS
  <2>1. ASSUME NEW t \in Tokens, OwnerAddMarket(t) PROVE Backed'
    BY <2>1, AddBacked
  <2>2. ASSUME NEW id \in MarketIds, OwnerRemoveMarket(id) PROVE Backed'
    BY <2>2, RemoveBacked
  <2>3. ASSUME NEW t \in Recyclables, NEW u \in Users, UserStep(t, u) PROVE Backed'
    BY <2>3, UserStepBacked
  <2>4. CASE Tick
    <3>1. now \in Nat /\ now' = now + 1
      BY <2>4 DEF Tick, Inductive, TypeOK
    <3>2. \A account \in leveraged' : now' <= MaxExpiration[account[1]] + Week
      BY <2>4 DEF Tick
    <3>3. UNCHANGED <<registry, marketId, isRecycled, held, par, withdrawn, removals>>
      BY <2>4 DEF Tick
    <3> QED
      BY <3>1, <3>2, <3>3, QuietBacked
  <2>5. CASE UNCHANGED vars
    <3>1. /\ UNCHANGED <<registry, marketId, isRecycled, held, par, withdrawn, removals>>
          /\ leveraged' = leveraged /\ now' = now /\ now \in Nat
      BY <2>5 DEF vars, Inductive, TypeOK
    <3>2. \A account \in leveraged' : now' <= MaxExpiration[account[1]] + Week
      BY <3>1 DEF Backed
    <3> QED
      BY <3>1, <3>2, QuietBacked
  <2> QED
    BY <2>1, <2>2, <2>3, <2>4, <2>5 DEF Next
<1>3. Backed => ClaimsBacked
  BY DEF Backed
<1> QED
  BY <1>1, <1>2, <1>3, RegistryInductive, PTL DEF Spec
=============================================================================
