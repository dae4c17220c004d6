------------------------------- MODULE SumFacts -------------------------------
(***************************************************************************)
(* What SumFunction of the community modules computes over a finite        *)
(* domain. It adds the values up in an order that CHOOSE picks; these      *)
(* lemmas show that the order does not matter, and what a change of one    *)
(* value does to the sum. The books of the ledger and the claims of the    *)
(* recyclable tokens are such sums.                                        *)
(*                                                                         *)
(* The inductions are over sets of numbers: a set of naturals with 0 and   *)
(* the successor of each of its members is Nat, because the order of Nat   *)
(* is well-founded.                                                        *)
(***************************************************************************)
EXTENDS Integers, FiniteSets, Functions, FiniteSetTheorems, TLAPS

(* A set of naturals that has 0 and is closed under successor is Nat.      *)
LEMMA NatSets ==
  ASSUME NEW F \in SUBSET Nat, 0 \in F, \A n \in F : n + 1 \in F
  PROVE  F = Nat
<1> DEFINE R == OpToRel(<, Nat)
           B == Nat \ F
<1>1. IsWellFoundedOn(R, Nat)
  BY NatLessThanWellFounded
<1>2. SUFFICES ASSUME B # {} PROVE FALSE
  OBVIOUS
<1>3. PICK n \in B : \A k \in B : <<k, n>> \notin R
  <2> HIDE DEF R
  <2>1. B \subseteq Nat
    OBVIOUS
  <2> QED
    BY <1>1, <1>2, <2>1, WFMin
<1>4. n # 0 /\ n \in Nat /\ n \notin F
  OBVIOUS
<1>5. n - 1 \in Nat /\ n - 1 \notin F
  <2>1. n - 1 \in Nat
    BY <1>4
  <2>2. n = (n - 1) + 1
    BY <1>4
  <2> QED
    BY <2>1, <2>2, <1>4
<1>6. <<n - 1, n>> \in R
  BY <1>4, <1>5 DEF OpToRel
<1> QED
  BY <1>3, <1>5, <1>6

-----------------------------------------------------------------------------
(* The recursion inside SumFunction.                                       *)

Pick(s) == CHOOSE x \in s : TRUE

SumStep(f, h, s) ==
  IF s = {} THEN 0 ELSE f[Pick(s)] + h[s \ {Pick(s)}]

(* h has the sum of f over every subset of S of at most n elements.        *)
SumsUpTo(h, f, S, n) ==
  /\ h \in [SUBSET S -> Int]
  /\ \A s \in SUBSET S : Cardinality(s) <= n => h[s] = SumStep(f, h, s)

(* An element picked from a nonempty finite set leaves one element less.   *)
LEMMA PickFacts ==
  ASSUME NEW S, IsFiniteSet(S), NEW s \in SUBSET S
  PROVE  /\ IsFiniteSet(s) /\ Cardinality(s) \in Nat
         /\ Cardinality(s) = 0 <=> s = {}
         /\ \A x \in s : /\ s \ {x} \in SUBSET S
                         /\ Cardinality(s \ {x}) = Cardinality(s) - 1
         /\ s # {} => Pick(s) \in s
<1>1. IsFiniteSet(s)
  BY FS_Subset
<1> QED
  BY <1>1, FS_CardinalityType, FS_EmptySet, FS_RemoveElement DEF Pick

(* There are such functions for every n.                                   *)
LEMMA SumsExist ==
  ASSUME NEW S, IsFiniteSet(S), NEW f \in [S -> Int], NEW n \in Nat
  PROVE  \E h : SumsUpTo(h, f, S, n)
<1> DEFINE F == {k \in Nat : \E h : SumsUpTo(h, f, S, k)}
<1>1. 0 \in F
  <2>1. SumsUpTo([s \in SUBSET S |-> 0], f, S, 0)
    BY PickFacts DEF SumsUpTo, SumStep
  <2> QED
    BY <2>1
<1>2. ASSUME NEW k \in F PROVE k + 1 \in F
  <2>1. PICK h : SumsUpTo(h, f, S, k)
    OBVIOUS
  <2> DEFINE g == [s \in SUBSET S |-> IF Cardinality(s) <= k
                                      THEN h[s] ELSE SumStep(f, h, s)]
  <2>2. \A s \in SUBSET S : SumStep(f, h, s) \in Int
    BY <2>1, PickFacts DEF SumsUpTo, SumStep
  <2>3. g \in [SUBSET S -> Int]
    BY <2>1, <2>2 DEF SumsUpTo
  <2>4. ASSUME NEW s \in SUBSET S, Cardinality(s) <= k + 1
        PROVE  g[s] = SumStep(f, g, s)
    <3>1. g[s] = SumStep(f, h, s)
      BY <2>1, <2>4 DEF SumsUpTo
    <3>2. CASE s = {}
      BY <3>1, <3>2 DEF SumStep
    <3>3. CASE s # {}
      <4>1. /\ s \ {Pick(s)} \in SUBSET S
            /\ Cardinality(s \ {Pick(s)}) <= k
        BY <2>4, <3>3, PickFacts
      <4>2. g[s \ {Pick(s)}] = h[s \ {Pick(s)}]
        BY <4>1
      <4> HIDE DEF g
      <4> QED
        BY <3>1, <3>3, <4>2 DEF SumStep
    <3> QED
      BY <3>2, <3>3
  <2> HIDE DEF g
  <2>5. SumsUpTo(g, f, S, k + 1)
    BY <2>3, <2>4 DEF SumsUpTo
  <2> QED
    BY <2>5
<1>3. F = Nat
  <2>1. F \in SUBSET Nat
    OBVIOUS
  <2> HIDE DEF F
  <2> QED
    BY <1>1, <1>2, <2>1, NatSets
<1> QED
  BY <1>3

(* A function that satisfies the recursion has integer values.             *)
Sums(h, f, S) ==
  /\ h \in [SUBSET S -> Int]
  /\ \A s \in SUBSET S : h[s] = SumStep(f, h, s)

LEMMA RecursionType ==
  ASSUME NEW S, IsFiniteSet(S), NEW f \in [S -> Int],
         NEW h, \A s \in SUBSET S : h[s] = SumStep(f, h, s)
  PROVE  \A s \in SUBSET S : h[s] \in Int
<1> DEFINE F == {k \in Nat : \A s \in SUBSET S : Cardinality(s) <= k => h[s] \in Int}
<1>2. 0 \in F
  <2>1. \A s \in SUBSET S : Cardinality(s) <= 0 => s = {}
    BY PickFacts
  <2>2. h[{}] = 0
    BY DEF SumStep
  <2> QED
    BY <2>1, <2>2
<1>3. ASSUME NEW k \in F PROVE k + 1 \in F
  <2>1. SUFFICES ASSUME NEW s \in SUBSET S, Cardinality(s) <= k + 1
                 PROVE  h[s] \in Int
    OBVIOUS
  <2>2. CASE s = {}
    BY <2>2 DEF SumStep
  <2>3. CASE s # {}
    <3>1. /\ Pick(s) \in s /\ s \ {Pick(s)} \in SUBSET S
          /\ Cardinality(s \ {Pick(s)}) <= k
      BY <2>1, <2>3, PickFacts
    <3>2. h[s \ {Pick(s)}] \in Int /\ f[Pick(s)] \in Int
      BY <3>1
    <3>3. h[s] = f[Pick(s)] + h[s \ {Pick(s)}]
      BY <2>3 DEF SumStep
    <3> QED
      BY <3>2, <3>3
  <2> QED
    BY <2>2, <2>3
<1>4. F = Nat
  <2>1. F \in SUBSET Nat
    OBVIOUS
  <2> HIDE DEF F
  <2> QED
    BY <1>2, <1>3, <2>1, NatSets
<1>5. ASSUME NEW s \in SUBSET S PROVE h[s] \in Int
  <2>1. Cardinality(s) \in F
    BY <1>4, PickFacts
  <2> QED
    BY <2>1
<1> QED
  BY <1>5

(* SumFunction(f) is the value of such a function at the whole domain.     *)
LEMMA SumFunctionSums ==
  ASSUME NEW S, IsFiniteSet(S), NEW f \in [S -> Int]
  PROVE  \E h : Sums(h, f, S) /\ SumFunction(f) = h[S]
<1> DEFINE Solves(h) == h = [s \in SUBSET S |-> SumStep(f, h, s)]
           it == CHOOSE h : Solves(h)
<1>1. DOMAIN f = S
  OBVIOUS
<1>2. SumFunction(f) = it[S]
  BY <1>1 DEF SumFunction, SumFunctionOnSet, FoldFunctionOnSet, MapThenFoldSet,
              SumStep, Pick
<1>3. PICK h : SumsUpTo(h, f, S, Cardinality(S))
  BY SumsExist, FS_CardinalityType
<1>4. \A s \in SUBSET S : Cardinality(s) <= Cardinality(S)
  BY FS_Subset
<1>5. Solves(h)
  BY <1>3, <1>4 DEF SumsUpTo
<1>6. Solves(it)
  BY <1>5
<1>7. Sums(it, f, S)
  <2>1. it = [s \in SUBSET S |-> SumStep(f, it, s)]
    BY <1>6
  <2> HIDE DEF it
  <2>2. \A s \in SUBSET S : it[s] = SumStep(f, it, s)
    BY <2>1
  <2>3. \A s \in SUBSET S : it[s] \in Int
    BY <2>2, RecursionType
  <2>4. \A s \in SUBSET S : SumStep(f, it, s) \in Int
    BY <2>2, <2>3
  <2>5. it \in [SUBSET S -> Int]
    BY <2>1, <2>4
  <2> QED
    BY <2>2, <2>5 DEF Sums
<1> QED
  BY <1>2, <1>7

-----------------------------------------------------------------------------
(* The order of the addition does not matter.                              *)

(* Any element of a set can be the last one added.                         *)
LEMMA SumRemove ==
  ASSUME NEW S, IsFiniteSet(S), NEW f \in [S -> Int], NEW h, Sums(h, f, S),
         NEW s \in SUBSET S, NEW x \in s
  PROVE  h[s] = f[x] + h[s \ {x}]
<1> DEFINE F == {k \in Nat : \A t \in SUBSET S : \A y \in t :
                   Cardinality(t) <= k => h[t] = f[y] + h[t \ {y}]}
<1>1. 0 \in F
  BY PickFacts
<1>2. ASSUME NEW k \in F PROVE k + 1 \in F
  <2>1. SUFFICES ASSUME NEW t \in SUBSET S, NEW y \in t, Cardinality(t) <= k + 1
                 PROVE  h[t] = f[y] + h[t \ {y}]
    OBVIOUS
  <2> DEFINE c == Pick(t)
  <2>2. /\ c \in t
        /\ t \ {c} \in SUBSET S /\ Cardinality(t \ {c}) <= k
        /\ t \ {y} \in SUBSET S /\ Cardinality(t \ {y}) <= k
    BY <2>1, PickFacts
  <2>3. h[t] = f[c] + h[t \ {c}]
    BY DEF Sums, SumStep
  <2>4. CASE c = y
    BY <2>3, <2>4
  <2>5. CASE c # y
    <3> DEFINE u == (t \ {c}) \ {y}
    <3> HIDE DEF c
    <3>1. y \in t \ {c} /\ c \in t \ {y}
      BY <2>2, <2>5
    <3>2. u \in SUBSET S /\ u = (t \ {y}) \ {c}
      OBVIOUS
    <3>3. /\ h[t \ {c}] = f[y] + h[u]
          /\ h[t \ {y}] = f[c] + h[u]
      BY <2>2, <3>1, <3>2
    <3>4. f[c] \in Int /\ f[y] \in Int /\ h[u] \in Int
      BY <2>2, <3>2 DEF Sums
    <3> HIDE DEF F, u
    <3> QED
      BY <2>3, <3>3, <3>4
  <2> QED
    BY <2>4, <2>5
<1>3. F = Nat
  <2>1. F \in SUBSET Nat
    OBVIOUS
  <2> HIDE DEF F
  <2> QED
    BY <1>1, <1>2, <2>1, NatSets
<1>4. Cardinality(s) \in F
  BY <1>3, PickFacts
<1> QED
  BY <1>4

LEMMA SumLast ==
  ASSUME NEW S, IsFiniteSet(S), NEW f \in [S -> Int], NEW h, Sums(h, f, S),
         NEW x \in S
  PROVE  h[S] = f[x] + h[S \ {x}]
<1>1. S \in SUBSET S
  OBVIOUS
<1> QED
  BY <1>1, SumRemove

(* Functions that agree on a set have the same sum over it.                *)
LEMMA SumAgree ==
  ASSUME NEW S, IsFiniteSet(S), NEW T, IsFiniteSet(T),
         NEW f \in [S -> Int], NEW g \in [T -> Int],
         NEW h, Sums(h, f, S), NEW k, Sums(k, g, T),
         NEW s \in (SUBSET S) \cap (SUBSET T), \A x \in s : f[x] = g[x]
  PROVE  h[s] = k[s]
<1> DEFINE F == {n \in Nat : \A t \in SUBSET s : Cardinality(t) <= n => h[t] = k[t]}
<1>1. 0 \in F
  <2>1. h[{}] = 0 /\ k[{}] = 0
    BY DEF Sums, SumStep
  <2>2. \A t \in SUBSET s : Cardinality(t) <= 0 => t = {}
    BY PickFacts
  <2> QED
    BY <2>1, <2>2
<1>2. ASSUME NEW n \in F PROVE n + 1 \in F
  <2>1. SUFFICES ASSUME NEW t \in SUBSET s, Cardinality(t) <= n + 1
                 PROVE  h[t] = k[t]
    OBVIOUS
  <2>2. CASE t = {}
    BY <2>2 DEF Sums, SumStep
  <2>3. CASE t # {}
    <3> DEFINE c == Pick(t)
    <3>1. c \in t /\ t \ {c} \in SUBSET s /\ Cardinality(t \ {c}) <= n
      BY <2>1, <2>3, PickFacts
    <3>2. h[t] = f[c] + h[t \ {c}] /\ k[t] = g[c] + k[t \ {c}]
      BY <2>3 DEF Sums, SumStep
    <3> QED
      BY <3>1, <3>2
  <2> QED
    BY <2>2, <2>3
<1>3. F = Nat
  <2>1. F \in SUBSET Nat
    OBVIOUS
  <2> HIDE DEF F
  <2> QED
    BY <1>1, <1>2, <2>1, NatSets
<1>4. Cardinality(s) \in F
  BY <1>3, PickFacts
<1> QED
  BY <1>4

-----------------------------------------------------------------------------
(* What is used of sums.                                                   *)

(* The sum of integers is an integer.                                      *)
LEMMA SumType ==
  ASSUME NEW S, IsFiniteSet(S), NEW f \in [S -> Int]
  PROVE  SumFunction(f) \in Int
<1>1. PICK h : Sums(h, f, S) /\ SumFunction(f) = h[S]
  BY SumFunctionSums
<1> QED
  BY <1>1 DEF Sums

(* When one value changes, the sum changes by as much.                     *)
LEMMA SumChange ==
  ASSUME NEW S, IsFiniteSet(S), NEW f \in [S -> Int], NEW g \in [S -> Int],
         NEW x \in S, \A y \in S \ {x} : g[y] = f[y]
  PROVE  SumFunction(g) = SumFunction(f) - f[x] + g[x]
<1>1. PICK h : Sums(h, f, S) /\ SumFunction(f) = h[S]
  BY SumFunctionSums
<1>2. PICK k : Sums(k, g, S) /\ SumFunction(g) = k[S]
  BY SumFunctionSums
<1>3. h[S] = f[x] + h[S \ {x}] /\ k[S] = g[x] + k[S \ {x}]
  <2>2. h[S] = f[x] + h[S \ {x}]
    BY ONLY IsFiniteSet(S), f \in [S -> Int], x \in S, <1>1, SumLast
  <2>3. k[S] = g[x] + k[S \ {x}]
    BY ONLY IsFiniteSet(S), g \in [S -> Int], x \in S, <1>2, SumLast
  <2> QED
    BY <2>2, <2>3
<1>4. h[S \ {x}] = k[S \ {x}]
  BY <1>1, <1>2, SumAgree
<1>5. f[x] \in Int /\ g[x] \in Int /\ h[S \ {x}] \in Int
  BY <1>1 DEF Sums
<1> QED
  BY <1>1, <1>2, <1>3, <1>4, <1>5

(* When a value leaves the domain, the sum loses it.                       *)
LEMMA SumLess ==
  ASSUME NEW S, IsFiniteSet(S), NEW f \in [S -> Int],
         NEW x \in S, NEW g \in [S \ {x} -> Int], \A y \in S \ {x} : g[y] = f[y]
  PROVE  SumFunction(g) = SumFunction(f) - f[x]
<1> DEFINE T == S \ {x}
<1>1. PICK h : Sums(h, f, S) /\ SumFunction(f) = h[S]
  BY SumFunctionSums
<1>2. IsFiniteSet(T)
  BY FS_RemoveElement
<1>3. PICK k : Sums(k, g, T) /\ SumFunction(g) = k[T]
  BY <1>2, SumFunctionSums
<1>4. h[S] = f[x] + h[T]
  BY <1>1, SumRemove
<1>5. h[T] = k[T]
  BY <1>1, <1>2, <1>3, SumAgree
<1>6. f[x] \in Int /\ h[T] \in Int
  BY <1>1 DEF Sums
<1> QED
  BY <1>1, <1>3, <1>4, <1>5, <1>6

(* A sum of zeros is zero.                                                 *)
LEMMA SumZero ==
  ASSUME NEW S, IsFiniteSet(S), NEW f \in [S -> Int], \A x \in S : f[x] = 0
  PROVE  SumFunction(f) = 0
<1>1. PICK h : Sums(h, f, S) /\ SumFunction(f) = h[S]
  BY SumFunctionSums
<1> DEFINE F == {n \in Nat : \A s \in SUBSET S : Cardinality(s) <= n => h[s] = 0}
<1>2. 0 \in F
  BY <1>1, PickFacts DEF Sums, SumStep
<1>3. ASSUME NEW n \in F PROVE n + 1 \in F
  <2>1. SUFFICES ASSUME NEW s \in SUBSET S, Cardinality(s) <= n + 1
                 PROVE  h[s] = 0
    OBVIOUS
  <2>2. CASE s = {}
    BY <1>1, <2>2 DEF Sums, SumStep
  <2>3. CASE s # {}
    <3>1. Pick(s) \in s /\ s \ {Pick(s)} \in SUBSET S /\ Cardinality(s \ {Pick(s)}) <= n
      BY <2>1, <2>3, PickFacts
    <3>2. h[s] = f[Pick(s)] + h[s \ {Pick(s)}]
      BY <1>1, <2>3 DEF Sums, SumStep
    <3> QED
      BY <3>1, <3>2
  <2> QED
    BY <2>2, <2>3
<1>4. F = Nat
  <2>1. F \in SUBSET Nat
    OBVIOUS
  <2> HIDE DEF F
  <2> QED
    BY <1>2, <1>3, <2>1, NatSets
<1>5. Cardinality(S) \in F
  BY <1>4, PickFacts
<1> QED
  BY <1>1, <1>5
===============================================================================
