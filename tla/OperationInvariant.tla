------------------------- MODULE OperationInvariant -------------------------
(***************************************************************************)
(* The inductive invariant of Operation: what has to be true at every step *)
(* for the properties to hold, and follows from itself.                    *)
(***************************************************************************)
EXTENDS OperationProperties

(* The books agree with the balances, and no index is ahead of time.       *)
BooksSound(L, indexes) ==
  /\ L.fits
  /\ SummariesMatch(L)
  /\ TotalsMatch(L)
  /\ \A m \in Markets : indexes[m].lastUpdate <= now

Isolated(L) ==
  \A a \in Accounts, m \in Recyclable : L.par[a][m] # 0 => Owner[a] = Token[m]

(* The accounts an operation names.                                        *)
Named(f) == {f.accounts[i] : i \in DOMAIN f.accounts}

(* The request passed the checks, and the frame was built from it.         *)
RequestSound(f) ==
  /\ NoDuplicates(f.accounts)
  /\ \A k \in DOMAIN f.actions : ActionAccepted(f.actions, k, Len(f.accounts))
  /\ f.primary = PrimaryAfter(f.actions, Len(f.actions))
  /\ \A i \in DOMAIN f.accounts :
       f.counts[i] = Cardinality(f.saved.ledger.held[f.accounts[i]])
  /\ f.waiting => f.pc <= Len(f.actions)

(* The cache has the markets the operation may touch, and what it says of  *)
(* them is what was so when it was filled, which for the index and the     *)
(* closing flag is still so.                                               *)
CacheSound(f) ==
  /\ ActionMarkets(f.actions) \subseteq DOMAIN f.cache
  /\ \A a \in Named(f) : f.saved.ledger.held[a] \subseteq DOMAIN f.cache
  /\ \A m \in DOMAIN f.cache :
       /\ f.cache[m].index = index[m]
       /\ f.cache[m].isClosing = (m \in isClosing)
       /\ f.cache[m].borrowPar = f.saved.ledger.borrow[m]
       /\ f.cache[m].supplyPar = f.saved.ledger.supply[m]

(* A revert leads back to a sound state.                                   *)
SavedSound(f) ==
  /\ BooksSound(f.saved.ledger, f.saved.index)
  /\ Isolated(f.saved.ledger)
  /\ ~f.saved.locked

FrameSound(f) ==
  /\ RequestSound(f)
  /\ CacheSound(f)
  /\ SavedSound(f)
  /\ SameElsewhere(ledger, f.saved.ledger, Named(f), DOMAIN f.cache)

(* At most one operation runs, and the guard is taken while it does; it    *)
(* has changed nothing but the balances of its accounts in its cached      *)
(* markets, and has kept the summaries in step with them.                  *)
Inductive ==
  /\ TypeOK
  /\ BooksSound(ledger, index)
  /\ frames = <<>> \/ frames = <<Top>>
  /\ locked = (frames # <<>>)
  /\ frames = <<>> => Isolated(ledger)
  /\ frames # <<>> => FrameSound(Top)
=============================================================================
