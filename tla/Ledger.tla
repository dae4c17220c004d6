------------------------------- MODULE Ledger -------------------------------
(***************************************************************************)
(* The books of DolomiteMargin (lib/Storage.sol): what every account owes  *)
(* or is owed in every market, the totals of each market, and the two      *)
(* summaries each account carries so that the code need not scan all       *)
(* markets: how many of its balances are negative, and in which markets it *)
(* has a balance at all.                                                   *)
(*                                                                         *)
(* A ledger is a record, and each function of the code that writes to it   *)
(* is an operator that returns the new ledger. Its field "fits" turns      *)
(* FALSE when a SafeMath subtraction or a to128 cast on the way would      *)
(* revert; an operation may only keep a ledger that fits.                  *)
(***************************************************************************)
EXTENDS MarginMath, Actions, FiniteSets, Functions

CONSTANTS
  MarginRatio,         (* riskParams, fixed-point                          *)
  MinBorrowedValue,    (* riskParams, a value in oracle units              *)
  MarginPremium        (* per market, fixed-point                          *)

ASSUME LedgerAssumption ==
  /\ IsFiniteSet(Accounts)
  /\ IsFiniteSet(Markets)
  /\ MarginRatio \in Nat
  /\ MinBorrowedValue \in Nat
  /\ MarginPremium \in [Markets -> Nat]

-----------------------------------------------------------------------------
Supplied(par) == IF par > 0 THEN par ELSE 0
Borrowed(par) == IF par < 0 THEN -par ELSE 0

EmptyLedger ==
  [par    |-> [a \in Accounts |-> [m \in Markets |-> 0]],
   supply |-> [m \in Markets |-> 0],
   borrow |-> [m \in Markets |-> 0],
   debts  |-> [a \in Accounts |-> 0],
   held   |-> [a \in Accounts |-> {}],
   fits   |-> TRUE]

(* Mutant: a debt repaid to exactly zero is still counted.                 *)
MutantDebtsAfter(count, old, new) ==
  IF old < 0 /\ new > 0 THEN count - 1
  ELSE IF old >= 0 /\ new < 0 THEN count + 1
  ELSE count

(* numberOfMarketsWithDebt after a balance moves from old to new.          *)
DebtsAfter(count, old, new) ==
  IF old < 0 /\ new >= 0 THEN count - 1
  ELSE IF old >= 0 /\ new < 0 THEN count + 1
  ELSE count

(* marketsWithNonZeroBalanceSet after a balance moves from old to new.     *)
HeldAfter(set, m, old, new) ==
  IF new = 0 /\ old # 0 THEN set \ {m}
  ELSE IF new # 0 /\ old = 0 THEN set \cup {m}
  ELSE set

(* Mutant: the old balance is rolled back only when the sign is kept.      *)
MutantSetPar(L, a, m, new) ==
  LET old  == L.par[a][m]
      kept == IF (old < 0) = (new < 0) THEN old ELSE 0
  IN  [par    |-> [L.par EXCEPT ![a] = [@ EXCEPT ![m] = new]],
       supply |-> [L.supply EXCEPT ![m] = @ - Supplied(kept) + Supplied(new)],
       borrow |-> [L.borrow EXCEPT ![m] = @ - Borrowed(kept) + Borrowed(new)],
       debts  |-> [L.debts EXCEPT ![a] = DebtsAfter(@, old, new)],
       held   |-> [L.held EXCEPT ![a] = HeldAfter(@, m, old, new)],
       fits   |-> L.fits]

SetPar(L, a, m, new) ==
  LET old    == L.par[a][m]
      supply == L.supply[m] - Supplied(old)
      borrow == L.borrow[m] - Borrowed(old)
  IN  IF old = new THEN L ELSE
      [par    |-> [L.par EXCEPT ![a] = [@ EXCEPT ![m] = new]],
       supply |-> [L.supply EXCEPT ![m] = supply + Supplied(new)],
       borrow |-> [L.borrow EXCEPT ![m] = borrow + Borrowed(new)],
       debts  |-> [L.debts EXCEPT ![a] = DebtsAfter(@, old, new)],
       held   |-> [L.held EXCEPT ![a] = HeldAfter(@, m, old, new)],
       fits   |-> /\ L.fits
                  /\ supply >= 0 /\ Fits128(supply + Supplied(new))
                  /\ borrow >= 0 /\ Fits128(borrow + Borrowed(new))
                  /\ Fits128(new)]

GetWei(L, a, m, index) == ParToWei(L.par[a][m], index)

SetParFromDeltaWei(L, a, m, index, deltaWei) ==
  IF deltaWei = 0
  THEN L
  ELSE SetPar(L, a, m, WeiToPar(GetWei(L, a, m, index) + deltaWei, index))

(* An amount is [denomination, ref, value], the value signed: a delta from *)
(* the balance or the target it should reach, in wei or in par.            *)
GetNewParAndDeltaWei(L, a, m, index, amount) ==
  LET oldPar  == L.par[a][m]
      oldWei  == GetWei(L, a, m, index)
      isDelta == amount.ref = "Delta"
      newWei  == IF isDelta THEN oldWei + amount.value ELSE amount.value
      newPar  == IF isDelta THEN oldPar + amount.value ELSE amount.value
  IN  IF isDelta /\ amount.value = 0
      THEN [par |-> oldPar, wei |-> 0]
      ELSE IF amount.denomination = "Wei"
      THEN [par |-> WeiToPar(newWei, index), wei |-> newWei - oldWei]
      ELSE [par |-> newPar, wei |-> ParToWei(newPar, index) - oldWei]

(* The same for the owed market of an account that is being repaid by      *)
(* another one: never past zero, and only ever towards zero ("allowed").   *)
GetNewParAndDeltaWeiForLiquidation(L, a, m, index, amount) ==
  LET oldPar  == L.par[a][m]
      asked   == GetNewParAndDeltaWei(L, a, m, index, amount)
      bounded == IF asked.par > 0
                 THEN [par |-> 0, wei |-> -GetWei(L, a, m, index)]
                 ELSE asked
  IN  [par     |-> bounded.par,
       wei     |-> IF bounded.par = oldPar THEN 0 ELSE bounded.wei,
       allowed |-> /\ oldPar <= 0
                   /\ bounded.wei >= 0
                   /\ Magnitude(oldPar) >= Magnitude(bounded.par)]

-----------------------------------------------------------------------------
(* Valuation. A cache maps the markets an operation touches to the index   *)
(* and the price it uses for them; an account is valued over the cache.    *)

AssetValue(L, a, cache, m) ==
  Magnitude(GetWei(L, a, m, cache[m].index)) * cache[m].price

SupplyValue(L, a, cache) ==
  SumFunction([m \in {n \in DOMAIN cache : L.par[a][n] > 0} |->
    DecimalDiv(AssetValue(L, a, cache, m), OnePlus(MarginPremium[m]))])

BorrowValue(L, a, cache) ==
  SumFunction([m \in {n \in DOMAIN cache : L.par[a][n] < 0} |->
    DecimalMul(AssetValue(L, a, cache, m), OnePlus(MarginPremium[m]))])

IsCollateralized(L, a, cache) ==
  LET borrowValue == BorrowValue(L, a, cache)
  IN  \/ L.debts[a] = 0
      \/ SupplyValue(L, a, cache)
           >= borrowValue + DecimalMul(borrowValue, MarginRatio)

BorrowsEnough(L, a, cache) ==
  \/ L.debts[a] = 0
  \/ BorrowValue(L, a, cache) >= MinBorrowedValue

IsVaporizable(L, a, cache) ==
  /\ \E m \in DOMAIN cache : L.par[a][m] < 0
  /\ \A m \in DOMAIN cache : L.par[a][m] <= 0

-----------------------------------------------------------------------------
(* The totals of a market in token amounts, and the tokens the protocol    *)
(* holds beyond what it owes its suppliers net of what borrowers owe it.   *)
TotalSupplyWei(L, m, index) == ParToWei(L.supply[m], index)
TotalBorrowWei(L, m, index) == Magnitude(ParToWei(-L.borrow[m], index))

NumExcessTokens(L, m, index, balance) ==
  balance + TotalBorrowWei(L, m, index) - TotalSupplyWei(L, m, index)

-----------------------------------------------------------------------------
(* The type of a ledger that fits, and what its totals and summaries must  *)
(* agree with: its balances.                                               *)

LedgerType ==
  [par    : [Accounts -> [Markets -> -Max128..Max128]],
   supply : [Markets -> 0..Max128],
   borrow : [Markets -> 0..Max128],
   debts  : [Accounts -> Nat],
   held   : [Accounts -> SUBSET Markets],
   fits   : BOOLEAN]

IndexType == [borrow : Nat \ {0}, supply : Nat \ {0}, lastUpdate : Nat]

TotalsMatch(L) ==
  \A m \in Markets :
    /\ L.supply[m] = SumFunction([a \in Accounts |-> Supplied(L.par[a][m])])
    /\ L.borrow[m] = SumFunction([a \in Accounts |-> Borrowed(L.par[a][m])])

SummariesMatch(L) ==
  \A a \in Accounts :
    /\ L.debts[a] = Cardinality({m \in Markets : L.par[a][m] < 0})
    /\ L.held[a] = {m \in Markets : L.par[a][m] # 0}

(* L differs from Old only in what the accounts in B have in the markets   *)
(* in S, and in the totals of those markets.                               *)
SameElsewhere(L, Old, B, S) ==
  /\ \A a \in Accounts, n \in Markets :
       a \notin B \/ n \notin S => L.par[a][n] = Old.par[a][n]
  /\ \A n \in Markets \ S :
       L.supply[n] = Old.supply[n] /\ L.borrow[n] = Old.borrow[n]
=============================================================================
