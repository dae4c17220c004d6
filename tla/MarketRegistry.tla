---------------------------- MODULE MarketRegistry ----------------------------
(***************************************************************************)
(* The markets of DolomiteMargin and the ids they are listed under         *)
(* (impl/AdminImpl.sol). The ids of removed markets wait in a linked list  *)
(* until a new market takes them: recycledMarketIds maps the id at the     *)
(* front of the list from HEAD_POINTER (here the field head) and every id  *)
(* to the one behind it. Id 0 ends the list.                               *)
(***************************************************************************)
EXTENDS Naturals, FiniteSets

CONSTANTS
  Tokens,        (* the tokens that may be listed                          *)
  NoToken,       (* address(0)                                             *)
  NativeToken,   (* the token of market 0, listed when the code is deployed *)
  MaxMarkets     (* bound: the number of ids there are                     *)

ASSUME RegistryAssumption ==
  /\ NoToken \notin Tokens
  /\ NativeToken \in Tokens
  /\ MaxMarkets \in Nat \ {0}

-----------------------------------------------------------------------------
MarketIds == 0..(MaxMarkets - 1)

(* After deployment, one market is listed.                                 *)
InitialRegistry ==
  [token      |-> [id \in MarketIds |->
                    IF id = 0 THEN NativeToken ELSE NoToken],
   recyclable |-> [id \in MarketIds |-> FALSE],
   head       |-> 0,
   supply     |-> [id \in MarketIds |-> 0],
   numMarkets |-> 1,
   marketOf   |-> [t \in Tokens |-> 0],
   next       |-> [id \in MarketIds |-> 0]]

(* Mutant: a token without a market id is taken for unlisted, which a      *)
(* token listed as market 0 is not.                                        *)
MutantNoMarket(R, t) == R.marketOf[t] = 0

(* The lookup answers 0 for a token that is not listed, so that its market *)
(* is compared with the token.                                             *)
NoMarket(R, t) == R.token[R.marketOf[t]] # t

(* Ids are taken from the front of the list before new ones are made.      *)
NewMarketId(R) == IF R.head = 0 THEN R.numMarkets ELSE R.head

(* Mutant: the id taken from the list stays at its front.                  *)
MutantAddMarket(R, t, recyclable) ==
  LET id == NewMarketId(R)
  IN  [R EXCEPT !.numMarkets = IF R.head = 0 THEN @ + 1 ELSE @,
                !.token      = [@ EXCEPT ![id] = t],
                !.recyclable = [@ EXCEPT ![id] = recyclable],
                !.marketOf   = [@ EXCEPT ![t] = id]]

(* The fields of the market that are not assigned keep what they held: the *)
(* total supply, which is zero in a market never used or deleted.          *)
AddMarket(R, t, recyclable) ==
  LET id == NewMarketId(R)
  IN  [token      |-> [R.token EXCEPT ![id] = t],
       recyclable |-> [R.recyclable EXCEPT ![id] = recyclable],
       head       |-> IF R.head = 0 THEN 0 ELSE R.next[id],
       supply     |-> R.supply,
       numMarkets |-> IF R.head = 0 THEN R.numMarkets + 1 ELSE R.numMarkets,
       marketOf   |-> [R.marketOf EXCEPT ![t] = id],
       next       |-> R.next]

(* Mutant: the list behind the removed id is lost.                         *)
MutantRemoveMarket(R, id) ==
  [R EXCEPT !.token      = [@ EXCEPT ![id] = NoToken],
            !.recyclable = [@ EXCEPT ![id] = FALSE],
            !.supply     = [@ EXCEPT ![id] = 0],
            !.marketOf   = [@ EXCEPT ![R.token[id]] = 0],
            !.head       = id]

(* delete clears the whole market, its total supply with it.               *)
Deleted(supply, id) == [supply EXCEPT ![id] = 0]

(* The id goes to the front of the list. Its link is written only if there *)
(* was something to link to.                                               *)
RemoveMarket(R, id) ==
  [token      |-> [R.token EXCEPT ![id] = NoToken],
   recyclable |-> [R.recyclable EXCEPT ![id] = FALSE],
   head       |-> id,
   supply     |-> Deleted(R.supply, id),
   numMarkets |-> R.numMarkets,
   marketOf   |-> [R.marketOf EXCEPT ![R.token[id]] = 0],
   next       |-> IF R.head = 0
                  THEN R.next
                  ELSE [R.next EXCEPT ![id] = R.head]]

-----------------------------------------------------------------------------
RegistryType ==
  [token      : [MarketIds -> Tokens \cup {NoToken}],
   recyclable : [MarketIds -> BOOLEAN],
   head       : MarketIds,
   supply     : [MarketIds -> Nat],
   numMarkets : 1..MaxMarkets,
   marketOf   : [Tokens -> MarketIds],
   next       : [MarketIds -> MarketIds]]

(* The ids that were used and are free again.                              *)
FreeIds(R) == {id \in 1..(R.numMarkets - 1) : R.token[id] = NoToken}

(* A list of n distinct ids of S, from the head of the links to their end. *)
IsChain(R, s, n, S) ==
  /\ s \in [1..n -> S]
  /\ \A i, j \in 1..n : s[i] = s[j] => i = j
  /\ R.head = IF n = 0 THEN 0 ELSE s[1]
  /\ \A i \in 1..n : R.next[s[i]] = IF i = n THEN 0 ELSE s[i + 1]

(* The links lead through all the free ids and nothing else.               *)
ListsFreeIds(R) ==
  \E s \in [1..Cardinality(FreeIds(R)) -> FreeIds(R)] :
    IsChain(R, s, Cardinality(FreeIds(R)), FreeIds(R))

(* Every market in use is found from its token, and so no token has two.   *)
FindsMarkets(R) ==
  \A id \in MarketIds : R.token[id] # NoToken => R.marketOf[R.token[id]] = id
=============================================================================
