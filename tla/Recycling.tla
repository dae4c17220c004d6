------------------------------ MODULE Recycling ------------------------------
(***************************************************************************)
(* Recyclable markets: tokens that expire are listed through a proxy       *)
(* (external/proxies/RecyclableTokenProxy.sol), which owns every account   *)
(* that has a balance in its market, one account per user. After the       *)
(* expiration the market is removed and its id can be used again; the      *)
(* balances stay recorded under the old proxy's accounts, and the users    *)
(* withdraw from the proxy what it still holds.                            *)
(*                                                                         *)
(* A recyclable token is its proxy here. What operate does to the proxy's  *)
(* accounts appears as its effect on their balances in the market; the     *)
(* index of a market nobody may borrow from never moves.                   *)
(***************************************************************************)
EXTENDS MarketRegistry, Integers, Functions

CONSTANTS
  Recyclables,    (* the tokens that are recyclable proxies                *)
  MaxExpiration,  (* MAX_EXPIRATION_TIMESTAMP of each                      *)
  Week,           (* the buffer after it                                   *)
  Users,
  KeepersInTime   (* whether leveraged accounts are closed within it       *)

(* Bounds.                                                                 *)
CONSTANTS
  Amounts,        (* what users move                                       *)
  MaxPar,         (* the balance of a user                                 *)
  MaxTime         (* the last time stamp                                   *)

ASSUME RecyclingAssumption ==
  /\ Recyclables \subseteq Tokens \ {NativeToken}
  /\ MaxExpiration \in [Recyclables -> Nat]
  /\ Week \in Nat
  /\ IsFiniteSet(Users)
  /\ KeepersInTime \in BOOLEAN
  /\ Amounts \subseteq Nat \ {0}
  /\ MaxPar \in Nat
  /\ MaxTime \in Nat

VARIABLES
  registry,     (* the markets, see MarketRegistry                         *)
  marketId,     (* MARKET_ID of each proxy                                 *)
  isRecycled,   (* the proxies that were recycled                          *)
  held,         (* the underlying tokens each proxy holds                  *)
  par,          (* the balance of each proxy's users in its market         *)
  leveraged,    (* (proxy, user) accounts that owe another market          *)
  withdrawn,    (* userToAccountNumberHasWithdrawnAfterRecycle             *)
  now,          (* the block time stamp                                    *)
  removals      (* history: how often each id was removed                  *)

vars == <<registry, marketId, isRecycled, held, par, leveraged, withdrawn,
          now, removals>>

-----------------------------------------------------------------------------
IsExpired(t) == MaxExpiration[t] < now

Init ==
  /\ registry = InitialRegistry
  /\ marketId = [t \in Recyclables |-> 0]
  /\ isRecycled = {}
  /\ held = [t \in Recyclables |-> 0]
  /\ par = [t \in Recyclables |-> [u \in Users |-> 0]]
  /\ leveraged = {}
  /\ withdrawn = {}
  /\ now = 0
  /\ removals = [id \in MarketIds |-> 0]

-----------------------------------------------------------------------------
(* The admin.                                                              *)

(* RecyclableTokenProxy.initialize, called by ownerAddMarket. (The market  *)
(* is listed as closing, which it requires.)                               *)
Initialize(t, id) ==
  /\ marketId[t] = 0
  /\ ~IsExpired(t)
  /\ marketId' = [marketId EXCEPT ![t] = id]

OwnerAddMarket(t) ==
  /\ NoMarket(registry, t)
  /\ NewMarketId(registry) < MaxMarkets
  /\ registry' = AddMarket(registry, t, t \in Recyclables)
  /\ IF t \in Recyclables
     THEN Initialize(t, NewMarketId(registry))
     ELSE UNCHANGED marketId
  /\ UNCHANGED <<isRecycled, held, par, leveraged, withdrawn, now, removals>>

(* Mutant: the market may be removed as soon as it has expired.            *)
MutantMayRemove(id) ==
  /\ registry.token[id] # NoToken
  /\ registry.recyclable[id]
  /\ IsExpired(registry.token[id])

MayRemove(id) ==
  /\ registry.token[id] # NoToken
  /\ registry.recyclable[id]
  /\ MaxExpiration[registry.token[id]] + Week < now

(* RecyclableTokenProxy.recycle, called when the id is at the front of the *)
(* list.                                                                   *)
Recycle(t, head) ==
  /\ head = marketId[t]
  /\ t \notin isRecycled
  /\ isRecycled' = isRecycled \cup {t}

(* The body of the loop of ownerRemoveMarkets: a list of markets is        *)
(* removed by as many of these steps. The salvager, to whom the proxy      *)
(* sends all that the market owes, is the proxy itself.                    *)
OwnerRemoveMarket(id) ==
  LET t == registry.token[id]
  IN
  /\ MayRemove(id)
  /\ registry.supply[id] <= held[t]
  /\ registry' = RemoveMarket(registry, id)
  /\ Recycle(t, registry'.head)
  /\ removals' = [removals EXCEPT ![id] = @ + 1]
  /\ UNCHANGED <<marketId, held, par, leveraged, withdrawn, now>>

-----------------------------------------------------------------------------
(* Effects of operate on an account of proxy t. A deposit is transferred   *)
(* in by the token of the market, which refuses unless t is that token,    *)
(* and unless it holds at least the total supply afterwards.               *)
Credit(t, u, n) ==
  LET id     == marketId[t]
      supply == registry.supply[id] + n
  IN
  /\ registry.token[id] = t
  /\ par[t][u] + n <= MaxPar
  /\ held[t] + n >= supply
  /\ registry' = [registry EXCEPT !.supply[id] = supply]
  /\ par' = [par EXCEPT ![t][u] = @ + n]
  /\ held' = [held EXCEPT ![t] = @ + n]

(* The check of recyclable markets at the end of operate.                  *)
OwnerRespected(t, m, left) == m = t \/ left = 0

(* Mutant: an account may withdraw more than it has.                       *)
MutantAffordable(t, u, m, n) ==
  n <= registry.supply[marketId[t]] /\ n <= held[m]

Affordable(t, u, m, n) ==
  n <= par[t][u] /\ n <= registry.supply[marketId[t]] /\ n <= held[m]

(* The tokens are paid out by the token that the market has now.           *)
Debit(t, u, n) ==
  LET id == marketId[t]
      m  == registry.token[id]
  IN
  /\ m \in Recyclables \ isRecycled
  /\ Affordable(t, u, m, n)
  /\ OwnerRespected(t, m, par[t][u] - n)
  /\ registry' = [registry EXCEPT !.supply[id] = @ - n]
  /\ par' = [par EXCEPT ![t][u] = @ - n]
  /\ held' = [held EXCEPT ![m] = @ - n]

DepositIntoDolomiteMargin(t, u, n) ==
  /\ t \notin isRecycled
  /\ ~IsExpired(t)
  /\ Credit(t, u, n)
  /\ UNCHANGED <<marketId, isRecycled, leveraged, withdrawn, now, removals>>

WithdrawFromDolomiteMargin(t, u, n) ==
  /\ t \notin isRecycled
  /\ Debit(t, u, n)
  /\ UNCHANGED <<marketId, isRecycled, leveraged, withdrawn, now, removals>>

(* A trade that opens a position borrows in another market and buys the    *)
(* token.                                                                  *)
TradeOpen(t, u, n) ==
  /\ t \notin isRecycled
  /\ ~IsExpired(t)
  /\ Credit(t, u, n)
  /\ leveraged' = leveraged \cup {<<t, u>>}
  /\ UNCHANGED <<marketId, isRecycled, withdrawn, now, removals>>

(* A trade that closes one sells the token, and the debt may be gone.      *)
TradeClose(t, u, n) ==
  /\ t \notin isRecycled
  /\ ~IsExpired(t)
  /\ Debit(t, u, n)
  /\ leveraged' \in {leveraged, leveraged \ {<<t, u>>}}
  /\ UNCHANGED <<marketId, isRecycled, withdrawn, now, removals>>

(* A liquidation or an expiration, by a keeper who withdraws at once what  *)
(* it takes; the proxy t is not asked.                                     *)
Liquidated(t, u, n) ==
  /\ <<t, u>> \in leveraged
  /\ Debit(t, u, n)
  /\ leveraged' \in {leveraged, leveraged \ {<<t, u>>}}
  /\ UNCHANGED <<marketId, isRecycled, withdrawn, now, removals>>

WithdrawAfterRecycle(t, u) ==
  /\ t \in isRecycled
  /\ <<t, u>> \notin withdrawn
  /\ par[t][u] <= held[t]
  /\ withdrawn' = withdrawn \cup {<<t, u>>}
  /\ held' = [held EXCEPT ![t] = @ - par[t][u]]
  /\ UNCHANGED <<registry, marketId, isRecycled, par, leveraged, now,
                 removals>>

(* Keepers who are in time close every leveraged account before its market *)
(* can be removed.                                                         *)
Tick ==
  /\ now < MaxTime
  /\ KeepersInTime =>
       \A account \in leveraged : now + 1 <= MaxExpiration[account[1]] + Week
  /\ now' = now + 1
  /\ UNCHANGED <<registry, marketId, isRecycled, held, par, leveraged,
                 withdrawn, removals>>

-----------------------------------------------------------------------------
UserStep(t, u) ==
  \/ \E n \in Amounts :
       \/ DepositIntoDolomiteMargin(t, u, n)
       \/ WithdrawFromDolomiteMargin(t, u, n)
       \/ TradeOpen(t, u, n)
       \/ TradeClose(t, u, n)
       \/ Liquidated(t, u, n)
  \/ WithdrawAfterRecycle(t, u)

Next ==
  \/ \E t \in Tokens : OwnerAddMarket(t)
  \/ \E id \in MarketIds : OwnerRemoveMarket(id)
  \/ \E t \in Recyclables, u \in Users : UserStep(t, u)
  \/ Tick

Spec == Init /\ [][Next]_vars

-----------------------------------------------------------------------------
(* The type invariant.                                                     *)
TypeOK ==
  /\ registry \in RegistryType
  /\ marketId \in [Recyclables -> MarketIds]
  /\ isRecycled \subseteq Recyclables
  /\ held \in [Recyclables -> Nat]
  /\ par \in [Recyclables -> [Users -> Nat]]
  /\ leveraged \subseteq Recyclables \X Users
  /\ withdrawn \subseteq Recyclables \X Users
  /\ now \in Nat
  /\ removals \in [MarketIds -> Nat]

(* ownerAddMarket never lists a token twice and tokenToMarketId finds the  *)
(* market of every listed token, although a missing entry reads as market  *)
(* 0.                                                                      *)
MarketsFound == FindsMarkets(registry)

(* As long as no id was removed a second time.                             *)
RecycledOnce == \A id \in MarketIds : removals[id] <= 1

(* The linked list that ownerRemoveMarkets and ownerAddMarket keep holds   *)
(* the free ids and nothing else, as long as none of them was removed      *)
(* twice.                                                                  *)
FreeIdsListed == RecycledOnce => ListsFreeIds(registry)

(* A proxy that was initialized and is not recycled has the market it was  *)
(* given (as long as no id was removed twice): its users' balances, kept   *)
(* under that id, are balances in its own token.                           *)
MarketKept ==
  RecycledOnce =>
    \A t \in Recyclables \ isRecycled :
      marketId[t] # 0 => registry.token[marketId[t]] = t

(* What the users of a proxy may still claim from it.                      *)
Claims(t) ==
  SumFunction([u \in {v \in Users : <<t, v>> \notin withdrawn} |-> par[t][u]])

(* A proxy holds what all its users may still withdraw, before and after   *)
(* it is recycled, whoever else uses the id of its market by then; and     *)
(* while it has its market, the market's total supply is just that: the    *)
(* balances of the id's earlier users are not counted.                     *)
ClaimsBacked ==
  RecycledOnce =>
    \A t \in Recyclables :
      /\ held[t] >= Claims(t)
      /\ marketId[t] # 0 /\ t \notin isRecycled
           => registry.supply[marketId[t]] = Claims(t)

(* The list of free ids, which getRecyclableMarkets returns, begins with   *)
(* an id that is free.                                                     *)
HeadIsFree == registry.head # 0 => registry.token[registry.head] = NoToken

-----------------------------------------------------------------------------
(* The inductive invariant behind MarketsFound, FreeIdsListed and          *)
(* MarketKept: market 0 stays, only proxies are recyclable, no link leads  *)
(* to an id that was never used, and an id that was never removed has no   *)
(* link yet.                                                               *)
LinksBounded ==
  /\ registry.head < registry.numMarkets
  /\ \A id \in MarketIds :
       /\ registry.next[id] < registry.numMarkets
       /\ removals[id] = 0 => registry.next[id] = 0

OnlyProxiesRecyclable ==
  /\ registry.token[0] # NoToken
  /\ ~registry.recyclable[0]
  /\ \A id \in MarketIds :
       /\ registry.recyclable[id] => registry.token[id] \in Recyclables
       /\ id >= registry.numMarkets => registry.token[id] = NoToken

Inductive ==
  /\ TypeOK
  /\ MarketsFound
  /\ LinksBounded
  /\ OnlyProxiesRecyclable
  /\ FreeIdsListed
  /\ MarketKept

(* What ClaimsBacked needs beside it when keepers are in time: no account  *)
(* is leveraged, or was paid early, in a way that would let the tokens of  *)
(* the next market under the id be taken for a claim on the last one.      *)
Backed ==
  /\ \A account \in leveraged : now <= MaxExpiration[account[1]] + Week
  /\ \A account \in withdrawn : account[1] \in isRecycled
  /\ \A t \in isRecycled : marketId[t] # 0 /\ MaxExpiration[t] + Week < now
  /\ \A t \in Recyclables, u \in Users : marketId[t] = 0 => par[t][u] = 0
  /\ registry.token[0] = NativeToken
  /\ \A id \in MarketIds :
       registry.token[id] = NoToken => registry.supply[id] = 0
  /\ ClaimsBacked
=============================================================================
