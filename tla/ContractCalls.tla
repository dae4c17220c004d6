---------------------------- MODULE ContractCalls ----------------------------
(***************************************************************************)
(* The client's calls of contract functions: lib/Contracts.ts, with the    *)
(* commit of operations (modules/operate/AccountOperation.ts), the         *)
(* standard actions and the client's own switches (DolomiteMargin.ts). A   *)
(* call runs in chunks between its awaits; other calls, the owners of the  *)
(* operations and the switches come in between. web3 encodes a call's      *)
(* arguments, and reads provider, address and sender of its contract, when *)
(* it estimates and again when it sends. The node, and what web3 makes of  *)
(* its answers, is external: it may refuse, lose, revert or delay a        *)
(* transaction.                                                            *)
(***************************************************************************)
EXTENDS ExpiryTrader

CONSTANTS
  Networks,              (* network ids                                      *)
  FirstNetwork,
  FirstAccount,          (* the default account the client starts with       *)
  Calls,                 (* ids of calls                                     *)
  Operations,            (* ids of operations                                *)
  Proxies,               (* the proxies that operations are initiated for    *)
  Items,                 (* what owners add to operations; and plans they    *)
  Plans,                 (* may add                                          *)
  Standards,             (* standard actions: "method", "owner", "marketId", *)
                         (* "amount", "options"                              *)
  CallOptions,           (* what commit is given, or NoOptions               *)
  PairOptions,           (* what calls of pairs are given                    *)
  OptionType,            (* DolomiteMarginOptions: confirmationType or       *)
                         (* Undefined, defaultConfirmations, defaultGas and  *)
                         (* blockGasLimit or 0                               *)
  DefaultConfirmations,
  DefaultGas,
  OptionGasLimit,
  GasLimit,              (* per network: what setGasLimit computes           *)
  PayableProxy,          (* per network: the address of the proxy            *)
  Estimates,             (* what nodes estimate                              *)
  MaxConfirmations,      (* confirmations web3 reports: bounds               *)
                         (* "confirmations"                                  *)
  MaxActions,            (* bounds: the actions of an operation, the         *)
  MaxSwitches            (* switches of the client                           *)

(* A plan that the builder does not refuse, from what its caller has read  *)
(* of the account and the markets: the market has a debt, and a collateral *)
(* is named once.                                                          *)
IsPlan(x) ==
  /\ x.method = "fullyLiquidateExpiredAccount"
  /\ {x.expiryTimestamp, x.blockTimestamp} \subseteq Nat
  /\ \A m \in ToSet(x.collateralPreferences) \cup {x.expiredMarket} :
       /\ m \in DOMAIN x.weis /\ x.weis[m] \in Int
       /\ {x.prices[m], x.indexes[m]} \subseteq Nat \ {0}
       /\ x.spreadPremiums[m] \in Nat
  /\ x.weis[x.expiredMarket] < 0
  /\ IsInjective(x.collateralPreferences)

ASSUME PlansAssumption ==
  /\ \A x \in Plans : IsPlan(x)
  /\ Spread \in Nat /\ {ExpiryRampTime, PremiumBase, Places} \subseteq Nat \ {0}

Undefined == -1
CallOptionFields ==
  [given : BOOLEAN, from : Owners \cup {ZERO}, value : Nat, gas : Nat,
   confirmations : 0..MaxConfirmations, confirmationType : Int]
NoOptions == [given |-> FALSE, from |-> ZERO, value |-> 0, gas |-> 0, confirmations |-> 0,
              confirmationType |-> Undefined]

ASSUME CallsAssumption ==
  /\ FirstNetwork \in Networks /\ FirstAccount \in Owners
  /\ GasLimit \in [Networks -> Nat \ {0}] /\ Estimates \subseteq Nat \ {0}
  /\ PayableProxy \in [Networks -> Contracts]
  /\ DefaultConfirmations \in 0..MaxConfirmations
  /\ CallOptions \cup PairOptions \subseteq CallOptionFields
  /\ Standards \subseteq
       [method : {"deposit", "withdraw", "withdrawToZero"}, owner : Owners,
        marketId : Nat \cup {MarketId.ETH}, amount : Nat, options : CallOptionFields]
  /\ \A x \in Items \cup Plans : IsItem(x)
  /\ Proxies \subseteq {ProxyType.None, ProxyType.Payable, ProxyType.Signed}
  /\ Operations \cap Calls = {} /\ "none" \notin Operations \cup Calls
  /\ {DefaultGas, OptionGasLimit, MaxConfirmations, MaxActions, MaxSwitches} \subseteq Nat

VARIABLES
  client,     (* network, default account, blockGasLimit; switches so far    *)
  ops,        (* the operations, and each standard call's own                *)
  calls,      (* the calls                                                   *)
  txs         (* per call, its transaction at the node                       *)

vars == <<client, ops, calls, txs>>

(* The constructor's choice: an option that is 0 counts as not given.      *)
confirmationType ==
  IF OptionType \in {Undefined, ConfirmationType.Hash} THEN ConfirmationType.Confirmed
  ELSE OptionType

NoOperation == Initiate(ProxyType.None, ZERO)
NoTx == [status |-> "none"]

Init ==
  /\ client = [network |-> FirstNetwork, from |-> FirstAccount,
               blockGasLimit |-> OptionGasLimit, switches |-> 0]
  /\ \E proxy \in [Operations -> Proxies] :
       ops = [o \in Operations \cup Calls |->
                IF o \in Operations THEN Initiate(proxy[o], ZERO) ELSE NoOperation]
  /\ calls = [c \in Calls |-> [stage |-> "idle"]]
  /\ txs = [c \in Calls |-> NoTx]

-----------------------------------------------------------------------------
(* callContractFunction, up to the transaction                             *)

TypeOf(task) ==
  IF task.options.confirmationType # Undefined THEN task.options.confirmationType
  ELSE confirmationType
DesiredConf(task) ==
  IF task.options.confirmations # 0 THEN task.options.confirmations ELSE DefaultConfirmations
Simulates(task) == task.options.confirmationType = ConfirmationType.Simulate

(* address || other: the zero address is none.                             *)
Or(address, other) == IF address # ZERO THEN address ELSE other

Settled(task, how) == [task EXCEPT !.stage = "done", !.ret = how]

(* method.send, as the contract is now: its provider, its sender where no  *)
(* option names one, and the lists of the operation where the call is a    *)
(* commit.                                                                 *)
Transaction(task, op) ==
  LET of == IF task.target = "pair" THEN task.via ELSE client
  IN  [status  |-> "sent", network |-> of.network, target |-> task.target,
       from    |-> Or(task.options.from, of.from),
       value   |-> task.options.value, gas |-> task.gas, ethTo |-> task.ethTo,
       accounts |-> op.accounts, actions |-> op.actions,
       confirmations |-> 0, heard |-> TRUE]

(* What the call does as soon as web3 has its transaction: an unknown type *)
(* throws, after the fact; a default of Simulate waits for nothing.        *)
Sent(task) ==
  LET t == TypeOf(task)
  IN  IF t \notin 0..3 THEN Settled(task, "error")
      ELSE IF t = ConfirmationType.Simulate THEN Settled(task, "hash")
      ELSE [task EXCEPT !.stage = "sent"]

OperationOf(task) == IF task.target = "pair" THEN NoOperation ELSE ops[task.op]

(* The rest of a chunk, once the call has its gas.                         *)
Send(c, task, op) ==
  /\ txs' = [txs EXCEPT ![c] = Transaction(task, op)]
  /\ calls' = [calls EXCEPT ![c] = Sent(task)]

(* The rest of a chunk, once there is a block gas limit.                   *)
Prepare(c, task, op) ==
  IF Simulates(task) \/ (task.options.gas = 0 /\ DefaultGas = 0)
  THEN /\ calls' = [calls EXCEPT ![c] = [task EXCEPT !.stage = "estimate"]]
       /\ UNCHANGED txs
  ELSE Send(c, [task EXCEPT !.gas = IF task.options.gas = 0 THEN DefaultGas
                                    ELSE task.options.gas], op)

(* getDolomiteAmmPair, getIsolationModeWrapper and the like: an instance   *)
(* of a contract for the client as it is, which its switches do not reach. *)
Instance == [network |-> client.network, from |-> client.from]

(* A call that begins: the pair's instance and the receiver of ether are   *)
(* fixed; "promised", "asked" and "standard" are history: the actions it   *)
(* is for, the network the client is on, and the standard action, if any.  *)
NewCall(target, o, options) ==
  [stage |-> "new", target |-> target, op |-> o, options |-> options, gas |-> 0,
   via |-> Instance, ethTo |-> ZERO, standard |-> {},
   asked |-> client.network, promised |-> <<>>,
   hash |-> "initial", confirmation |-> "initial", ret |-> "none"]

(* The call that commits an operation; a payable one sends its ether to    *)
(* whom the operation, the options or else the client names.               *)
CommitCall(o, op, options) ==
  [NewCall(op.proxy, o, options) EXCEPT
     !.promised = op.actions,
     !.ethTo = Or(op.sendEthTo, Or(options.from, client.from))]

callContractFunction(c, task, op) ==
  IF client.blockGasLimit = 0
  THEN /\ calls' = [calls EXCEPT ![c] = [task EXCEPT !.stage = "block"]]
       /\ UNCHANGED txs
  ELSE Prepare(c, task, op)

(* setGasLimit hears of the latest block, of the network it asked.         *)
GasLimitKnown(c) ==
  LET task == calls[c]
  IN  /\ task.stage = "block"
      /\ client' = [client EXCEPT !.blockGasLimit = GasLimit[task.asked]]
      /\ Prepare(c, task, OperationOf(task))
      /\ UNCHANGED ops

Floored(estimate) == (estimate * 3) \div 2

GasFor(estimate) ==
  IF Floored(estimate) < client.blockGasLimit THEN Floored(estimate) ELSE client.blockGasLimit

Estimated(c, estimate) ==
  /\ calls[c].stage = "estimate"
  /\ LET task == [calls[c] EXCEPT !.gas = GasFor(estimate)]
     IN  IF Simulates(task)
         THEN /\ calls' = [calls EXCEPT ![c] = Settled(task, "simulated")]
              /\ UNCHANGED txs
         ELSE Send(c, task, OperationOf(task))
  /\ UNCHANGED <<client, ops>>

(* The node does not answer, or the call would revert.                     *)
Refused(c) ==
  /\ calls[c].stage \in {"block", "estimate"}
  /\ calls' = [calls EXCEPT ![c] = Settled(@, "error")]
  /\ UNCHANGED <<client, ops, txs>>

-----------------------------------------------------------------------------
(* callContractFunction, from the transaction to the result                *)

WithHash(t)         == t \in {ConfirmationType.Hash, ConfirmationType.Both}
WithConfirmation(t) == t \in {ConfirmationType.Confirmed, ConfirmationType.Both}

OnHash(task) ==
  IF WithHash(TypeOf(task)) /\ task.hash = "initial"
  THEN [Settled(task, "hash") EXCEPT !.hash = "resolved"]
  ELSE task

(* Mutant: an error concerns the confirmation only after there is a hash.  *)
MutantOnError(task) ==
  LET t      == TypeOf(task)
      first  == WithHash(t) /\ task.hash = "initial"
      second == WithConfirmation(t) /\ task.hash = "resolved" /\ task.confirmation = "initial"
  IN  IF first THEN [Settled(task, "error") EXCEPT !.hash = "rejected"]
      ELSE IF second THEN [task EXCEPT !.confirmation = "rejected"]
      ELSE task

(* The two listeners, in the order they were added.                        *)
OnError(task) ==
  LET t      == TypeOf(task)
      first  == WithHash(t) /\ task.hash = "initial"
      second == WithConfirmation(t) /\ task.confirmation = "initial"
                  /\ (t = ConfirmationType.Confirmed \/ task.hash = "resolved")
  IN  IF first THEN [Settled(task, "error") EXCEPT !.hash = "rejected"]
      ELSE IF second
      THEN [IF t = ConfirmationType.Confirmed THEN Settled(task, "error") ELSE task
              EXCEPT !.confirmation = "rejected"]
      ELSE task

Confirmed(task) ==
  [IF TypeOf(task) = ConfirmationType.Confirmed THEN Settled(task, "receipt") ELSE task
     EXCEPT !.confirmation = "resolved"]

OnReceipt(task) ==
  IF WithConfirmation(TypeOf(task)) /\ DesiredConf(task) = 0 THEN Confirmed(task) ELSE task

(* Mutant: any confirmation will do.                                       *)
MutantOnConfirmation(task, number) ==
  IF /\ WithConfirmation(TypeOf(task)) /\ DesiredConf(task) # 0
     /\ task.confirmation = "initial"
  THEN Confirmed(task) ELSE task

OnConfirmation(task, number) ==
  IF /\ WithConfirmation(TypeOf(task)) /\ DesiredConf(task) # 0
     /\ number >= DesiredConf(task) /\ task.confirmation = "initial"
  THEN Confirmed(task) ELSE task

-----------------------------------------------------------------------------
(* The node, and web3 in front of it                                       *)

Transacts(c, from, to, heard, task) ==
  /\ txs[c].status = from
  /\ txs' = [txs EXCEPT ![c].status = to, ![c].heard = heard]
  /\ calls' = [calls EXCEPT ![c] = task]
  /\ UNCHANGED <<client, ops>>

(* A node gives a hash for the transaction, or refuses it; includes it,    *)
(* with success or not; or web3 gives it up, after so many blocks, and     *)
(* hears no more of it, though it may still be included.                   *)
Accept(c) == Transacts(c, "sent", "pooled", TRUE, OnHash(calls[c]))
Refuse(c) == Transacts(c, "sent", "refused", FALSE, OnError(calls[c]))
Mine(c)   == Transacts(c, "pooled", "mined", TRUE, OnConfirmation(OnReceipt(calls[c]), 0))
Revert(c) == Transacts(c, "pooled", "reverted", FALSE, OnError(calls[c]))
GiveUp(c) == Transacts(c, "pooled", "lost", FALSE, OnError(calls[c]))
MineLate(c) == \E status \in {"mined", "reverted"} :
                 Transacts(c, "lost", status, FALSE, calls[c])

Confirm(c) ==
  LET n == txs[c].confirmations + 1
  IN  /\ txs[c].status = "mined" /\ txs[c].confirmations < MaxConfirmations
      /\ txs' = [txs EXCEPT ![c].confirmations = n]
      /\ calls' = [calls EXCEPT ![c] = IF txs[c].heard THEN OnConfirmation(@, n) ELSE @]
      /\ UNCHANGED <<client, ops>>

-----------------------------------------------------------------------------
(* The callers                                                             *)

Add(o, x) ==
  /\ Len(ops[o].actions) < MaxActions
  /\ ops' = [ops EXCEPT ![o] = Build(@, x)]
  /\ UNCHANGED <<client, calls, txs>>

(* Mutant: the operation is committed once the transaction is there.       *)
MutantCommitted(op, options) == op

(* Committed at once, except where the options are left out or simulate.   *)
Committed(op, options) ==
  IF options.given /\ options.confirmationType # ConfirmationType.Simulate
  THEN [op EXCEPT !.committed = TRUE] ELSE op

MayCommit(op) == ~op.committed /\ op.actions # <<>>

(* commit. Its catch clause sees no failure of the call, which it does not *)
(* await.                                                                  *)
Commit(c, o, options) ==
  /\ calls[c].stage = "idle"
  /\ MayCommit(ops[o])
  /\ ops' = [ops EXCEPT ![o] = Committed(@, options)]
  /\ callContractFunction(c, CommitCall(o, ops[o], options), ops[o])
  /\ UNCHANGED client

(* StandardActions: an operation with one action, for the owner, from or   *)
(* to whom the tokens go; ether goes through the proxy that wraps it.      *)
IsEth(x)      == x.marketId = MarketId.ETH
RealMarket(x) == IF IsEth(x) THEN MarketId.WETH ELSE x.marketId
Counterparty(x, network) == IF IsEth(x) THEN PayableProxy[network] ELSE x.owner

StandardItem(x, network) ==
  LET account == [owner |-> x.owner, number |-> 0]
      delta(v) == [value |-> v, denomination |-> "Wei", reference |-> "Delta"]
  IN  CASE x.method = "deposit" ->
             [method |-> "deposit", primary |-> account, marketId |-> RealMarket(x),
              from |-> Counterparty(x, network), amount |-> delta(Int_(x.amount))]
        [] x.method = "withdraw" ->
             [method |-> "withdraw", primary |-> account, marketId |-> RealMarket(x),
              to |-> Counterparty(x, network), amount |-> delta(Negated(Int_(x.amount)))]
        [] x.method = "withdrawToZero" ->
             [method |-> "withdraw", primary |-> account, marketId |-> RealMarket(x),
              to |-> Counterparty(x, network),
              amount |-> [value |-> Int_(0), denomination |-> "Par", reference |-> "Target"]]

(* Mutant: what the options say of the value is kept.                      *)
MutantStandardOptions(x, options) ==
  [options EXCEPT !.given = TRUE, !.from = Or(@, x.owner)]

StandardOptions(x, options) ==
  [options EXCEPT !.given = TRUE,
     !.from  = Or(@, x.owner),
     !.value = IF IsEth(x) /\ x.method = "deposit" /\ @ = 0 THEN x.amount ELSE @]

StandardOperation(x, network) ==
  Build(Initiate(IF IsEth(x) THEN ProxyType.Payable ELSE ProxyType.None, x.owner),
        StandardItem(x, network))

Standard(c, x) ==
  LET op    == StandardOperation(x, client.network)
      given == StandardOptions(x, x.options)
      task  == [CommitCall(c, op, given) EXCEPT !.standard = {x}]
  IN  /\ calls[c].stage = "idle"
      /\ ops' = [ops EXCEPT ![c] = Committed(op, given)]
      /\ callContractFunction(c, task, op)
      /\ UNCHANGED client

(* A call of a function of a pair, through an instance made for it.        *)
CallPair(c, options) ==
  /\ calls[c].stage = "idle"
  /\ callContractFunction(c, NewCall("pair", "none", options), NoOperation)
  /\ UNCHANGED <<client, ops>>

(* The setters of DolomiteMargin.                                          *)
SetProvider(network) ==
  /\ client.network # network /\ client.switches < MaxSwitches
  /\ client' = [client EXCEPT !.network = network, !.switches = @ + 1]
  /\ UNCHANGED <<ops, calls, txs>>

SetDefaultAccount(account) ==
  /\ client.from # account /\ client.switches < MaxSwitches
  /\ client' = [client EXCEPT !.from = account, !.switches = @ + 1]
  /\ UNCHANGED <<ops, calls, txs>>

Answer(c) ==
  \/ GasLimitKnown(c)
  \/ \E estimate \in Estimates : Estimated(c, estimate)
  \/ Refused(c)
Include(c) ==
  \/ Accept(c)
  \/ Refuse(c)
  \/ Mine(c)
  \/ Revert(c)
  \/ GiveUp(c)

Next ==
  \/ \E o \in Operations, x \in Items : Add(o, x)
  \/ \E c \in Calls, o \in Operations, options \in CallOptions : Commit(c, o, options)
  \/ \E c \in Calls, x \in Standards : Standard(c, x)
  \/ \E c \in Calls, options \in PairOptions : CallPair(c, options)
  \/ \E network \in Networks : SetProvider(network)
  \/ \E account \in Owners : SetDefaultAccount(account)
  \/ \E c \in Calls : Answer(c)
  \/ \E c \in Calls : Include(c)
  \/ \E c \in Calls : MineLate(c)
  \/ \E c \in Calls : Confirm(c)

Spec == Init /\ [][Next]_vars

(* The node, and web3's own time limits, answer everything in the end: a   *)
(* request has a time limit (HttpProvider's), a transaction without a      *)
(* receipt is given up after 50 blocks, and blocks are made.               *)
Fairness ==
  \A c \in Calls : WF_vars(Answer(c)) /\ WF_vars(Include(c)) /\ WF_vars(Confirm(c))

FairSpec == Spec /\ Fairness

-----------------------------------------------------------------------------
(* Properties                                                              *)

Begun(c)  == calls[c].stage # "idle"
HasTx(c)  == txs[c] # NoTx

(* An operation is sent as it was when it was committed, and by one call   *)
(* only, whatever is added to the object while the call waits for the      *)
(* node, and whoever commits it again; and what is sent lists each account *)
(* once and has its actions name places in that list. A commit without     *)
(* options, which does not mark the operation, and one that simulates are  *)
(* outside.                                                                *)
Marks(c) ==
  /\ Begun(c) /\ calls[c].target # "pair" /\ calls[c].options.given
  /\ ~Simulates(calls[c])

SentAsCommitted ==
  \A c \in Calls : Marks(c) /\ HasTx(c) =>
    /\ txs[c].actions = calls[c].promised
    /\ IsBatch(txs[c])
    /\ \A d \in Calls \ {c} : Marks(d) /\ calls[d].op = calls[c].op => ~HasTx(d)

(* What a call reports is so on the chain: a receipt is of a transaction   *)
(* that succeeded and has as many confirmations as were asked for, a hash  *)
(* is of one that a node took, and a simulation has none.                  *)
OutcomeMatchesChain ==
  \A c \in Calls : Begun(c) =>
    /\ calls[c].ret = "receipt" \/ calls[c].confirmation = "resolved" =>
         txs[c].status = "mined" /\ txs[c].confirmations >= DesiredConf(calls[c])
    /\ calls[c].hash = "resolved" => txs[c].status \notin {"none", "sent", "refused"}
    /\ calls[c].ret = "simulated" => ~HasTx(c)

(* A standard action of ether sends to the proxy that wraps it what it     *)
(* deposits, unless its caller's options name a value, takes from or gives *)
(* to that proxy, and has its owner receive what it withdraws; if the      *)
(* client stays on its network.                                            *)
EtherCarried ==
  \A c \in Calls : Begun(c) => \A x \in calls[c].standard :
    IsEth(x) /\ HasTx(c) /\ txs[c].network = calls[c].asked =>
      LET a == txs[c].actions[1]
      IN  /\ a.otherAddress = PayableProxy[txs[c].network]
          /\ a.primaryMarketId = MarketId.WETH
          /\ a.actionType = "Deposit" /\ x.options.value = 0 =>
               txs[c].value = a.amount.value
          /\ a.actionType = "Withdraw" =>
               ~a.amount.sign \/ a.amount.ref = "Target"
          /\ txs[c].ethTo = txs[c].accounts[a.accountId + 1].owner

(* Every call comes to a result, and the confirmation it promised too.     *)
SettledFor(c) ==
  /\ calls[c].stage = "done"
  /\ calls[c].ret = "hash" /\ TypeOf(calls[c]) = ConfirmationType.Both
       => calls[c].confirmation # "initial"

EveryCallSettles == \A c \in Calls : Begun(c) ~> SettledFor(c)

(* A plan to liquidate an expired account works: Expiry takes each of its  *)
(* trades, in their order, and at the end the debt or every collateral     *)
(* that was named is gone.                                                 *)
Works(x, plan) ==
  LET account == Along(x, plan)
  IN  /\ \A i \in DOMAIN plan : TradeTaken(x, account[i - 1], plan[i])
      /\ \/ account[Len(plan)].owed = 0
         \/ \A held \in ToSet(x.collateralPreferences) : account[Len(plan)].held[held] <= 0

(* What a plan adds to an operation that is still being built.             *)
Unused(o) == ~ops[o].committed /\ \A c \in Calls : Begun(c) => calls[c].op # o
Added(o, x) ==
  SubSeq(Build(ops[o], x).actions, Len(ops[o].actions) + 1, Len(Build(ops[o], x).actions))

(* By how much a trade may take the client's reckoning and the account     *)
(* apart: a unit of the debt for HeldToOwed, rounded up; what the price,   *)
(* and the spread in it, lose by being rounded down, of the whole debt;    *)
(* what bignumber.js loses of it in a division; and what the books lose.   *)
Drift(x) ==
  LET debt    == -x.weis[x.expiredMarket]
      premium == x.spreadPremiums[x.expiredMarket]
  IN  1 + GetPartialRoundUp(debt, 1, x.prices[x.expiredMarket])
        + GetPartialRoundUp(debt, 2 * PremiumBase + premium, PremiumBase * PremiumBase)
        + GetPartialRoundUp(debt, 1, Places)
        + GetPartialRoundUp(x.indexes[x.expiredMarket], 1, PremiumBase)

(* No trade is near a tie: what its collateral repays is less, or more,    *)
(* than the debt by more than the trades may have drifted.                 *)
Clear(x, plan) ==
  LET account == Along(x, plan)
  IN  \A i \in DOMAIN plan :
        LET held  == Collateral(x, plan[i])
            owed  == account[i - 1].owed
            worth == HeldToOwed(x, held, x.weis[held])
        IN  \/ worth + i * Drift(x) < owed
            \/ owed + i * Drift(x) < worth

(* Once the expiry is past the time over which its spread grows, plans     *)
(* without a near tie work, whatever the operation holds before them. In a *)
(* near tie the client may sell a collateral for which Expiry, which       *)
(* rounds, finds the debt too small, or the other way around.              *)
LatePlansWork ==
  \A o \in Operations : Unused(o) =>
    \A x \in Plans : x.blockTimestamp - x.expiryTimestamp >= ExpiryRampTime =>
      LET plan == Added(o, x) IN Clear(x, plan) => Works(x, plan)

(* "we expect no remaining owedWei"                                        *)
(* (modules/operate/AccountOperation.ts:542), where the plan takes a trade *)
(* to repay all that is left. Before the spread has grown in full, the     *)
(* builder scales the whole price of the debt with the age of the expiry,  *)
(* where Expiry scales only the spread.                                    *)
PlansWork ==
  \A o \in Operations : Unused(o) =>
    \A x \in Plans : LET plan == Added(o, x) IN Clear(x, plan) => Works(x, plan)
=============================================================================
