# DolomiteMargin in TLA+

DolomiteMargin is a margin-lending protocol: Solidity contracts that hold ERC20
tokens, keep for every account a signed balance per market, let owners and the
operators they trust move those balances in batches, and require every account
that acted to be over-collateralized when the batch ends. Around the
contracts the repository has the scripts that deploy them and a TypeScript
client that builds, signs and sends the batches. These modules model
the protocol's core, `operate`, with the books it writes, the arithmetic it
uses and the code that may run in the middle of it; `Expiry`, through which
debts that are due are closed out; the registry
of markets with the proxies of tokens that expire; the multi-signature
wallets that own the protocol; the proxy that runs signed operations, with the
client that makes them; the client's calls; and the deployment. TLC checks them
on small instances and TLAPS proves the main results about the contracts, about
signed operations from the client to the contract, and about what the client's
calls send and report, for every instance.

Paths below are relative to `src/contracts` in the repository for Solidity
files, and to its root for the others.

## The system

| Part | State it keeps | Operations | What makes it correct |
| --- | --- | --- | --- |
| Ledger: `protocol/lib/Storage.sol`, `Account.sol`, `Types.sol` | balances (par) per account and market, totals per market, debt counter and set of held markets per account, status flag per account | `setPar`, `setParFromDeltaWei`, `getNewParAndDeltaWei`, `isCollateralized`, `isVaporizable`, `getNumExcessTokens` | counters, sets and totals agree with the balances at every step |
| Arithmetic: `DolomiteMarginMath.sol`, `Decimal.sol`, `Interest.sol` | index of each market | par/wei conversion, interest, casts | indexes only grow; suppliers are not credited more than borrowers are charged |
| Operation engine: `Operation.sol`, `impl/*Impl.sol`, `lib/Actions.sol`, `lib/Exchange.sol`, `lib/SafeLiquidationCallback.sol` | during a call: action list, primary flags, market cache | `operate`: deposit, withdraw, transfer, buy, sell, trade, liquidate, vaporize, call; final checks | commits are collateralized, permitted, within caps; what was captured before an external call is still true after it |
| Market cache: `lib/Cache.sol`, `Bits.sol` | bitmap and sorted array of the markets of one call | `set`, `get`, `initializeCache` | covers every market its accounts have a balance in |
| Permission: `Permission.sol` | (owner, operator) pairs | `setOperators` | no change without the owner's trust |
| Admin: `Admin.sol`, `impl/AdminImpl.sol` | markets, recycled ids, risk parameters, global operators | add, remove and configure markets, withdraw excess tokens | ids in use are not handed out again; parameters stay within limits; only excess is withdrawn |
| Expiry: `external/traders/Expiry.sol` | expiry per account and market, approved senders, ramp time | set by `Call`, used by `Trade` | nobody closes out a debt that is not due, or takes more than the ramped spread for it |
| Signed operations: `external/proxies/SignedOperationProxy.sol` | cancelled hashes, operational flag | `operate`, `cancel`, `shutDown` | a cancelled or expired operation never runs |
| Recyclable tokens: `external/proxies/RecyclableTokenProxy.sol` | balances of users behind one account | deposit, withdraw, trade, recycle | users get out what they own, also after recycling |
| AMM: `external/amm/*` | reserves, LP shares | mint, burn, trade (as an auto trader) | the product of the reserves never falls |
| Multi-signature wallets: `external/multisig/*` | owners, requirement, confirmations, time lock | submit, confirm, revoke, execute | a call runs once, with enough owners behind it, after the lock |
| Proxies, liquidators, generic traders, oracles, interest setters | none or registries | build action lists; answer rates and prices | rest on `operate`'s checks |
| Client, operations: `src/modules/operate/*`, `OrderMapper.ts`, `StandardActions.ts` | per operation: accounts, actions, authorizations, committed flag | add actions, plan the liquidation of an expired account, sign, commit | what is built is what the contracts understand; what is sent is what was committed |
| Client, signatures: `SignedOperations.ts`, `Signer.ts`, `WalletLogin.ts` | network id | hash, sign, verify, cancel | agrees with the proxy's hashes |
| Client, calls: `src/lib/Contracts.ts`, `src/DolomiteMargin.ts` | provider, default account, gas limit; per call: listeners and promises | call, estimate, send, confirm; switch network or account | what is reported is so on the chain; every promise settles |
| Client, readers: `Getters.ts`, `Logs.ts`, wrappers | none | forward a call, decode a log | — |
| Deployment: `migrations/*`, `scripts/*`, `truffle.js` | addresses in artifacts and in `deployed.json` | deploy, wire, hand over, publish | addresses name one finished deployment |

`operate` is the hub: proxies build action lists and call it; it calls
tokens, exchange wrappers, auto traders (Expiry and the AMM are two), callees
and liquidation callbacks, and reads oracles and interest setters; all balances
are in Storage. The admin, a multi-signature wallet, changes parameters between
operations. Everything
runs in Ethereum transactions, which are serial and atomic, so the concurrency
to worry about there is re-entrance: what other contracts do between the two
halves of an action. Off the chain it is the ordinary one: a client that awaits
a node, transactions that are lost, delayed or included in another order,
scripts that die half way. `PROJECT.json` lists the hazards that follow, each at its line.

## The modules

| Module | Models |
| --- | --- |
| `Partials` | `getPartial`, `getPartialRoundUp`, `getPartialRoundHalfUp` |
| `MarginMath` | `Decimal`, par/wei conversion, index updates, the widths of `to96` and `to128` |
| `Actions` | `ActionArgs`, market and account layouts, `_verifyInputs` and the checks of the preprocessing loop |
| `Ledger` | the books and the functions of `Storage` on them, as operators from ledgers to ledgers |
| `Operation` | the state machine: `operate` and its actions, commit and revert, and what the rest of the chain does meanwhile |
| `OperationProperties` | the type invariant, invariants, action properties and the liveness property |
| `OperationInvariant`, `PermissionInvariant` | the inductive invariants: the books, and the reasons for changing them |
| `SumFacts` | lemmas about the sums of the community modules |
| `OperationProofs` | the proofs, in four parts: the ledger and the books, permissions, the composition with `Expiry`, and `EnumerableSet` |
| `MCOperation` | accounts, markets and menus of requests for TLC |
| `Expiry` | the state machine of `Expiry` beside `Operation`, which it EXTENDS: its storage, its calls, the answers it gives to trades |
| `ExpiryInvariant` | what is true beside `Expiry`, next to the two invariants of `Operation` |
| `MCExpiry` | the borrower, supplier and keeper of the liquidation run |
| `MarketRegistry` | the markets, their tokens and totals, and the linked list of free ids, as operators from registries to registries |
| `Recycling` | the state machine of recyclable markets: the admin who adds and removes them, the proxies behind them and their users; composes with `MarketRegistry` by EXTENDS |
| `RecyclingProofs` | the proofs about both |
| `MCRecycling` | generations of proxies for TLC |
| `AbstractSet` | what `EnumerableSet` promises: a set, with the answers of `add` and `remove` |
| `EnumerableSet` | the array and index map of `EnumerableSet.sol`; implements `AbstractSet` |
| `MCEnumerableSet` | five values for TLC |
| `MultiSigWallet` | what the wallets share: owners, confirmations, the call a transaction makes |
| `MultiSig` | the wallet that executes as soon as it may |
| `DelayedMultiSig` | the wallets with a time lock, some selectors exempt from it; a `MultiSig`, as in the code, which it EXTENDS |
| `MultiSigProofs` | the proofs about both |
| `MCMultiSig`, `MCDelayedMultiSig` | menus of transactions for TLC |
| `ClientTypes` | the client's data: actions, accounts, headers, signed operations, numbers with a minus zero |
| `AccountOperation` | the builder of operations, its plans for expired accounts, authorizations |
| `SignedOperations` | hashes, domains, signatures of every method and wallet, cancellation, login |
| `SignedOperationProxy` | the contract that checks and runs signed operations |
| `SignedFlow`, `MCSignedFlow` | the state machine of owners, relayers and chain around the three before; menus for TLC |
| `BuilderProofs` | lemmas about folds, and about what the builder of operations keeps, for the proofs about signed operations and about calls |
| `SignedFlowInvariant`, `SignedFlowProofs` | what is true of signed operations on their way, inductively; the proofs |
| `ExpiryTrader` | the trades `Expiry` takes, as the client's plans meet them, with its roundings and those of the books |
| `ContractCalls`, `MCContractCalls` | the state machine of the client's calls, web3 and the node; menus for TLC |
| `ContractCallsInvariant`, `ContractCallsProofs` | what is true of a call, its operation and its transaction, inductively; the proofs |
| `Networks` | what the migration helpers know of each network |
| `Deployment`, `MCDeployment` | the migrations as a process that may die at any transaction; networks for TLC |
| `DeploymentInvariant` | in which order the scripts' steps come, on every network; what is true of a deployment, inductively |
| `DeploymentProofs` | the proofs |

### State and actions against the code

*Ledger.* `Types.Par` and `Types.Wei` are sign and magnitude; here they are
integers. A ledger has `par`, the totals `supply` and `borrow`
(`Market.totalPar`), `debts` (`numberOfMarketsWithDebt`) and `held`
(`marketsWithNonZeroBalanceSet`). `SetPar` does what `setPar` does: roll the old
balance out of the totals and the new one in, adjust the counter when the sign
changes and the set when zero is left or reached. SafeMath and `to128` revert
rather than wrap: the field `fits` records whether a write would have, and
`Booked` requires it of the ledger an action writes.

*Operation.* A call of `operate` is a frame: the request, the position `pc` in
its actions, the primary accounts, the counts of held markets, the cache, the
values captured across an external call (`call`), and a snapshot (`saved`).
`Begin` is `nonReentrant` + `_verifyInputs` + `_runPreprocessing`; then one step
per action; then `Commit`, `_verifyFinalState`. `Buy`, `Sell`, `Trade`,
`Liquidate`, `Vaporize` and `CallFunction` leave the frame `waiting` and have a
`...Return` step for what the code does after the external call. A condition
the code requires is a guard; a call that fails it can only take `Revert`, which
restores the snapshot. `Revert` is enabled at any time, since any call may fail
or run out of gas.

*Around it.* While external code runs (`ExternalCodeRuns`: between operations,
while a frame waits, and after the token transfer that ends a deposit or a
withdrawal) the environment may call `setOperators` (no guard), send tokens to
the protocol, move an oracle's price, call admin functions and call `operate`
itself; the last two take the guard, so `MayEnter` stops them while a frame
exists, which is a fact the model has to establish, not one it is built on:
frames are a stack, and `CapturedStillTrue` fails if `MayEnter` is TRUE.

*Expiry.* `expiries`, `approvedSender` and `rampTime` are the contract's storage,
where 0 means none, as in the code; `undo` holds a copy of it per frame, since a
revert of `operate` takes it back too. A call of `operate` reaches `Expiry` while
an action waits (`InExpiry`): in a `Call`, `CallSetExpiry` is the loop of
`_callFunctionSetExpiry`, which skips what the sender may not set, and
`CallSetApproval` the other function; in a `Trade`, `GetTradeCost` is the
answer, with every check, computed from what was captured and from the books as
they are before the trade is booked (`Repaying` and `Selling` are the two
branches), and `QuotedTrade` is DolomiteMargin's half after it. Between the two
only the liquidation callback of the account runs, which may do whatever
external code may do. `ApproveSender` may be called at any time that external
code runs; `OwnerSetExpiryRampTime` only between transactions, since the owner is
a wallet and not a contract an operation calls. `Expiry` is a global operator
(`migrations/2_deploy.js:629`), which lets it trade against every account, and an
auto trader only global operators may use (`migrations/3_setup.js:76`).

*Recycling.* A recyclable token is its proxy: `token` of a market, `Recyclables`
and the owner of the accounts are one thing, as in the code.
`OwnerRemoveMarket` is the body of the loop of `ownerRemoveMarkets`, which
removes a list of markets by as many steps, and `OwnerAddMarket` includes the
call of `initialize`. A user's deposits, withdrawals and trades appear by what
they do to the proxy's account: `Credit` with the checks of `transferFrom`,
`Debit` paid by whatever token the market has at that moment, and the check
that `operate` ends with (`OwnerRespected`). Left out, each because the code or
its tests say so: a recyclable market is closing from `initialize` on, so there
are no borrows in it and its index stays 1; the salvager is the proxy itself, as
in `test/proxies/RecyclableTokenProxy.test.ts` (any other salvager is paid what
`withdrawAfterRecycle` needs); markets of plain tokens are there for their ids
only. `KeepersInTime` is the assumption of the README of the code that
bots close leveraged positions within the week after the expiration.

*EnumerableSet.* `Ledger` keeps `held` as a TLA+ set. That is justified by
`EnumerableSet`: `values` and `valueToIndexMap` are the fields of the struct, `Add`
and `Remove` the two functions, `changed` what the last of them returned (read by
the refinement). The set it implements is what `Contains` finds. `SetInit`,
`SetNext` and `SetSpec` are named so that its proofs can stand beside `Operation`'s.

*Multi-signature wallets.* `wallet` is the storage, a record, because a call
that fails puts a whole earlier storage back. `executeTransaction` calls any
contract: a frame holds the storage before the call (`saved`, what is left when
it fails) and the storage before the function that made it (`entry`, left when
the error that came back is long enough for `abi.decode` but not a string). Until `Return`, every
function is open to every owner again, up to `MaxDepth`. A call to the wallet
itself is the only way to the functions under `onlyWallet`, and takes effect in
the same step (`AfterOwnerCall`). Any call may fail, if only for gas, and
`Return` may take that outcome whatever happened inside. `DelayedMultiSig` adds
its own fields to the wallet and has its own initial states and actions
(`DelayedConfirm`, `DelayedExecuteTransaction`, ...), since its contract overrides
those functions; the owners' functions it shares. A
failure there reverts `executeTransaction`, which leaves `saved` and `entry` equal;
`executeMultipleTransactions` is several `DelayedExecuteTransaction` steps or none.
`runs`, `quorate`, `passedAt` and `passedByVote` are history variables, undone
with the rest by a failure. Left out: the ether a transaction sends, the
getters, and a wallet that is its own owner.

*The client's data.* A BigNumber is a sign and a magnitude, because the client
tells minus zero from zero and multiplies the sign in and out
(`ToInt`, `Negated`). A hash is the record of what is hashed, so hash functions
are injective; a signature is who signed what by which method. An action is in
one of the two forms of the code: with positions in the batch's list of
accounts, as `operate` takes it, or with its accounts in full, as it is signed.

*Signed operations.* `Sign` is `createSignableOperation` and `signOperation`,
`AddSigned` is `addSignedOperation`, `Commit` makes the authorizations by
`GenerateAuthData`, which fills the gaps between signed parts; `Run` is the
proxy's `operate` with every check and the search for each authorization's
actions, `Cancel` its `cancel`; `Fail` is any revert, of the proxy or of
`DolomiteMargin`, and a dropped transaction. `networkId` is apart from `network`
because `setProvider` reaches the contracts and not the ids that signatures are
made with. `ended` is a history variable. What owners and relayers may put into an
operation is what the interfaces of `types.ts` allow (`IsItem`), of accounts that
belong to somebody (`NamedAccount`).

*Calls.* `callContractFunction` is cut where it awaits: the block gas limit, the
estimate, the transaction. Everything between two awaits is one step, with the
arguments web3 encodes at that moment. `OnHash`, `OnError`, `OnReceipt` and
`OnConfirmation` are the listeners, with the variables they close over
(`hash`, `confirmation`) and the effect of a promise settled twice. web3 removes
its listeners after an error (web3 1.2.1, eventemitter3): `heard`. The node is
external: `Accept` to `Confirm` are what it may do. A plan for an expired account is
computed with fractions (`Frac`), since bignumber.js multiplies exactly, and
`Quotient` is its division, rounded half up to the decimal places of
`src/index.ts`. `promised`, `asked` and `standard` are history variables. What a caller may put into the options of a
call is `CallOptionFields`.

*Deployment.* The four scripts are data: `Plan(network)` is the sequence of their
steps in order, with the branches on the network taken. A process runs it step
by step, knows the addresses of the artifacts (`memory`), saves them when a
script ends (`book`, truffle's artifactor) and publishes them at the end
(`published`, `deployed.json`). The client reads a copy of that file (`built`,
`build/published_contracts`), which neither `npm run deploy` nor `deploy_single`
renews (`package.json:50-51`): `Build` (`CleanBuild.ts:50-54`) is an action of its
own, which may come at any time between two processes or never again. `DeployOne`
takes the addresses from the copy (`DeployContract.ts:34-37`).
`Lose` ends it at any transaction, which may land all the same. The call that
nobody awaits is in `pending`. Left out: numbers (risk and interest
parameters, gas), source verification, and the contracts for tests, which are
grouped.

*Abstractions.* Tokens move what they say (no fee on transfer). The data of
exchange orders and calls is left out: an exchange costs and returns any of
`ExternalAmounts`, a trader answers any of `OutputAmounts`. Prices and rates are
chosen from sets. Events, revert texts and the token approvals an exchange needs
are left out. `Market.token` and the risk parameters are constants of one
instance. The field `trusted` of a frame is a history variable (every operator
trusted at some moment of the call); only properties read it.

## The runs

Twelve, of which two end in a counterexample.

### `Operation`

All use a fixed-point unit of 10 (`Base`), a margin ratio of 20%, a
liquidation spread of 10%, a minimum borrow of two tokens' value (one in
`limits`; in `liquidation` the ratio is 30% and the spread 20%, so that the
ramp, at half its time, is a spread of its own), and a small `Max128`,
`TokenSupply` and `MaxTime`, which are the bounds of the state space: `Max128`
is reached, so overflow is a case of the runs. The rate of `lending` is high,
so that one time stamp makes a loan a case for liquidation.

| Run | Instance | Shows |
| --- | --- | --- |
| `lending` | two owners and two markets; deposits, borrows, transfers, buys, sells, trades and calls, alone and in pairs; external code sends tokens, gives and takes trust, re-enters; a debt triples in one time stamp, and is liquidated or vaporized | `TypeOK`, `SummariesConsistent`, `TotalsConsistent`, `CacheCoversAccounts`, `CapturedStillTrue`, `CommitsCollateralized`, `OnlyPermittedChanges` |
| `limits` | a market that closes and reopens, caps below the supply, a recyclable market, a third market and a maximum number of held markets that goes between two and three; calls of external code; with fairness | `LimitsRespected`, `RecyclableIsolated`, `GuardReleased` |
| `liquidation` | `MCExpiry`: a borrower, a supplier, a keeper; expiries set by the owner or, once approved, by the keeper, and lifted; a ramp time of none or two ticks; the price of the borrowed market doubles and halves, interest accrues over two time stamps, the keeper liquidates, closes out or vaporizes, or the borrower repays | `VaporOwesOnly`, `OnlyDueChanges`, `CloseOutTowardsZero`, `CloseOutFair`, `ExpiryClearedWithDebt`, `AccrualCovered`, `ExcessNotOverspent` |

Two accounts and two markets are enough for the properties that relate one
account to another and one market to another (the third account of
`liquidation` is the keeper's, the third market of `limits` exceeds the smallest
maximum the admin may set); lists of two actions are enough for the order
of actions to matter; the values are small but cover zero, a balance crossing
zero, a total at its maximum, and collateral just at and just below the ratio.

The slacks: `getPartialRoundHalfUp` rounds each balance and each total on its
own, so the excess of a market may fall by a unit in an index update or an
operation without anybody taking a token, and a liquidation may be a unit off
the exact exchange. In `liquidation`, the only run of the properties about the
excess, the slack of an index update is one token and that of an operation two.

*Liquidations and close-outs.* `OnlyDueChanges` is `OnlyPermittedChanges` where
a global operator is at work on every account: the balances of an account that
does not trust the sender change only if a debt of it was due when the operation
began, or it is liquidated or vaporized. `CloseOutFair` has three parts: what a
liquidation takes, what `Expiry` quotes, with the spread in proportion to the
time since the expiry, and that a trade moves what was quoted even though a
callback ran after it. `ExpiryClearedWithDebt` says that a trade through
`Expiry` that repays the last of a debt clears the expiry, and that one which
does not leaves it. The times are 0 to 2 and the calls set expiries one or two
ticks ahead, so a debt is met before its expiry, on it, in the ramp and, with
a ramp time of none, after it. The amounts repaid or sold are the whole debt,
the whole of the collateral, or one token.

Two facts about expiries the properties leave room for, because the code has
them so. An expiry outlives a debt that is repaid by a deposit, a buy or a
transfer, and applies to the next debt of the account in that market. And the
branch that sells collateral clears the expiry when the tokens paid equal the
debt in tokens (`Expiry.sol:412`): where an index is above two, a debt may be
left of one token that is no more than half a unit of principal and is rounded
away when it is booked; the debt is gone then and its expiry stays.
`ExpiryClearedWithDebt` therefore speaks of debts repaid to zero tokens.

*Fairness.* Only `limits` assumes any: `WF_vars(Step)`, that a running call
goes on. The code justifies it by the chain: a transaction is executed to its
end or runs out of gas, which is `Revert`. Nothing is assumed about the
environment.

### `Recycling`

| Run | Instance | Shows |
| --- | --- | --- |
| `recycling` | two proxies of two generations and two plain tokens under three ids, two users, leverage that keepers wind down in time | `TypeOK`, `MarketsFound`, `FreeIdsListed`, `MarketKept`, `ClaimsBacked` |
| `free_ids` | six proxies of three generations | `HeadIsFree` is violated |

`free_ids`: a link is written only if the list was not empty, and never cleared,
so an id removed a second time may keep the link of its first removal. The
shortest run removes 1, then 2 (2 links to 1), lists two markets, removes 2
again and lists another: the list now begins with 1, which is in use, and the
next market to be listed takes the id away from its owner. Everything about the
list is therefore stated up to the first second removal of an id
(`RecycledOnce`); up to there it is proved.

`ClaimsBacked` needs `KeepersInTime`. `ownerRemoveMarkets` requires an expiration
and a week, and nothing about the accounts: if a leveraged account is still open
when its id is used again, its liquidation moves tokens of the new market
against a balance of the old one, and the new proxy no longer holds what its
users own. With `KeepersInTime` set to `FALSE` TLC shows it.

The bounds: `MaxMarkets` ids, of which 0 is the native token's, so that the list
has up to two; `MaxTime` lets two (in `free_ids` three) generations expire;
`MaxPar` and `Amounts` allow partial withdrawals. Both `Week` and expirations
are a few ticks. Time and tokens run out, so these runs do not check deadlock.

### `EnumerableSet`

| Run | Instance | Shows |
| --- | --- | --- |
| `enumerable_set` | five markets added and removed in every order | `ImplementsSet` |

Five values let the removed one be the last, the one before it, or earlier, in
arrays of every length; the whole state space is explored, and the proof covers
any number.

### Multi-signature wallets

| Run | Instance | Shows |
| --- | --- | --- |
| `multi_sig` | two owners, a third to come, three transactions: owner changes, the requirement, a payment whose receiver re-enters | `OwnersAgree`, `RunsOnce`, `QuorumBehind` |
| `delayed` | two transactions, a time lock of two ticks that may become one, exempt selectors | `LockServed` |

Three transactions let an owner change happen between two confirmations of a
payment, with one to spare; calls nest twice, so a call can return, or fail,
inside another. `LockServed` speaks of transactions that a confirmation brought
to the quorum, and has to: the time of the quorum is recorded by
`confirmTransaction` only. Where one owner submits (and so confirms) a
payment, and both then lower the requirement to one, the payment is confirmed,
its confirmation time is still 0, and it can be executed at once. Transactions
run out, so these runs do not check deadlock. None assumes fairness: nothing
obliges owners to act.

### Client

| Run | Instance | Shows |
| --- | --- | --- |
| `signed` | an owner, one that trusts it, a relayer who is a global operator; offers of one signed withdrawal and trade and one signed transfer; two transactions under way; two networks | `ValidMeansAccepted`, `CancelsWhatWasSigned`, `SignaturesVerify`, `RunsAtMostOnce`, `OnlyAuthorizedRuns` |
| `client` | two calls, of one operation or of two, of ether or of a pair, of every type of confirmation; one switch of network or account; plans for expired accounts; with fairness | `SentAsCommitted`, `OutcomeMatchesChain`, `EtherCarried`, `LatePlansWork`, `EveryCallSettles` |
| `expired_plan` | one call, the plans of `client` | `PlansWork` is violated |

The offers of `signed` have the shapes a hash depends on: an action without an
amount, an amount of zero taken out (a minus zero in the client), a second
account, and a receiver that comes first in the list of accounts. Two
transactions under way let an execution meet a cancellation, and two
executions each other, in either order. Operations signed after `setProvider`
carry the old network's domain; the proxy refuses them, and the properties speak
of the others.

Two calls let one be committed, or the client be switched, at every await of the
other. A hash, a receipt, one confirmation, a revert, a refusal and web3's own
time limit each come in every order the node allows. The plans are for an
expiry at, in and after the ramp time, with a spread that does not divide the
price and an index that does not divide the debt, and collaterals that repay
little of it, half, all, or, rounded up, one unit more than there is; so plans
of two sales, of a sale and a repayment and of a repayment alone occur, and one
that is a tie.

`expired_plan`: while the spread still grows the client scales the whole price
of the debt with the age of the expiry and `Expiry` only the spread, so a plan
names the wrong side of a trade, and `Expiry` refuses it. From the end of the
ramp time on the two agree (`LatePlansWork`), but for near ties.

Near ties are there because the client computes with decimals and `Expiry` with
integers. `Expiry` rounds the spread down for each premium
(`Storage.sol:361-362`), the price with the spread too (`Expiry.sol:273`), and what
a collateral repays up (`Expiry.sol:485`); DolomiteMargin books what is left as a
principal. Past the ramp time, a debt of 20 at a price of 10, a spread of 5 % and
a collateral of 210 at a price of 1 are a tie for the client, which sells the
collateral; `Expiry` has a price of 10, finds that 210 repay 21 of 20, and
refuses. The same happens in the model, and `LatePlansWork` therefore speaks of
plans in which no trade is near a tie (`Clear`): what the collateral repays, as
`Expiry` computes it, is less or more than the debt by more than `Drift` for
each trade up to this one. `Drift` adds up what one trade may take the two
reckonings apart by: one unit for the rounding up, a unit of the price and the
units of the spread, as fractions of the debt, for the rounding down, the
eightieth decimal of the client's division, and the index for the books. With a
price of 10^18 or more and a base of 10^18 that is a few units of the token's
smallest denomination and a few parts in 10^18 of the debt; with the small numbers
of the run it is 8 of a debt of 20, and the plans leave that margin, except the
one that is a tie. Nothing in the
repository says what a near tie should do, so none is reported as a finding.

Two things the properties leave out because the code has them so. `commit`
does not await its call, so its catch clause never runs and an operation whose
call failed stays committed (`AccountOperation.ts:446`). And the default type of
confirmation is `Confirmed`, where `docs/typescript.md:74` says that a
call by default resolves when the node has the transaction.

*Fairness* (`client`): for each call, that its requests to the node are answered,
its transaction is included, refused or given up, and a mined one gets further
confirmations (`WF_vars` of `Answer`, `Include` and `Confirm`). The
client's provider has a time limit on every request (`ethereumNodeTimeout`),
web3 gives a transaction up after 50 blocks, and the chain goes on. `signed`
assumes none: owners, relayers and the chain may stop.

Calls and signed operations run out, so these runs do not check deadlock.

### Deployment

| Run | Instance | Shows |
| --- | --- | --- |
| `deployment` | five of the networks, two runs that may be cut short at any transaction, with and without overwriting, the client built now and then, one contract replaced | `OneDeployment`, `PublishedIsComplete`, `FreshRunsSucceed` |

The five networks are one of each kind: `arbitrum_one`, on which the scripts
end; `matic` and `arbitrum_goerli`, on which they throw, at the
parameters of the oracle and at those of a liquidator; and of the test networks one without
markets (`test`) and one with them (`docker`). Two runs are enough for
a second to find what any prefix of the first left, and for a client built between
them to be behind. Which networks throw can be
read from `Networks`: matic (`oracle_helpers.js:218`), mumbai_matic,
kovan and mainnet (`oracle_helpers.js:262`), arbitrum_rinkeby and
arbitrum_goerli (`liquidator_helpers.js:12`). Nothing is published for them,
which is why `PublishedIsComplete` holds.

`OneDeployment` does not say that all of `deployed.json` is one deployment, because
the program does not keep it so: deploy, build, deploy again with
`OVERWRITE_EXISTING_CONTRACTS`, and deploy `GenericTraderProxyV1` alone before the
client is built anew, and the file names a proxy of the first deployment beside the
contracts of the second. Two runs and one single contract reach this. What the
property says is that it is the only exception: the saved addresses, and every other
published contract, refer to each other, and the one deployed on its own refers to
contracts of one deployment, never to a mixture. No document, comment or
test promises otherwise, so this is not listed as a finding. The properties follow what
contracts were constructed with, not what a client does with them afterwards; of the
owners, `PublishedIsComplete` speaks of the seven contracts `4_ownership.js`
transfers (`Migrations` stays with the deployer).

TLC also evaluates `PlanAssumption` (`DeploymentInvariant`), for all thirteen
networks.

*Fairness*: a process that runs goes on or dies (`WF_vars(Process)`, in
`FairSpec`; the invariants are those of `Spec`); nobody is
obliged to start one. `Lose` is not fair, and a run that is lost is over.

## What is proved

`OperationProofs` proves, for any sets of addresses, accounts, markets and
requests, any prices, rates and parameters that satisfy the named assumptions
(`WidthAssumption`, `LedgerAssumption`, `OperationAssumption`,
`EnvironmentAssumption`: finitely many accounts and markets, natural
numbers where the code has unsigned ones, earnings rate at most one):

| Theorem | Says |
| --- | --- |
| `InductiveInvariant` | `Inductive` is an invariant |
| `TypeCorrect` | `[]TypeOK` |
| `SummariesCorrect` | `[]SummariesConsistent` |
| `TotalsCorrect` | `[]TotalsConsistent` |
| `CacheCovers` | `[]CacheCoversAccounts` |
| `RecyclableStaysIsolated` | `[]RecyclableIsolated` |
| `LimitsHold` | `LimitsRespected`, for closing markets, caps and held markets |
| `CommitsAreCollateralized` | `CommitsCollateralized` |

None of the properties is inductive. That the final check sees all debts needs
that the cache covers all balances; that needs that the operation has written
only to its accounts in its cached markets (`SameElsewhere`, against the
snapshot); that needs that no other operation has run since, which the guard
gives, and that the cache was built from a set of held markets that agreed with
the balances, which needs that every `setPar`, in this call and before, kept the
summaries in step, and that a revert goes back to books in which they were.
`Inductive` says all this. The first part of `OperationProofs` has the lemmas
about the operators: `SetParSummaries` and `SetParSound` carry the argument
about one write, and the `Kept` lemmas chain the writes of an action. Then comes
a lemma per action, most of them instances of `ActionStep`.

`TotalsConsistent` is about sums over all accounts. `SumFacts` proves what a sum
does when one value changes (`SumChange`) for any finite set. The community
modules define it as a recursive function over the subsets of the domain that
takes elements in the order of `CHOOSE`; that the function exists, and that the
order does not matter, is shown by induction on the number of elements, put as
"a set of naturals that has 0 and the successor of each of its members is `Nat`"
(`NatSets`), which follows from the order of the naturals being well-founded.

The second part of `OperationProofs` proves, from the same assumptions:

| Theorem | Says |
| --- | --- |
| `AuthorizedInvariant` | `Authorized` is an invariant |
| `CapturesStayTrue` | `[]CapturedStillTrue` |
| `VaporOwes` | `[]VaporOwesOnly` |
| `ChangesArePermitted` | `OnlyPermittedChanges` |

These properties look at an operation when it ends, or at the two sides of an
external call; `Authorized` says what is true in between. Every balance that
differs from the snapshot has a reason, told from the frame alone (`Reason`); so
has every account an action that waits is about to write to, so that the second
half of the action finds it. A flag is a reason only if it was there when the
operation began, or has one (`Permitted`): a liquidation sets it from the books
as they are by then, and these differ from the snapshot for that account only if
the account had a reason to differ. What `Liquidate` and `Vaporize` captured is
still what they would compute now (`LiquidationSound`, `RepaymentSound`), which
needs that an account is not in the list twice, and for the flags of accounts
that owe only, that a repayment booked by either of the two ways of
`_vaporize` leaves nothing supplied, whatever is rounded away.

The third part of `OperationProofs` proves, under `ExpiryAssumption` as well:

| Theorem | Says |
| --- | --- |
| `ExpiryImplementsOperation` | every behaviour of `ExpirySpec` is one of `Operation`'s `Spec` |
| `CloseOutsLeaveCollateralized` | `CommitsCollateralized`, with trades through `Expiry` among the actions |
| `CloseOutsVaporOwes` | `[]VaporOwesOnly` |
| `CloseOutsArePermitted` | `OnlyPermittedChanges` |
| `DueInvariant` | `Due` is an invariant |
| `ChangesAreDue` | `OnlyDueChanges` |
| `CloseOutsTowardZero` | `CloseOutTowardsZero` |
| `ExpiryIsClearedWithDebt` | `ExpiryClearedWithDebt` |

`Operation` lets a trader answer anything and a callee do what external code
may do; the steps of `Expiry` are such answers, or touch only its own storage.
So every theorem about `Spec` holds of the composition, the second to the fourth
among them.

The others are about what `Expiry` adds. `Due` refines the reasons: a trade
through `Expiry` is one only if a debt of the account had passed its expiry when
the operation began. That needs that an expiry in the past was there then: what
an operation sets lies in the future, and time stands still while it runs
(`ExpiriesKept`); the loop of `_callFunctionSetExpiry` keeps this by induction
along its arguments (`LoopEnds`, `LoopKeeps`). `ExpiryAssumption` says that
`Expiry` is a global operator and that only global operators may trade with it,
as the migrations make it (`migrations/2_deploy.js:629`,
`migrations/3_setup.js:76`): without the second anyone could use the first.

A close-out is rounded four times: in the price, in the amount, and in the
conversion of each of the two balances. `MovedTheirWay` says that a balance that
is changed by an amount of tokens never ends on the wrong side, at an index of at
least one: par to tokens and back is the identity (`RoundTrip`), the conversions
are monotone, and zero tokens are zero. `Answered` carries what `Expiry` checked
(debt, collateral, whether the expiry was cleared) over the callback to the
moment the trade is booked, which is not the moment of the check; `Inductive` and
`Due` give that nothing has touched either balance in between.

The fourth part of `OperationProofs` proves, for any set of values,
`ArrayFollowsMap`, that the array and the index map agree, and from it `EnumerableSetIsASet`
(`ImplementsSet`): every step of the struct is one of the abstract set, with the
same answer.

`RecyclingProofs` proves, for any tokens, proxies, users, ids and expirations
that satisfy `RegistryAssumption` and `RecyclingAssumption`:

| Theorem | Says |
| --- | --- |
| `RegistryInductive` | `Recycling`'s `Inductive` is an invariant |
| `RecyclingTypeCorrect` | `[]TypeOK` |
| `TokensListedOnce` | `[]MarketsFound` |
| `FreeListRight` | `[]FreeIdsListed` |
| `ProxiesKeepMarkets` | `[]MarketKept` |
| `ProxiesBacked` | `[]ClaimsBacked` |

`FreeIdsListed` says that a sequence of the free ids exists which the links
follow; the step lemmas exhibit the sequence after an id is pushed or popped.
It needs that the new id of a market has no link yet (`LinksBounded`: ids never
removed have none, and no link leads past the ids in use) and that market 0 is
never removed (`OnlyProxiesRecyclable`). `MarketKept` needs `FreeIdsListed`: an
id taken from the list is free, so no proxy loses its market. `ClaimsBacked`
compares the sum of the users' claims with what the proxy holds and, while it
has its market, with the market's total supply (the sums by `SumFacts`).
`Backed` adds what keeps later users of an id out of it: an id that is free has
no supply left, users are paid from a recycled proxy only, and no account is
leveraged when a week has passed since the expiration, which is where
`KeepersInTime` is needed.

`MultiSigProofs` proves, for any finite set of possible owners, any transactions
and any depth of calls that satisfy `WalletAssumption` and `OwnersAssumption`, and
for the wallet with a time lock `DelayAssumption` (a time lock is a natural
number):

| Theorem | Says |
| --- | --- |
| `WalletInductive` | `MultiSig`'s `Inductive` is an invariant |
| `MultiSigTypeCorrect` | `[]TypeOK` |
| `OwnersStayInStep` | `[]OwnersAgree` |
| `TransactionsRunOnce` | `[]RunsOnce` |
| `QuorumWasBehind` | `[]QuorumBehind` |
| `DelayedWalletInductive` | `DelayedInductive` is an invariant of `DelayedSpec` |
| `DelayedWalletSafe` | `[]OwnersAgree`, `[]RunsOnce` and `[]QuorumBehind`, of the wallet with a time lock |
| `TimeLockServed` | `LockServed` |

A failure brings an earlier wallet back, so the invariant must hold of every
wallet in a frame as well; and a call is made twice unless a transaction whose
call was made is marked as executed, which `Sound` adds. `QuorumBehind` needs
`OwnersAgree`: the places `isConfirmed` counts inject into the owners only if no
owner is in the array twice (`ConfirmedHasQuorum`), and `OwnersAgree` needs that
the owner to remove has exactly one place (`OwnerHasPosition`).

`LockServed` compares two clocks: the time the code records when a confirmation
is given, and the time since which the transaction has really had its quorum
without a break. `TimesKept` says that the first is never behind the second for a
transaction that a confirmation brought to the quorum; it is kept because such a
transaction takes no more confirmations until one is revoked or an owner
leaves, and either ends the quorum or leaves both times alone. `LockServed` is
about steps that execute, and a call that fails replaces the whole wallet:
`NoLater` says that what comes back has executed no more than the wallet it
replaces, so that no failure counts as an execution. For that a wallet deeper in
the stack must have executed no more than one above it, which is the last part of
`DelayedInductive`.

`SignedFlowProofs` proves, for any owners, relayers, networks, offers and
wallets, batches of any length and any number of signed operations and
transactions:

| Theorem | Says |
| --- | --- |
| `SoundInvariant` | `Sound` is an invariant |
| `OperationsRunOnce` | `RunsAtMostOnce` |
| `AuthorityIsKept` | `OnlyAuthorizedRuns` |
| `ValidIsAccepted` | `[]ValidMeansAccepted` |
| `CancellationsReach` | `[]CancelsWhatWasSigned` |
| `SignaturesAreConfirmed` | `[]SignaturesVerify` |

The properties speak of two ends, what an owner signed and what the proxy
computes from a transaction; `Sound` follows the operation in between. The
client writes it down four times: with places in the draft's list of accounts,
with its accounts in full, with places in the list of a batch that
holds other things, and, to cancel it, with a list of its own. `SignedSound` says
that what is signed is whole (a second account exactly where the proxy looks for
one) under a signature by the signer its header names. `Covers` says that the
part of a batch an authorization stands for is, with its accounts resolved, what
was signed; it is kept because a batch only grows and keeps the places of its
accounts (`Kept`, `HoldsOn`). `BatchSound` adds that these parts follow one
another without overlap, from which `GeneratedFacts` shows that the
authorizations with the gaps filled in are counted off by the proxy to
the same actions, and that they cover all of them. `Remembered` says that what
ended on a network is invalidated there. The theorems about the proxy follow
with `HashIs` (the proxy's hash of a covered part is the signed one) and
`SameHash` (equal hashes, equal operations); `Located` adds that no action
escapes the authorizations, and `CancelPlaces` where `cancelOperation` puts an
account.

The code runs through lists with `reduce`, `forEach` and `concat`; the model has
`FoldLeft` and `FlattenSeq` of the community modules. `FoldExists` and
`FoldTurns` show that such a fold is a sequence of turns, `Flattened` that
`FlattenSeq` joins one sequence after the other, by induction over the numbers up
to the length (`AllReached`). The folds the proofs meet are the cases of one
operator, `Turn`, since a lemma cannot take an operator. `BuilderProofs` has these
lemmas and those about the builder: what is added to an operation keeps the
actions and accounts that are there (`AddedTo`), lists every account once and
names places in the list.

The assumptions: `ZeroAssumption`, that the zero address is nobody's;
`BuilderAssumption`, that `Expiry` and the exchange wrappers are contracts;
`FlowAssumption`, that drafts, headers and items have the types of `types.ts`;
`PrefixAssumption`, that a wallet prepends to what `eth_sign` signs nothing or the
decimal header. That it is not the hexadecimal header, the third of the
`SIGNATURE_TYPES`, only `SignaturesVerify` needs: the proxy verifies that type, but
no method of the client produces it, so the client does not serve such a wallet.
Hashes and signatures are records, that is injective and
unforgeable: the theorems are about the code around the cryptography.

`ContractCallsProofs` proves, for any number of calls and operations, any
networks, owners, options, items and plans, that satisfy `ZeroAssumption`,
`BuilderAssumption`, `CallsAssumption` (options, items and constants have
the types of `types.ts`) and `PlansAssumption` (a plan is for a market with a debt,
as the builder requires, its numbers are integers, prices and indexes are not zero,
and its caller names a collateral once; the bases, the ramp time and the decimal
places are positive):

| Theorem | Says |
| --- | --- |
| `CallsSound` | `Sound` of `ContractCallsInvariant` is an invariant |
| `CommitsSentOnce` | `[]SentAsCommitted` |
| `ReportsAreTrue` | `[]OutcomeMatchesChain` |
| `EtherIsCarried` | `[]EtherCarried` |
| `LatePlansAlwaysWork` | `[]LatePlansWork` |

A call is begun in one step and sends in another, and between them its owner may
add to the operation, commit it again, or switch the client. `Sound` ties the
three pieces of state together, call by call. `Carries` says that
the operation which a call marked as committed still has the actions it
promised: `Add` does nothing to a committed operation, and that nothing ever
clears the mark is what the code's catch clause, which never runs, amounts to.
`MarkedOnce` is the other half: an operation that is marked is refused by the next
commit, so no two calls mark the same one, though a call that simulates, or one
without options, may use it beside them. `Truthful` is about the listeners: a
promise of the hash is resolved only when a node has taken the transaction, one of
the confirmation only with the receipt and as many confirmations as were asked
for, and a call that still waits for the node has neither sent nor reported
anything; the error listener settles what is left, and since web3 has dropped its
listeners by then (`heard`), no late receipt undoes a report. `CarriesStandard`
follows a standard action from its options to the transaction: its operation is
its call's own, so nobody adds to it, and the value, the receiver and the
counterparty are computed at once from one network. `Belongs` keeps the
three kinds of calls apart.

`LatePlansWork` compares two computations: the builder's, with decimals and before
anything is sent, and that of `Expiry`, with integers, trade after trade. `LatePrice`
shows that past the ramp time the builder's price is the exact one, and how far
below it the price of `Expiry` is (`PriceBounds`: three floors, one inside the other).
`Worth`, `RepaidAtLeast` and `RepaidAtMost` turn this into bounds for what a
collateral repays, and `DivisionBounds` and `BookedBounds` into bounds for what the
client's division and the books lose. `Tracks` is the relation they add up to: the
builder's fraction of the debt and the debt in the account are apart by no more than
a `Drift` for each trade so far, and one is zero exactly when the other is. `TradeAgreed`
shows that, of a trade that is not near a tie, the builder names the side that
`Expiry` accepts (`RepaymentFits`, `SaleFits`), and that `Tracks` holds again after it
(`RepaymentAgreed`, `SaleAgreed`). `OnItsWay` is the invariant of the builder's loop:
`Tracks`, the collaterals still to come are untouched (hence each named once), and
those gone by are used up, or the debt is gone. The
loop is a fold and the accounts on the way a recursive function; that
both have a solution, for any number of collaterals, is proved by an
induction over sets of numbers (`FoldsExist`, `AlongFacts`).

`DeploymentProofs` proves, for any of the networks, any number of runs and of
single contracts, that satisfy `DeploymentAssumption`:

| Theorem | Says |
| --- | --- |
| `DeploymentIsSound` | `Sound` of `DeploymentInvariant` is an invariant |
| `OneDeploymentAlways` | `[]OneDeployment` |
| `PublishedAlwaysComplete` | `[]PublishedIsComplete` |

What the scripts do is data, and `PlanAssumption` says what about this data
matters: a contract is deployed after those it refers to and once
(`DeploysInOrder`), no contract that a later script deploys refers to one that is
already saved (`SavesInOrder`), nothing is deployed after the contracts begin to be
told of each other, and the call that is not awaited comes after its market
(`WiresInOrder`); and where the checks of the parameters pass, outside the dev
networks, every proxy, owner and market has its step (`WiresAll`). It is an
`ASSUME` about definitions, not about constants: TLC evaluates it, for every
network of `truffle.js`, on each run. A new step in the scripts that broke it would
be found there.

From the order the theorems follow, wherever a run dies and whatever the runs
before it left. `MemorySound` divides the contracts into those the process has
gone through, which refer to each other, and those it has not, which are as
they were saved; so memory names one deployment whenever a script ends, though not
in between. A contract that is passed by because it has an address keeps its
references only if none of them has been deployed again: `StaysSaved`, that
without overwriting what has been saved stays. `Accomplished` says that the
step of each call before the present one has had its effect, on the margin the
process knows now; it stays because nothing is deployed later (`WiringLast`) and
the chain only grows (`Grown`: contracts keep what they refer to, operators and
markets stay, and what has left the deployer's hands does not return). After the
last script all of it is accomplished, and what is saved is what the process
knows; so what is published is whole. `ReadSound` says this of addresses a client
may read: no address, or a finished deployment in which every contract fits. It
holds for `published` and, off the dev networks, for the client's copy, which may be
of an earlier deployment: a later one leaves the contracts of the earlier one as they
were. A contract that is deployed on its own (`SingleFits`) refers to three of the
copy, and what these refer to is in the copy too. It is itself referred to by none
(`DeploysInOrder`), so the others go on fitting (`SingleRead`). The markets are in the order of `getTokens`
because a list that adds its tokens in order, each once, is a first part of it
(`PrefixGrows`), and one that has them all is all of it (`WholeList`); that a
token is not listed twice is the guard of `ownerAddMarket`.

Each inductive invariant was checked by TLC, on an instance of a run (that of
`Deployment` on all thirteen networks), before it was proved.

Model-checked only:

- `CloseOutFair`, `AccrualCovered` and `ExcessNotOverspent`, which bound rounding
  errors by a slack: each needs a chain of nonlinear bounds of its own, as those
  behind `LatePlansWork`, and none is stated here;
- `GuardReleased`, `EveryCallSettles` and `FreshRunsSucceed`: liveness is beyond
  the backends used here.

## Not modelled

- The setters of the risk parameters and their limits (`AdminImpl.sol`), except
  the caps, the closing flag and the maximum of held markets, which operations
  meet; the bitmap and the binary search of the cache.
- `ExpiryProxy`, which computes the amounts of a close-out from the balances it
  reads and calls `operate`: in `Expiry` any global operator calls with any
  amounts. `ExpiryTrader` models the same trades as `Expiry` from the side of
  the client's plans, for targets of zero, at the prices, balances and indexes the
  client read.
- The AMM pair, its factory and its routers: reserves, shares and the constant
  product are a component of their own behind `operate`, which only sees an auto
  trader.
- The liquidator, generic trader, borrow, deposit, transfer and payable proxies:
  they compute amounts and build lists of actions for `operate`, whose checks
  are modelled.
- The options of a standard action are an object of the caller's, which
  `StandardActions.ts` completes in place (`from`, `value`). A caller who passes the same object
  to a second call passes what the first one put there. In the model every
  call has options of its own, and `EtherCarried` is about callers who name
  no value.
- Price oracle and interest setters: pure functions of feeds and utilization;
  `Operation` takes their answers from any set.
- The client's readers and wrappers, each of which forwards a call; the contracts
  for tests, the vendored Uniswap V2, and the scripts that rewrite artifacts.

## Plan

1. Done: `Partials`, `MarginMath`, `Actions`, `Ledger`, `Operation`, their runs and proofs;
   the maximum number of held markets, with a third market.
2. Done: `MarketRegistry` and `Recycling`. Left: the limits of the risk parameters.
3. Done: `MultiSig` and `DelayedMultiSig`, with their proofs.
4. Done: `EnumerableSet` as the array and index it is, proved to implement a set.
5. Done: the signed operations from the client to the proxy, the client's calls,
   and the deployment, with their proofs.
6. Done: `Expiry` with its storage, set by a call in one operation and used by a
   trade in another. Left: the AMM pair with its shares and its router; the loop of
   `LiquidatorProxyV1` and the generic trader's paths, which build actions from
   balances they read before.
7. Done: captured values, sums, permissions, what is due, what a close-out
   leaves, the way of a signed operation from its signer to the proxy, the time
   lock, what the client's calls send and report, its plans for expired accounts,
   and what a deployment leaves.
   Left: bounds in closed form for the rounding errors.
