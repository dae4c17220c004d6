----------------------------- MODULE Deployment -----------------------------
(***************************************************************************)
(* The deployment of the protocol: "npm run deploy" runs the four          *)
(* migration scripts in one process, the addresses each contract artifact  *)
(* gets are saved when a script ends, and when the last has ended they are *)
(* copied to deployed.json. The client reads a copy of that file, which    *)
(* another command makes when it builds the client. Any transaction may be *)
(* lost, which ends the process, and the deployment is then run again from *)
(* the first script, with or without OVERWRITE_EXISTING_CONTRACTS.         *)
(***************************************************************************)
EXTENDS Integers, FiniteSets, Networks, Functions

CONSTANTS
  Networks,    \* the networks of the instance
  MaxRuns,     \* bound: runs of "npm run deploy"
  MaxSingles   \* bound: runs of the script that deploys one contract

ASSUME DeploymentAssumption ==
  /\ Networks \subseteq AllNetworks
  /\ MaxRuns \in Nat
  /\ MaxSingles \in Nat

VARIABLES
  network,    \* the network this deployment is for
  run,        \* the running process: the step it is at, its environment
  memory,     \* the addresses the process knows, by artifact
  book,       \* the addresses saved with the artifacts
  published,  \* the addresses of deployed.json
  built,      \* those the client was built with (build/published_contracts)
  chain,      \* the deployed contracts
  pending,    \* transactions sent and not waited for
  singles     \* how often one contract has been deployed on its own

vars == <<network, run, memory, book, published, built, chain, pending, singles>>

-----------------------------------------------------------------------------
(* The steps of the scripts, in the order they run *)

(* A contract is deployed with the addresses of others. "always" is a      *)
(* deploy without a test for an earlier address; "known" is FALSE where an *)
(* argument cannot be computed for the network. A check is such a          *)
(* computation that is done whatever is deployed.                          *)
Deploy(contract, refs) ==
  [do |-> "deploy", contract |-> contract, refs |-> refs, always |-> FALSE,
   known |-> TRUE]
Always(contract, refs) == [Deploy(contract, refs) EXCEPT !.always = TRUE]
DeployIf(known, contract, refs) ==
  [Deploy(contract, refs) EXCEPT !.known = known]

When(condition, steps) == IF condition THEN steps ELSE <<>>
Transact(do, contract) == [do |-> do, contract |-> contract]
Check(known) == [do |-> "check", known |-> known]
SaveArtifacts == [do |-> "save"]

TestNetwork(n) == n \in Dev \cup {"mumbai_matic", "arbitrum_rinkeby", "arbitrum_goerli"}

(* The contracts deployed for tests are one step where none refers to      *)
(* another.                                                                *)
TestContracts(n) == When(n \in Dev, <<Always("TestContracts", {}), Always("TestWETH", {})>>)

OperationParts ==
  <<"CallImpl", "DepositImpl", "LiquidateOrVaporizeImpl", "TradeImpl",
    "TransferImpl", "WithdrawalImpl">>

(* OperationImpl is linked to its parts, DolomiteMargin to AdminImpl and   *)
(* OperationImpl, before they are deployed.                                *)
BaseProtocol(n) ==
  [i \in 1..Len(OperationParts) |-> Deploy(OperationParts[i], {})]
  \o <<Deploy("AdminImpl", {}), Deploy("OperationImpl", ToSet(OperationParts))>>
  \o When(n \in Dev, <<Always("TestOperationImpl", {})>>)
  \o <<Deploy("DolomiteMargin", {"AdminImpl", "OperationImpl"}
                \cup (IF n \in Dev THEN {"TestOperationImpl"} ELSE {}))>>

MultiCall(n) ==
  <<Deploy(IF n \in isArbitrumNetwork THEN "ArbitrumMultiCall" ELSE "MultiCall", {})>>

InterestSetters(n) ==
  When(n \in Dev, <<Always("TestInterestSetter", {})>>)
  \o <<Deploy("DoubleExponentInterestSetter", {}),
       Deploy("AAVECopyCatAltCoinInterestSetter", {}),
       Deploy("AAVECopyCatStableCoinInterestSetter", {})>>

(* The oracle's parameters are computed even if the oracle is not          *)
(* redeployed.                                                             *)
PriceOracles(n) ==
  When(n \in Dev \cup {"kovan"}, <<Always("TestPriceOracle", {})>>)
  \o When(n \in Dev, <<Always("TestAggregators", {})>>)
  \o <<Check(OracleConfigured(n)), Deploy("ChainlinkPriceOracleV1", {})>>

Proxies(n) ==
  When(n \in Dev, <<Always("TestCallee", {"DolomiteMargin"}),
                    Always("UniswapV2Factory", {}),
                    Always("UniswapV2Router02", {"UniswapV2Factory", "TestWETH"})>>)
  \o <<Deploy("TransferProxy", {"DolomiteMargin"}),
       Deploy("BorrowPositionProxyV1", {"DolomiteMargin"}),
       Deploy("BorrowPositionProxyV2", {"DolomiteMargin"}),
       Deploy("DepositWithdrawalProxy", {"DolomiteMargin"})>>

Amm(n) ==
  <<DeployIf(n \in getSenderAddress, "DolomiteAmmFactory", {"DolomiteMargin", "TransferProxy"}),
    Deploy("SimpleFeeOwner", {"DolomiteAmmFactory", "DolomiteMargin"}),
    Deploy("Expiry", {"DolomiteMargin"}),
    Deploy("DolomiteAmmRouterProxy", {"DolomiteMargin", "DolomiteAmmFactory", "Expiry"})>>
  \o When(TestNetwork(n),
          <<Always("TestAmmRebalancerProxy", {"DolomiteMargin", "DolomiteAmmFactory"}),
            Always("TestUniswapAmmRebalancerProxy", {})>>)

Rebalancers(n) ==
  When(n \in Dev, <<Always("TestUniswapV3MultiRouter", {})>>)
  \o <<DeployIf(n \in getRebalancerV1Routers \cap getRebalancerV1InitHashes,
                "AmmRebalancerProxyV1",
                {"DolomiteMargin", "DolomiteAmmFactory"}
                \cup (IF n \in Dev THEN {"UniswapV2Router02"} ELSE {})),
       Deploy("AmmRebalancerProxyV2",
              {"DolomiteMargin", "DolomiteAmmFactory"} \cup getUniswapV3MultiRouter(n))>>

Traders(n) ==
  <<Deploy("MarginPositionRegistry", {"DolomiteMargin"}),
    Deploy("GenericTraderProxyV1", {"Expiry", "MarginPositionRegistry", "DolomiteMargin"}),
    DeployIf(n \in Addresses[getWrappedCurrencyAddress(n)], "PayableProxy",
             {"DolomiteMargin"} \cup (IF n \in Dev THEN {"TestWETH"} ELSE {}))>>

(* On a dev network the doubles of Paraswap are deployed with the second   *)
(* liquidator and again with the third.                                    *)
Paraswap(n) ==
  When(n \in Dev,
       <<Always("TestParaswapTransferProxy", {}),
         Always("TestParaswapAugustusRouter", {"TestParaswapTransferProxy"})>>)

ParaswapArtifacts(n) ==
  getParaswapAugustusRouter(n) \cup getParaswapTransferProxy(n)

Liquidators(n) ==
  <<Deploy("LiquidatorAssetRegistry", {"DolomiteMargin"}),
    Deploy("ExpiryProxy", {"LiquidatorAssetRegistry", "Expiry", "DolomiteMargin"}),
    Deploy("LiquidatorProxyV1", {"LiquidatorAssetRegistry", "DolomiteMargin"}),
    Deploy("LiquidatorProxyV1WithAmm",
           {"DolomiteMargin", "DolomiteAmmRouterProxy", "Expiry", "LiquidatorAssetRegistry"})>>
  \o Paraswap(n)
  \o When(n \in Dev,
          <<Always("TestParaswapTrader",
                   {"TestParaswapAugustusRouter", "TestParaswapTransferProxy",
                    "DolomiteMargin"})>>)
  \o <<Deploy("LiquidatorProxyV2WithExternalLiquidity",
              {"Expiry", "DolomiteMargin", "LiquidatorAssetRegistry"}
              \cup ParaswapArtifacts(n))>>
  \o Paraswap(n)
  \o <<Deploy("LiquidatorProxyV3WithLiquidityToken",
              {"Expiry", "DolomiteMargin", "LiquidatorAssetRegistry"}
              \cup ParaswapArtifacts(n)),
       Deploy("LiquidatorProxyV4WithGenericTrader",
              {"Expiry", "DolomiteMargin", "LiquidatorAssetRegistry"}),
       DeployIf(n \in getChainId, "SignedOperationProxy", {"DolomiteMargin"})>>

GlobalOperators ==
  <<"BorrowPositionProxyV1", "BorrowPositionProxyV2", "Expiry", "ExpiryProxy",
    "DepositWithdrawalProxy", "DolomiteAmmFactory", "DolomiteAmmRouterProxy",
    "GenericTraderProxyV1", "LiquidatorProxyV1", "LiquidatorProxyV1WithAmm",
    "LiquidatorProxyV2WithExternalLiquidity", "LiquidatorProxyV3WithLiquidityToken",
    "LiquidatorProxyV4WithGenericTrader", "PayableProxy", "SignedOperationProxy",
    "TransferProxy">>

(* The transactions of a Promise.all are sent by one account and mined in  *)
(* the order of their nonces: any prefix of them may have landed.          *)
SetOperators ==
  [i \in 1..Len(GlobalOperators) |-> Transact("operator", GlobalOperators[i])]

SecondLayer(n) ==
  Proxies(n) \o Amm(n) \o Rebalancers(n) \o Traders(n) \o Liquidators(n)
  \o SetOperators

Market(token) == [do |-> "market", contract |-> "DolomiteMargin", token |-> token]
AddMarkets(n) == [i \in 1..Len(getTokens(n)) |-> Market(getTokens(n)[i])]

(* getTokens throws where no tokens are listed; a test network has no      *)
(* markets.                                                                *)
Setup(n) ==
  <<Transact("special", "Expiry")>>
  \o When(n \notin Dev \ {"docker"},
          <<Check(MarketsConfigured(n))>> \o AddMarkets(n)
          \o <<Transact("initialize", "DepositWithdrawalProxy")>>)

OwnedByMultisig ==
  <<"DolomiteMargin", "Expiry", "SignedOperationProxy", "SimpleFeeOwner",
    "ChainlinkPriceOracleV1", "DolomiteAmmFactory">>

Transfer(contract, owner) == [do |-> "own", contract |-> contract, owner |-> owner]
Ownership(n) ==
  When(n \notin Dev,
       <<Check(n \in getDelayedMultisigAddress)>>
       \o [i \in 1..Len(OwnedByMultisig) |-> Transfer(OwnedByMultisig[i], "multisig")]
       \o <<Check(n \in getGnosisSafeAddress),
            Transfer("AmmRebalancerProxyV1", Safe(n))>>)

MigrationsScript == <<Deploy("Migrations", {})>>
DeployScript(n) ==
  TestContracts(n) \o BaseProtocol(n) \o MultiCall(n) \o InterestSetters(n)
  \o PriceOracles(n) \o SecondLayer(n)

Plan(n) ==
  MigrationsScript \o <<SaveArtifacts>> \o DeployScript(n) \o <<SaveArtifacts>>
  \o Setup(n) \o <<SaveArtifacts>> \o Ownership(n) \o <<SaveArtifacts>>

-----------------------------------------------------------------------------
(* The state *)

Scripts == [n \in Networks |-> Plan(n)]
Steps(n) == ToSet(Scripts[n])
Names(n) ==
  UNION {{s.contract} \cup s.refs : s \in {t \in Steps(n) : t.do = "deploy"}}
Contracts == UNION {Names(n) : n \in Networks}

(* Instance k of a contract is the k-th that was deployed; address 0 is    *)
(* none.                                                                   *)
NoAddress == 0
NoAddresses == [c \in Contracts |-> NoAddress]
Idle == [at |-> 0, count |-> 0, overwrite |-> FALSE, fresh |-> FALSE, failure |-> "none"]

(* The contract that DeployContract.ts deploys.                            *)
SingleContract == "GenericTraderProxyV1"

(* The networks with the numbers 1001 and 1002 in truffle.js.              *)
TestNetworkIds == {"test", "test_ci", "coverage", "coverage_replica"}

Owned == ToSet(OwnedByMultisig) \cup {"AmmRebalancerProxyV1"}
OwnerFor(c, n) == IF c = "AmmRebalancerProxyV1" THEN Safe(n) ELSE "multisig"

Init ==
  /\ network \in Networks
  /\ run = Idle
  /\ memory = NoAddresses /\ book = NoAddresses
  /\ published = NoAddresses /\ built = NoAddresses
  /\ chain = [made |-> NoAddresses, refs |-> <<>>, owner |-> <<>>,
              operators |-> <<>>, special |-> <<>>, markets |-> <<>>, ready |-> {}]
  /\ pending = {}
  /\ singles = 0

-----------------------------------------------------------------------------
(* What the transactions do *)

With(f, x, value) == [y \in DOMAIN f \cup {x} |-> IF y = x THEN value ELSE f[y]]

(* The chain after contract c is constructed with the addresses of refs.   *)
WithContract(ch, c, refs, addresses) ==
  LET k == ch.made[c] + 1
  IN [ch EXCEPT
        !.made[c] = k,
        !.refs = With(@, <<c, k>>, Restrict(addresses, refs)),
        !.owner = With(@, <<c, k>>, "deployer"),
        !.operators = IF c = "DolomiteMargin" THEN Append(@, {}) ELSE @,
        !.special = IF c = "DolomiteMargin" THEN Append(@, {}) ELSE @,
        !.markets = IF c = "DolomiteMargin" THEN Append(@, <<>>) ELSE @]

CurrentMargin == memory["DolomiteMargin"]
Instance(c) == <<c, memory[c]>>

(* Mutant: a token may be listed again.                                    *)
MutantReverts(s) ==
  \/ /\ s.do \in {"operator", "special", "market"}
     /\ chain.owner[<<"DolomiteMargin", CurrentMargin>>] # "deployer"
  \/ /\ s.do = "market"
     /\ s.token \notin getChainlinkPriceOracleV1Params(network)
  \/ /\ s.do = "own"
     /\ chain.owner[Instance(s.contract)] # "deployer"

(* A transaction of step s reverts: the contract it is sent to has another *)
(* owner, or the market cannot be added.                                   *)
Reverts(s) ==
  \/ /\ s.do \in {"operator", "special", "market"}
     /\ chain.owner[<<"DolomiteMargin", CurrentMargin>>] # "deployer"
  \/ /\ s.do = "market"
     /\ \/ s.token \in ToSet(chain.markets[CurrentMargin])
        \/ s.token \notin getChainlinkPriceOracleV1Params(network)
  \/ /\ s.do = "own"
     /\ chain.owner[Instance(s.contract)] # "deployer"

(* The chain after the transaction of step s.                              *)
Landed(s) ==
  CASE s.do = "deploy" -> WithContract(chain, s.contract, s.refs, memory)
    [] s.do = "operator" ->
         [chain EXCEPT !.operators[CurrentMargin] = @ \cup {Instance(s.contract)}]
    [] s.do = "special" ->
         [chain EXCEPT !.special[CurrentMargin] = @ \cup {Instance(s.contract)}]
    [] s.do = "market" ->
         [chain EXCEPT !.markets[CurrentMargin] = Append(@, s.token)]
    [] s.do = "own" -> [chain EXCEPT !.owner[Instance(s.contract)] = s.owner]

-----------------------------------------------------------------------------
(* The process *)

Running == run.at # 0
Step == Scripts[network][run.at]
AtStep(kind) == Running /\ run.at <= Len(Scripts[network]) /\ Step.do \in kind

Transactions == {"deploy", "operator", "special", "market", "own"}

(* A contract is deployed when OVERWRITE_EXISTING_CONTRACTS is set, on a   *)
(* dev network, and when it has no address.                                *)
ShouldOverwrite(s) ==
  \/ s.always
  \/ run.overwrite
  \/ network \in Dev
  \/ memory[s.contract] = NoAddress

Skips(s) == s.do = "deploy" /\ ~ShouldOverwrite(s)

(* The step throws before it sends anything: an argument or an address it  *)
(* needs is not there.                                                     *)
Throws(s) ==
  \/ s.do = "check" /\ ~s.known
  \/ /\ s.do = "deploy" /\ ShouldOverwrite(s)
     /\ ~s.known \/ \E d \in s.refs : memory[d] = NoAddress

Advance == run' = [run EXCEPT !.at = @ + 1]

(* The process ends; what it knew and did not save is gone.                *)
Abort(why) ==
  /\ run' = [run EXCEPT !.at = 0, !.failure = why]
  /\ memory' = book

Start(overwrite) ==
  /\ ~Running /\ run.count < MaxRuns
  /\ run' = [at |-> 1, count |-> run.count + 1, overwrite |-> overwrite,
             fresh |-> \/ overwrite \/ network \in Dev
                       \/ book["DolomiteMargin"] = NoAddress,
             failure |-> "none"]
  /\ memory' = book
  /\ UNCHANGED <<network, book, published, built, chain, pending, singles>>

(* A transaction of the script lands and the script goes on.               *)
Land ==
  /\ AtStep(Transactions)
  /\ ~Skips(Step) /\ ~Throws(Step) /\ ~Reverts(Step)
  /\ chain' = Landed(Step)
  /\ memory' = IF Step.do = "deploy"
               THEN [memory EXCEPT ![Step.contract] = chain'.made[Step.contract]]
               ELSE memory
  /\ Advance
  /\ UNCHANGED <<network, book, published, built, pending, singles>>

(* A contract that has an address is left as it is, a check is passed.     *)
Pass ==
  /\ AtStep({"deploy", "check"})
  /\ Skips(Step) \/ (Step.do = "check" /\ Step.known)
  /\ Advance
  /\ UNCHANGED <<network, memory, book, published, built, chain, pending, singles>>

Throw ==
  /\ AtStep({"deploy", "check"})
  /\ Throws(Step)
  /\ Abort("config")
  /\ UNCHANGED <<network, book, published, built, chain, pending, singles>>

Revert ==
  /\ AtStep(Transactions)
  /\ ~Skips(Step) /\ ~Throws(Step) /\ Reverts(Step)
  /\ Abort("revert")
  /\ UNCHANGED <<network, book, published, built, chain, pending, singles>>

MutantLose(landed) ==
  /\ AtStep(Transactions)
  /\ ~Skips(Step) /\ ~Throws(Step) /\ ~Reverts(Step)
  /\ run' = [run EXCEPT !.at = 0, !.failure = "lost"]
  /\ memory' = memory
  /\ book' = memory
  /\ chain' = IF landed THEN Landed(Step) ELSE chain
  /\ UNCHANGED <<network, published, built, pending, singles>>

(* A transaction is lost, or lands after the process has given it up.      *)
Lose(landed) ==
  /\ AtStep(Transactions)
  /\ ~Skips(Step) /\ ~Throws(Step) /\ ~Reverts(Step)
  /\ Abort("lost")
  /\ chain' = IF landed THEN Landed(Step) ELSE chain
  /\ UNCHANGED <<network, book, published, built, pending, singles>>

(* The call of initializeETHMarket is not awaited.                         *)
SendInitialize ==
  /\ AtStep({"initialize"})
  /\ pending' = pending \cup {Instance("DepositWithdrawalProxy")}
  /\ Advance
  /\ UNCHANGED <<network, memory, book, published, built, chain, singles>>

(* The margin a contract was constructed with, and whether it has a market *)
(* for the wrapped currency.                                               *)
MarginOf(instance) == chain.refs[instance]["DolomiteMargin"]
HasWrapped(instance) ==
  getWrappedCurrencyAddress(network) \in ToSet(chain.markets[MarginOf(instance)])

(* The transaction lands, and reverts if the proxy is initialised already  *)
(* or there is no such market; or it is lost, and nobody notices.          *)
Initialize(proxy, lost) ==
  /\ proxy \in pending
  /\ pending' = pending \ {proxy}
  /\ chain' = IF ~lost /\ HasWrapped(proxy)
              THEN [chain EXCEPT !.ready = @ \cup {proxy}] ELSE chain
  /\ UNCHANGED <<network, run, memory, book, published, built, singles>>

(* When a script ends the addresses of the artifacts are saved.            *)
Save ==
  /\ AtStep({"save"})
  /\ book' = memory
  /\ Advance
  /\ UNCHANGED <<network, memory, published, built, chain, pending, singles>>

(* After the last script save_deployed_addresses adds the addresses of the *)
(* artifacts to deployed.json, for the networks that are not dev networks. *)
Publish ==
  /\ Running /\ run.at > Len(Scripts[network])
  /\ run' = [run EXCEPT !.at = 0]
  /\ published' = [c \in Contracts |->
                     IF network \notin Dev /\ book[c] # NoAddress
                     THEN book[c] ELSE published[c]]
  /\ UNCHANGED <<network, memory, book, built, chain, pending, singles>>

(* The client is built: clean_contract_json copies deployed.json, and for  *)
(* the networks of the tests the addresses of the artifacts. No deployment *)
(* does this; it is a command of its own, or part of "npm run build".      *)
Build ==
  /\ ~Running
  /\ built' = [c \in Contracts |->
                 IF network \in TestNetworkIds /\ book[c] # NoAddress
                 THEN book[c] ELSE published[c]]
  /\ UNCHANGED <<network, run, memory, book, published, chain, pending, singles>>

(* The script for one contract: it deploys GenericTraderProxyV1 with the   *)
(* addresses the client was built with, and records it in deployed.json    *)
(* after it has been verified. It needs a provider, which no dev network   *)
(* has in truffle.js.                                                      *)
DeployOne(verified) ==
  /\ ~Running /\ singles < MaxSingles
  /\ network \notin Dev
  /\ LET refs == {"Expiry", "MarginPositionRegistry", "DolomiteMargin"}
     IN /\ \A d \in refs : built[d] # NoAddress
        /\ chain' = WithContract(chain, SingleContract, refs, built)
        /\ published' = IF verified
                        THEN [published EXCEPT ![SingleContract] = chain'.made[SingleContract]]
                        ELSE published
  /\ singles' = singles + 1
  /\ UNCHANGED <<network, run, memory, book, built, pending>>

Next ==
  \/ \E overwrite \in BOOLEAN : Start(overwrite)
  \/ Land
  \/ Pass
  \/ Throw
  \/ Revert
  \/ \E landed \in BOOLEAN : Lose(landed)
  \/ SendInitialize
  \/ \E proxy \in pending, lost \in BOOLEAN : Initialize(proxy, lost)
  \/ Save
  \/ Publish
  \/ Build
  \/ \E verified \in BOOLEAN : DeployOne(verified)

(* A process that runs goes on: truffle waits for no one but the chain.    *)
Process == Land \/ Pass \/ Throw \/ Revert \/ SendInitialize \/ Save \/ Publish

Spec == Init /\ [][Next]_vars
FairSpec == Spec /\ WF_vars(Process)

-----------------------------------------------------------------------------
(* Properties *)

(* The contracts a set of addresses names refer to each other: what each   *)
(* was constructed with or linked to is what the addresses say it is. The  *)
(* doubles of Paraswap are replaced after they have been used, on dev      *)
(* networks only.                                                          *)
Doubles == ParaswapArtifacts("test")
References(c, addresses) == chain.refs[<<c, addresses[c]>>]
Agrees(c, addresses) ==
  \A d \in DOMAIN References(c, addresses) \ Doubles :
    References(c, addresses)[d] = addresses[d]
Consistent(addresses) ==
  \A c \in Contracts : addresses[c] # NoAddress => Agrees(c, addresses)

(* What contract c refers to is of one deployment: the contracts it was    *)
(* constructed with refer to one another where they refer to the same.     *)
OfOneDeployment(c, addresses) ==
  LET refs == References(c, addresses)
  IN  \A d \in DOMAIN refs : \A e \in DOMAIN refs \cap DOMAIN References(d, refs) :
        References(d, refs)[e] = refs[e]

(* However runs were cut short and repeated, with or without overwriting,  *)
(* the addresses saved with the artifacts name one deployment, never       *)
(* contracts of two, and so do those of deployed.json, but for the         *)
(* contract that may be deployed on its own. That one, when the client was *)
(* built before the last deployment, stays with the deployment the client  *)
(* knew, beside the new one; but wholly: it never refers to contracts of   *)
(* two (2_deploy.js, DeployContract.ts, SaveDeployedAddresses.ts,          *)
(* CleanBuild.ts).                                                         *)
OneDeployment ==
  /\ Consistent(book)
  /\ \A c \in Contracts : published[c] # NoAddress =>
       \/ Agrees(c, published)
       \/ c = SingleContract /\ singles > 0 /\ OfOneDeployment(c, published)

IsWired(addresses, g) ==
  /\ \A c \in ToSet(GlobalOperators) :
       \/ <<c, addresses[c]>> \in chain.operators[g]
       \/ c = SingleContract /\ singles > 0
  /\ <<"Expiry", addresses["Expiry"]>> \in chain.special[g]
  /\ \A c \in Owned : chain.owner[<<c, addresses[c]>>] = OwnerFor(c, network)

HasItsMarkets(g) ==
  /\ ToSet(chain.markets[g]) = ToSet(getTokens(network))
  /\ \A i \in DOMAIN chain.markets[g] : MarketId[chain.markets[g][i]] = i - 1

IsComplete(addresses) ==
  LET g == addresses["DolomiteMargin"]
  IN  g # NoAddress => IsWired(addresses, g) /\ HasItsMarkets(g)

InitializeIsInOrder == \A proxy \in pending : HasWrapped(proxy)

(* Neither deployed.json nor a client built from it names a deployment     *)
(* that is not finished: every proxy that needs it is a global operator of *)
(* the margin, Expiry is a special auto trader, the seven contracts that   *)
(* 4_ownership.js hands over have their new owners, and the margin has all *)
(* its markets, with the numbers by which the client's constants name them *)
(* (2_deploy.js:626, 3_setup.js:76, 4_ownership.js:67, types.ts:45). A     *)
(* client keeps the deployment it was built with, so this must outlast     *)
(* every later run. On a dev network, where the client takes the artifacts *)
(* as they are, nothing is promised. The single contract a later script    *)
(* replaces is the exception: only the owner of the margin can approve it. *)
(* Nor is the call nobody waits for sent too early: when it is, the margin *)
(* has the market it looks up, so it can only be lost (3_setup.js:87).     *)
PublishedIsComplete ==
  /\ IsComplete(published)
  /\ network \notin Dev => IsComplete(built)
  /\ InitializeIsInOrder

(* A deployment from nothing, or one that overwrites everything, is never  *)
(* refused by the chain: no earlier attempt, cut short anywhere, makes a   *)
(* later one revert. It ends, and if no transaction is lost and the        *)
(* network is configured, it ends without a failure.                       *)
FreshRunsSucceed ==
  (Running /\ run.fresh) ~> (~Running /\ run.failure # "revert")
=============================================================================
