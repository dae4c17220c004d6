------------------------------ MODULE Networks ------------------------------
(***************************************************************************)
(* What the migration helpers know of each network of truffle.js. A helper *)
(* that returns an address for some networks and throws for the others is  *)
(* the set of networks on which it returns: which address it returns is    *)
(* not told apart, an address of a token or of a feed on a network is that *)
(* token or feed.                                                          *)
(***************************************************************************)
EXTENDS Sequences, SequencesExt

(* The networks of truffle.js, by the class their names put them in.       *)
Dev == {"test", "test_ci", "dev", "coverage", "coverage_replica", "docker"}
isArbitrumNetwork == {"arbitrum_one", "arbitrum_rinkeby", "arbitrum_goerli"}
isMaticNetwork == {"matic", "mumbai_matic"}
isProductionNetwork == {"mainnet", "matic", "arbitrum_one"}
AllNetworks == Dev \cup isArbitrumNetwork \cup isMaticNetwork \cup {"mainnet", "kovan"}

(* The networks package.json has a deploy script for (deploy_kovan to      *)
(* deploy_arbitrum_goerli, all of them "npm run deploy").                  *)
Deployable == AllNetworks \ Dev

-----------------------------------------------------------------------------
(* Who deploys, who owns, and the parameters of the constructors *)

getChainId == AllNetworks \ {"dev"}
getSenderAddress == AllNetworks
getDelayedMultisigAddress == isArbitrumNetwork \cup {"mainnet", "mumbai_matic"}
getGnosisSafeAddress == isArbitrumNetwork \cup {"mainnet", "mumbai_matic"}

(* Whose address getGnosisSafeAddress returns: test networks have no safe  *)
(* and use the delayed multisig for it.                                    *)
Safe(n) ==
  IF n \in {"mainnet", "arbitrum_one"} THEN "safe" ELSE "multisig"

(* The artifacts these read on network n: outside the production networks, *)
(* the test doubles that only a dev network deploys.                       *)
getParaswapAugustusRouter(n) ==
  IF n \in isProductionNetwork THEN {} ELSE {"TestParaswapAugustusRouter"}
getParaswapTransferProxy(n) ==
  IF n \in isProductionNetwork THEN {} ELSE {"TestParaswapTransferProxy"}
getUniswapV3MultiRouter(n) ==
  IF n \in Dev THEN {"TestUniswapV3MultiRouter"} ELSE {}

getRebalancerV1Routers ==
  {"arbitrum_one", "matic"} \cup (AllNetworks \ isProductionNetwork)
getRebalancerV1InitHashes ==
  {"arbitrum_one", "matic"} \cup (AllNetworks \ isProductionNetwork)

-----------------------------------------------------------------------------
(* Tokens *)

getDaiAddress == AllNetworks
getLinkAddress == AllNetworks
getUsdcAddress == AllNetworks
getWbtcAddress == AllNetworks
getWethAddress == AllNetworks
getLrcAddress == Dev \cup {"mainnet", "kovan", "mumbai_matic", "arbitrum_one"}
getMaticAddress == Dev \cup isMaticNetwork \cup {"mainnet", "kovan"}
getUsdtAddress == {"arbitrum_one"}

Addresses ==
  [DAI |-> getDaiAddress, LINK |-> getLinkAddress, USDC |-> getUsdcAddress,
   WBTC |-> getWbtcAddress, WETH |-> getWethAddress, LRC |-> getLrcAddress,
   MATIC |-> getMaticAddress, USDT |-> getUsdtAddress]

(* The token ether is wrapped in.                                          *)
getWrappedCurrencyAddress(n) == IF n \in isMaticNetwork THEN "MATIC" ELSE "WETH"

-----------------------------------------------------------------------------
(* Price feeds *)

getBtcUsdAggregatorAddress == Dev \cup isArbitrumNetwork \cup {"mainnet", "kovan"}
getDaiUsdAggregatorAddress == Dev \cup isArbitrumNetwork \cup isMaticNetwork
getEthUsdAggregatorAddress == AllNetworks
getLinkUsdAggregatorAddress ==
  Dev \cup isArbitrumNetwork \cup {"matic", "mainnet", "kovan"}
getLrcEthAggregatorAddress == Dev \cup {"mainnet", "kovan"}
getMaticUsdAggregatorAddress == isMaticNetwork
getUsdcUsdAggregatorAddress == isArbitrumNetwork \cup isMaticNetwork
getUsdtUsdAggregatorAddress == {"arbitrum_one"}
getUsdcEthAggregatorAddress == Dev \cup {"mainnet", "kovan"}

(* The feed the oracle is given for each token: on a dev network USDC is   *)
(* priced by the feed of USDC in ether.                                    *)
Feeds(n) ==
  [DAI |-> getDaiUsdAggregatorAddress, LINK |-> getLinkUsdAggregatorAddress,
   USDC |-> IF n \in Dev THEN getUsdcEthAggregatorAddress
            ELSE getUsdcUsdAggregatorAddress,
   WBTC |-> getBtcUsdAggregatorAddress, WETH |-> getEthUsdAggregatorAddress,
   LRC |-> getLrcEthAggregatorAddress, MATIC |-> getMaticUsdAggregatorAddress,
   USDT |-> getUsdtUsdAggregatorAddress]

MutantgetChainlinkPriceOracleV1Params(n) ==
  IF n \in isArbitrumNetwork THEN {"DAI", "LINK", "USDC", "WETH", "WBTC"}
  ELSE IF n \in Dev THEN {"DAI", "LINK", "LRC", "USDC", "WBTC", "WETH"}
  ELSE {}

(* The tokens the oracle is constructed with. The branch for Matic adds    *)
(* LINK by calling push on the record mapPairsToParams returns, which has  *)
(* none: it throws, as does every network without a branch.                *)
getChainlinkPriceOracleV1Params(n) ==
  IF n \in isArbitrumNetwork
  THEN {"DAI", "LINK", "USDC", "WETH", "WBTC"}
       \cup (IF n = "arbitrum_one" THEN {"USDT"} ELSE {})
  ELSE IF n \in Dev THEN {"DAI", "LINK", "LRC", "USDC", "WBTC", "WETH"}
  ELSE {}

OracleConfigured(n) ==
  /\ getChainlinkPriceOracleV1Params(n) # {}
  /\ \A t \in getChainlinkPriceOracleV1Params(n) :
        n \in Addresses[t] /\ n \in Feeds(n)[t]

-----------------------------------------------------------------------------
(* Markets *)

(* The tokens setup adds a market for, in order; empty where getTokens     *)
(* throws.                                                                 *)
getTokens(n) ==
  CASE n = "matic" -> <<"WETH", "DAI", "MATIC", "USDC", "LINK">>
    [] n = "mumbai_matic" -> <<"WETH", "DAI", "MATIC", "USDC">>
    [] n \in isArbitrumNetwork ->
         <<"WETH", "DAI", "USDC", "LINK", "WBTC">>
         \o (IF n = "arbitrum_one" THEN <<"USDT">> ELSE <<>>)
    [] OTHER -> <<>>

MarketsConfigured(n) ==
  /\ getTokens(n) # <<>>
  /\ \A t \in ToSet(getTokens(n)) : n \in Addresses[t]

(* The numbers by which the client's users name the markets.               *)
MarketId == [WETH |-> 0, DAI |-> 1, USDC |-> 2, LINK |-> 3, WBTC |-> 4, USDT |-> 5]

=============================================================================
