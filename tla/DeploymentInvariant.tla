-------------------------- MODULE DeploymentInvariant --------------------------
(***************************************************************************)
(* What the order of the steps in the scripts gives, and the inductive     *)
(* invariant of Deployment that rests on it.                               *)
(***************************************************************************)
EXTENDS Deployment

-----------------------------------------------------------------------------
(* The order of the steps *)

DeploysIn(script) == {i \in DOMAIN script : script[i].do = "deploy"}

(* The contracts that have been gone through before step i.                *)
Placed(script, i) == {script[j].contract : j \in {k \in DeploysIn(script) : k < i}}

(* A contract is deployed after those it refers to, and once, the doubles  *)
(* on a dev network excepted (on other test networks they are referred to  *)
(* and never deployed); what is always deployed again elsewhere is         *)
(* referred to by none; and the single contract a later script deploys has *)
(* the same references there.                                              *)
DeploysInOrder(n, script) ==
  /\ \A i \in DeploysIn(script) :
       LET s == script[i]
       IN  /\ s.refs \ Doubles \subseteq Placed(script, i)
           /\ s.contract \in Placed(script, i) => n \in Dev /\ s.contract \in Doubles
           /\ \A j \in DeploysIn(script) :
                /\ script[j].contract = s.contract => script[j].refs = s.refs
                /\ s.always /\ n \notin Dev => s.contract \notin script[j].refs
                /\ s.contract = SingleContract => s.contract \notin script[j].refs
  /\ \E i \in DeploysIn(script) : script[i].contract = "DolomiteMargin"
  /\ \E i \in DeploysIn(script) :
       /\ script[i].contract = SingleContract
       /\ script[i].refs = {"Expiry", "MarginPositionRegistry", "DolomiteMargin"}

(* Where a script ends no contract that is still to be deployed refers to  *)
(* one that has been; the last step of all is such an end.                 *)
SavesInOrder(script) ==
  /\ \A i \in DOMAIN script : script[i].do = "save" =>
       \A j \in DeploysIn(script) :
         j > i => script[j].refs \cap Placed(script, i) = {}
  /\ Len(script) \in DOMAIN script /\ script[Len(script)].do = "save"

(* Everything is deployed before the contracts are told of each other; the *)
(* markets are added in the order of getTokens, and are there when the     *)
(* call that needs them is sent.                                           *)
WiresInOrder(n, script) ==
  \A i \in DOMAIN script :
    LET s == script[i]
    IN  /\ s.do \in {"operator", "special", "market", "own", "initialize"} =>
             \A j \in DeploysIn(script) : j < i
        /\ s.do \in {"operator", "special", "own"} => s.contract \in Placed(script, i)
        /\ s.do = "own" => s.owner \in {"multisig", "safe"}
        /\ s.do = "market" =>
             \E k \in DOMAIN getTokens(n) :
               /\ s.token = getTokens(n)[k]
               /\ \A l \in 1..(k - 1) : \E j \in 1..(i - 1) :
                    script[j].do = "market" /\ script[j].token = getTokens(n)[l]
        /\ s.do = "initialize" =>
             /\ \E j \in DeploysIn(script) :
                  /\ script[j].contract = "DepositWithdrawalProxy"
                  /\ "DolomiteMargin" \in script[j].refs
             /\ \E j \in 1..(i - 1) :
                  \/ script[j].do = "check" /\ ~script[j].known
                  \/ /\ script[j].do = "market"
                     /\ script[j].token = getWrappedCurrencyAddress(n)

Wires(script, kind, contract) ==
  \E i \in DOMAIN script : script[i].do = kind /\ script[i].contract = contract

(* A plan whose checks pass, outside the dev networks, leaves nothing out, *)
(* and its markets get the numbers by which the client names them.         *)
WiresAll(n, script) ==
  n \notin Dev /\ (\A i \in DOMAIN script : script[i].do = "check" => script[i].known) =>
    /\ \A c \in ToSet(GlobalOperators) : Wires(script, "operator", c)
    /\ Wires(script, "special", "Expiry")
    /\ \A c \in Owned : \E i \in DOMAIN script :
         /\ script[i].do = "own" /\ script[i].contract = c
         /\ script[i].owner = OwnerFor(c, n)
    /\ \A k \in DOMAIN getTokens(n) :
         /\ MarketId[getTokens(n)[k]] = k - 1
         /\ \E i \in DOMAIN script :
              script[i].do = "market" /\ script[i].token = getTokens(n)[k]

InOrder(n, script) ==
  /\ Len(script) \in Nat /\ DOMAIN script = 1..Len(script)
  /\ \A i \in DOMAIN script :
       script[i].do \in Transactions \cup {"check", "save", "initialize"}
  /\ DeploysInOrder(n, script)
  /\ SavesInOrder(script)
  /\ WiresInOrder(n, script)
  /\ WiresAll(n, script)

TokensInOrder(n) ==
  /\ getTokens(n) \in Seq(STRING)
  /\ \A i, j \in DOMAIN getTokens(n) : getTokens(n)[i] = getTokens(n)[j] => i = j

(* The plan of every network of truffle.js is in order.                    *)
ASSUME PlanAssumption ==
  \A n \in AllNetworks : InOrder(n, Plan(n)) /\ TokensInOrder(n)

-----------------------------------------------------------------------------
(* The invariant *)

Script == Scripts[network]

(* The markets of a margin are the first tokens of getTokens.              *)
FirstTokens ==
  {SubSeq(getTokens(network), 1, k) : k \in 0..Len(getTokens(network))}

Margins == 1..chain.made["DolomiteMargin"]
Made == UNION {{c} \X (1..chain.made[c]) : c \in Contracts}

(* Each contract on the chain comes from a step that deploys it, with the  *)
(* addresses of the contracts this step refers to.                         *)
ChainSound ==
  /\ chain = [made |-> chain.made, refs |-> chain.refs, owner |-> chain.owner,
              operators |-> chain.operators, special |-> chain.special,
              markets |-> chain.markets, ready |-> chain.ready]
  /\ chain.made \in [Contracts -> Nat]
  /\ DOMAIN chain.refs = Made /\ chain.owner \in [Made -> {"deployer", "multisig", "safe"}]
  /\ chain.operators \in Seq(SUBSET (Contracts \X Nat)) /\ DOMAIN chain.operators = Margins
  /\ chain.special \in Seq(SUBSET (Contracts \X Nat)) /\ DOMAIN chain.special = Margins
  /\ chain.markets \in Seq(FirstTokens) /\ DOMAIN chain.markets = Margins
  /\ \A x \in Made : \E i \in DeploysIn(Script) :
       /\ Script[i].contract = x[1]
       /\ chain.refs[x] \in [Script[i].refs -> Nat \ {NoAddress}]

Addressed(addresses) ==
  /\ addresses \in [Contracts -> Nat]
  /\ \A c \in Contracts : addresses[c] <= chain.made[c]

(* What a process at a step has done: the contracts it has gone through    *)
(* refer to each other, those it has not are as they were saved.           *)
MemorySound ==
  /\ Addressed(memory)
  /\ \A c \in Contracts : memory[c] # NoAddress =>
       LET refs == chain.refs[<<c, memory[c]>>]
       IN  \A d \in DOMAIN refs \ Doubles :
             refs[d] = IF c \in Placed(Script, run.at) THEN memory[d] ELSE book[d]
  /\ \A c \in Contracts :
       IF c \in Placed(Script, run.at) THEN memory[c] # NoAddress
                                       ELSE memory[c] = book[c]
  /\ run.at > Len(Script) => memory = book

(* Without overwriting, what has been saved stays.                         *)
StaysSaved ==
  ~run.overwrite /\ network \notin Dev =>
    \A c \in Contracts :
      book[c] # NoAddress /\ (\A i \in DeploysIn(Script) :
                                 Script[i].contract = c => ~Script[i].always) =>
        memory[c] = book[c]

(* What step s is for is done.                                             *)
Accomplished(s) ==
  /\ s.do = "check" => s.known
  /\ s.do = "operator" => Instance(s.contract) \in chain.operators[CurrentMargin]
  /\ s.do = "special" => Instance(s.contract) \in chain.special[CurrentMargin]
  /\ s.do = "market" => s.token \in ToSet(chain.markets[CurrentMargin])
  /\ s.do = "own" => chain.owner[Instance(s.contract)] = s.owner

RunSound ==
  /\ run = [at |-> run.at, count |-> run.count, overwrite |-> run.overwrite,
            fresh |-> run.fresh, failure |-> run.failure]
  /\ run.at \in 0..(Len(Script) + 1) /\ run.overwrite \in BOOLEAN
  /\ Running =>
       /\ MemorySound /\ StaysSaved
       /\ \A i \in 1..(run.at - 1) : Accomplished(Script[i])

(* A contract that fits among the addresses refers to the others; the one  *)
(* that was deployed on its own, at least to contracts of one deployment.  *)
Fits(c, addresses) ==
  \/ Agrees(c, addresses)
  \/ /\ c = SingleContract /\ singles > 0
     /\ \A d \in DOMAIN References(c, addresses) :
          <<d, References(c, addresses)[d]>> \in Made
     /\ OfOneDeployment(c, addresses)

(* The addresses are of a finished deployment.                             *)
Finished(addresses) ==
  /\ network \notin Dev
  /\ \A i \in DeploysIn(Script) :
       /\ addresses[Script[i].contract] # NoAddress
       /\ book[Script[i].contract] # NoAddress
  /\ \A i \in DOMAIN Script : Script[i].do = "check" => Script[i].known
  /\ IsWired(addresses, addresses["DolomiteMargin"])
  /\ chain.markets[addresses["DolomiteMargin"]] = getTokens(network)

(* Addresses for the client to read: none, or a finished deployment.       *)
ReadSound(addresses) ==
  /\ Addressed(addresses)
  /\ \A c \in Contracts : addresses[c] # NoAddress => Fits(c, addresses)
  /\ (\E c \in Contracts : addresses[c] # NoAddress) => Finished(addresses)

(* Off the dev networks a client is built of what has been published.      *)
PublishedSound ==
  /\ ReadSound(published)
  /\ network \notin Dev =>
       /\ ReadSound(built)
       /\ \A c \in Contracts : built[c] # NoAddress => published[c] # NoAddress

PendingSound ==
  \A proxy \in pending :
    /\ proxy \in Made
    /\ "DolomiteMargin" \in DOMAIN chain.refs[proxy]
    /\ MarginOf(proxy) \in Margins
    /\ HasWrapped(proxy)

Sound ==
  /\ network \in Networks /\ singles \in Nat
  /\ ChainSound
  /\ RunSound
  /\ Addressed(book) /\ Consistent(book)
  /\ PublishedSound
  /\ PendingSound
=============================================================================
