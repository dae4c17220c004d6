--------------------------- MODULE DeploymentProofs ---------------------------
(***************************************************************************)
(* Proofs about the deployment: Sound (DeploymentInvariant) holds in every *)
(* state, however often the scripts are cut short and run again; so what   *)
(* is saved and what is published name one deployment, and what is         *)
(* published is finished.                                                  *)
(***************************************************************************)
EXTENDS DeploymentInvariant, TLAPS

-----------------------------------------------------------------------------
(* The script of a network is in order, and what it deploys and refers to  *)
(* are contracts.                                                          *)
LEMMA ScriptInOrder ==
  ASSUME network \in Networks
  PROVE  /\ InOrder(network, Script) /\ TokensInOrder(network)
         /\ Len(Script) \in Nat /\ DOMAIN Script = 1..Len(Script)
<1>1. Script = Plan(network) /\ network \in AllNetworks
  BY DeploymentAssumption DEF Script, Scripts
<1> QED
  BY <1>1, PlanAssumption DEF InOrder

LEMMA ScriptContracts ==
  ASSUME network \in Networks, NEW i \in DeploysIn(Script)
  PROVE  Script[i].contract \in Contracts /\ Script[i].refs \subseteq Contracts
<1>1. Script[i] \in Steps(network) /\ Script[i].do = "deploy"
  BY DEF DeploysIn, Steps, Script, ToSet
<1>2. {Script[i].contract} \cup Script[i].refs \subseteq Names(network)
  BY <1>1 DEF Names
<1> QED
  BY <1>2 DEF Contracts

LEMMA KnownContracts ==
  ASSUME network \in Networks
  PROVE  {"DolomiteMargin", SingleContract, "Expiry", "MarginPositionRegistry"}
           \subseteq Contracts
<1>1. DeploysInOrder(network, Script)
  BY ScriptInOrder DEF InOrder
<1>2. PICK i \in DeploysIn(Script) : Script[i].contract = SingleContract
          /\ Script[i].refs = {"Expiry", "MarginPositionRegistry", "DolomiteMargin"}
  BY <1>1 DEF DeploysInOrder
<1> QED
  BY <1>2, ScriptContracts

(* What has been gone through when a step is done.                         *)
LEMMA PlacedNext ==
  ASSUME network \in Networks, NEW i \in DOMAIN Script
  PROVE  /\ Script[i].do = "deploy" =>
              Placed(Script, i + 1) = Placed(Script, i) \cup {Script[i].contract}
         /\ Script[i].do # "deploy" => Placed(Script, i + 1) = Placed(Script, i)
<1>1. DeploysIn(Script) \subseteq Nat /\ i \in Nat
  BY ScriptInOrder DEF DeploysIn
<1>2. {k \in DeploysIn(Script) : k < i + 1}
        = {k \in DeploysIn(Script) : k < i} \cup ({i} \cap DeploysIn(Script))
  BY <1>1
<1>3. CASE Script[i].do = "deploy"
  <2>1. {k \in DeploysIn(Script) : k < i + 1} = {k \in DeploysIn(Script) : k < i} \cup {i}
    BY <1>2, <1>3 DEF DeploysIn
  <2> QED
    BY <1>3, <2>1 DEF Placed
<1>4. CASE Script[i].do # "deploy"
  <2>1. {k \in DeploysIn(Script) : k < i + 1} = {k \in DeploysIn(Script) : k < i}
    BY <1>2, <1>4 DEF DeploysIn
  <2> QED
    BY <1>4, <2>1 DEF Placed
<1> QED
  BY <1>3, <1>4

LEMMA PlacedIs ==
  ASSUME network \in Networks, NEW c, NEW i
  PROVE  /\ c \in Placed(Script, i) <=>
              \E j \in DeploysIn(Script) : j < i /\ Script[j].contract = c
         /\ c \in Placed(Script, i) => c \in Contracts
<1>1. c \in Placed(Script, i) <=>
        \E j \in DeploysIn(Script) : j < i /\ Script[j].contract = c
  BY DEF Placed
<1> QED
  BY <1>1, ScriptContracts

LEMMA NothingPlaced ==
  ASSUME network \in Networks
  PROVE  Placed(Script, 1) = {}
BY ScriptInOrder DEF Placed, DeploysIn

LEMMA MadeIs ==
  ASSUME chain.made \in [Contracts -> Nat]
  PROVE  /\ \A c \in Contracts, k \in Nat : <<c, k>> \in Made <=> k \in 1..chain.made[c]
         /\ \A x \in Made : /\ x = <<x[1], x[2]>> /\ x[1] \in Contracts
                            /\ x[2] \in 1..chain.made[x[1]]
BY DEF Made

-----------------------------------------------------------------------------
(* What no step undoes: contracts and what they refer to stay, operators   *)
(* and markets are added, and only what the deployer owns changes hands.   *)
Grown ==
  /\ network' = network
  /\ \A c \in Contracts : chain.made[c] <= chain'.made[c]
  /\ \A x \in Made : /\ x \in Made' /\ chain'.refs[x] = chain.refs[x]
                     /\ chain.owner[x] # "deployer" => chain'.owner[x] = chain.owner[x]
  /\ \A m \in Margins :
       /\ m \in Margins'
       /\ chain.operators[m] \subseteq chain'.operators[m]
       /\ chain.special[m] \subseteq chain'.special[m]
       /\ ToSet(chain.markets[m]) \subseteq ToSet(chain'.markets[m])
       /\ chain.markets[m] = getTokens(network) => chain'.markets[m] = getTokens(network)

LEMMA SameGrown ==
  ASSUME UNCHANGED <<network, chain>>, ChainSound
  PROVE  Grown /\ ChainSound'
<1>1. Made' = Made /\ Margins' = Margins /\ Script' = Script /\ FirstTokens' = FirstTokens
  BY DEF Made, Margins, Script, FirstTokens
<1>2. ChainSound'
  BY <1>1 DEF ChainSound
<1>3. Grown
  BY <1>1 DEF Grown, ChainSound
<1> QED
  BY <1>2, <1>3

(* An address that is known is of a contract that has been made.           *)
LEMMA AddressMade ==
  ASSUME ChainSound, NEW addresses, Addressed(addresses), NEW c \in Contracts,
         addresses[c] # NoAddress
  PROVE  <<c, addresses[c]>> \in Made /\ addresses[c] \in 1..chain.made[c]
<1>1. addresses[c] \in 1..chain.made[c]
  BY DEF Addressed, NoAddress, ChainSound
<1> QED
  BY <1>1, MadeIs DEF ChainSound

(* Addresses stay good while the chain grows.                              *)
LEMMA AddressesStay ==
  ASSUME ChainSound, ChainSound', Grown, NEW addresses, Addressed(addresses)
  PROVE  /\ \A c \in Contracts : addresses[c] <= chain'.made[c]
         /\ \A c \in Contracts : addresses[c] # NoAddress =>
              chain'.refs[<<c, addresses[c]>>] = chain.refs[<<c, addresses[c]>>]
<1>1. ASSUME NEW c \in Contracts
      PROVE  addresses[c] <= chain'.made[c]
  <2>1. /\ addresses[c] \in Nat /\ addresses[c] <= chain.made[c]
        /\ chain.made[c] \in Nat /\ chain'.made[c] \in Nat
        /\ chain.made[c] <= chain'.made[c]
    BY DEF Addressed, ChainSound, Grown
  <2> QED
    BY <2>1
<1>2. ASSUME NEW c \in Contracts, addresses[c] # NoAddress
      PROVE  chain'.refs[<<c, addresses[c]>>] = chain.refs[<<c, addresses[c]>>]
  BY <1>2, AddressMade DEF Grown
<1> QED
  BY <1>1, <1>2

LEMMA BookStays ==
  ASSUME ChainSound, ChainSound', Grown, Addressed(book), Consistent(book), book' = book
  PROVE  (Addressed(book) /\ Consistent(book))'
BY AddressesStay DEF Addressed, Consistent, Agrees, References

(* A contract that fits among addresses goes on fitting.                   *)
LEMMA FitsStays ==
  ASSUME ChainSound, ChainSound', Grown, singles > 0 => singles' > 0,
         NEW addresses, Addressed(addresses),
         NEW c \in Contracts, addresses[c] # NoAddress, Fits(c, addresses)
  PROVE  Fits(c, addresses)'
<1> DEFINE x == <<c, addresses[c]>>
<1>1. chain'.refs[x] = chain.refs[x]
  BY AddressesStay
<1>2. CASE Agrees(c, addresses)
  BY <1>1, <1>2 DEF Fits, Agrees, References
<1>3. CASE ~Agrees(c, addresses)
  <2>1. /\ c = SingleContract /\ singles' > 0
        /\ \A d \in DOMAIN chain.refs[x] : <<d, chain.refs[x][d]>> \in Made
        /\ OfOneDeployment(c, addresses)
    BY <1>3 DEF Fits, References
  <2>2. \A d \in DOMAIN chain.refs[x] :
          /\ <<d, chain.refs[x][d]>> \in Made'
          /\ chain'.refs[<<d, chain.refs[x][d]>>] = chain.refs[<<d, chain.refs[x][d]>>]
    BY <2>1 DEF Grown
  <2>3. OfOneDeployment(c, addresses)'
    <3> DEFINE r == chain.refs[x]
    <3>1. References(c, addresses) = r /\ References(c, addresses)' = r
      BY <1>1 DEF References
    <3>2. \A d \in DOMAIN r : chain'.refs[<<d, r[d]>>] = chain.refs[<<d, r[d]>>]
      BY <2>2
    <3> HIDE DEF r
    <3>3. \A d \in DOMAIN r : \A e \in DOMAIN r \cap DOMAIN chain.refs[<<d, r[d]>>] :
            chain.refs[<<d, r[d]>>][e] = r[e]
      BY <2>1, <3>1 DEF OfOneDeployment, References
    <3> QED
      BY <3>1, <3>2, <3>3 DEF OfOneDeployment, References
  <2> QED
    BY <1>1, <2>1, <2>2, <2>3 DEF Fits, References
<1> QED
  BY <1>2, <1>3

-----------------------------------------------------------------------------
(* The chain after each kind of transaction.                               *)
ChainFields(made, refs, owner, operators, special, markets, ready) ==
  [made |-> made, refs |-> refs, owner |-> owner, operators |-> operators,
   special |-> special, markets |-> markets, ready |-> ready]

LEMMA DeployFields ==
  ASSUME ChainSound, NEW c \in Contracts, NEW refs, NEW addresses
  PROVE  LET k == chain.made[c] + 1
             new == WithContract(chain, c, refs, addresses)
         IN  new = ChainFields([chain.made EXCEPT ![c] = k],
                     With(chain.refs, <<c, k>>, Restrict(addresses, refs)),
                     With(chain.owner, <<c, k>>, "deployer"),
                     IF c = "DolomiteMargin" THEN Append(chain.operators, {}) ELSE chain.operators,
                     IF c = "DolomiteMargin" THEN Append(chain.special, {}) ELSE chain.special,
                     IF c = "DolomiteMargin" THEN Append(chain.markets, <<>>) ELSE chain.markets,
                     chain.ready)
<1> DEFINE k == chain.made[c] + 1
           refsAfter == With(chain.refs, <<c, k>>, Restrict(addresses, refs))
           ownerAfter == With(chain.owner, <<c, k>>, "deployer")
           operatorsAfter == IF c = "DolomiteMargin" THEN Append(chain.operators, {})
                                                     ELSE chain.operators
           specialAfter == IF c = "DolomiteMargin" THEN Append(chain.special, {})
                                                   ELSE chain.special
           marketsAfter == IF c = "DolomiteMargin" THEN Append(chain.markets, <<>>)
                                                   ELSE chain.markets
<1>1. chain = ChainFields(chain.made, chain.refs, chain.owner, chain.operators,
                          chain.special, chain.markets, chain.ready)
  BY DEF ChainSound, ChainFields
<1>2. WithContract(chain, c, refs, addresses)
        = [chain EXCEPT !.made[c] = k, !.refs = refsAfter, !.owner = ownerAfter,
                        !.operators = operatorsAfter, !.special = specialAfter,
                        !.markets = marketsAfter]
  BY DEF WithContract
<1> HIDE DEF k, refsAfter, ownerAfter, operatorsAfter, specialAfter, marketsAfter
<1>3. WithContract(chain, c, refs, addresses)
        = ChainFields([chain.made EXCEPT ![c] = k], refsAfter, ownerAfter, operatorsAfter,
                      specialAfter, marketsAfter, chain.ready)
  BY <1>1, <1>2 DEF ChainFields
<1> QED
  BY <1>3 DEF k, refsAfter, ownerAfter, operatorsAfter, specialAfter, marketsAfter

LEMMA ChainParts ==
  ASSUME NEW made, NEW refs, NEW owner, NEW operators, NEW special, NEW markets, NEW ready,
         NEW ch, ch = ChainFields(made, refs, owner, operators, special, markets, ready)
  PROVE  /\ ch.made = made /\ ch.refs = refs /\ ch.owner = owner
         /\ ch.operators = operators /\ ch.special = special /\ ch.markets = markets
         /\ ch.ready = ready
         /\ ch = [made |-> ch.made, refs |-> ch.refs, owner |-> ch.owner,
                  operators |-> ch.operators, special |-> ch.special,
                  markets |-> ch.markets, ready |-> ch.ready]
BY DEF ChainFields

(* A contract is deployed with the addresses it refers to.                 *)
LEMMA DeployLands ==
  ASSUME network \in Networks, network' = network, ChainSound,
         NEW i \in DeploysIn(Script), NEW addresses, Addressed(addresses),
         \A d \in Script[i].refs : addresses[d] # NoAddress,
         chain' = WithContract(chain, Script[i].contract, Script[i].refs, addresses)
  PROVE  LET c == Script[i].contract
             k == chain.made[c] + 1
         IN  /\ ChainSound' /\ Grown
             /\ <<c, k>> \in Made' /\ <<c, k>> \notin Made
             /\ chain'.made = [chain.made EXCEPT ![c] = k]
             /\ chain'.refs[<<c, k>>] = [d \in Script[i].refs |-> addresses[d]]
<1> DEFINE c == Script[i].contract
           k == chain.made[c] + 1
           x == <<c, k>>
<1>1. c \in Contracts /\ Script[i].refs \subseteq Contracts
  BY ScriptContracts
<1>2. chain.made[c] \in Nat /\ k \in Nat
  BY <1>1 DEF ChainSound
<1>3. /\ chain'.made = [chain.made EXCEPT ![c] = k]
      /\ chain'.refs = With(chain.refs, x, Restrict(addresses, Script[i].refs))
      /\ chain'.owner = With(chain.owner, x, "deployer")
      /\ chain'.operators = IF c = "DolomiteMargin" THEN Append(chain.operators, {})
                                                    ELSE chain.operators
      /\ chain'.special = IF c = "DolomiteMargin" THEN Append(chain.special, {})
                                                  ELSE chain.special
      /\ chain'.markets = IF c = "DolomiteMargin" THEN Append(chain.markets, <<>>)
                                                  ELSE chain.markets
      /\ chain' = [made |-> chain'.made, refs |-> chain'.refs, owner |-> chain'.owner,
                   operators |-> chain'.operators, special |-> chain'.special,
                   markets |-> chain'.markets, ready |-> chain'.ready]
  BY <1>1, DeployFields, ChainParts
<1>4. /\ chain'.made \in [Contracts -> Nat]
      /\ \A d \in Contracts : chain.made[d] <= chain'.made[d]
      /\ chain'.made[c] = k
      /\ \A d \in Contracts \ {c} : chain'.made[d] = chain.made[d]
  BY <1>1, <1>2, <1>3 DEF ChainSound
<1>5. Made' = Made \cup {x} /\ x \notin Made
  <2>1. Made' = UNION {{d} \X (1..chain'.made[d]) : d \in Contracts}
    BY DEF Made
  <2>2. \A y : y \in Made' <=> \E d \in Contracts : \E j \in 1..chain'.made[d] : y = <<d, j>>
    BY <2>1
  <2>3. \A y : y \in Made <=> \E d \in Contracts : \E j \in 1..chain.made[d] : y = <<d, j>>
    BY DEF Made
  <2>4. 1..chain'.made[c] = 1..chain.made[c] \cup {k} /\ k \notin 1..chain.made[c]
    BY <1>2, <1>4
  <2>5. x \notin Made
    BY <2>3, <2>4
  <2>6. ASSUME NEW y PROVE y \in Made' <=> y \in Made \cup {x}
    BY <1>1, <1>4, <2>2, <2>3, <2>4
  <2> QED
    BY <2>5, <2>6
<1>6. /\ DOMAIN chain'.refs = Made' /\ DOMAIN chain'.owner = Made'
      /\ chain'.refs[x] = [d \in Script[i].refs |-> addresses[d]]
      /\ chain'.owner[x] = "deployer"
      /\ \A y \in Made : chain'.refs[y] = chain.refs[y] /\ chain'.owner[y] = chain.owner[y]
  <2>1. DOMAIN chain.refs = Made /\ DOMAIN chain.owner = Made
    BY DEF ChainSound
  <2> QED
    BY <1>3, <1>5, <2>1 DEF With, Restrict
<1>7. chain'.owner \in [Made' -> {"deployer", "multisig", "safe"}]
  <2>1. \A y \in Made' : chain'.owner[y] \in {"deployer", "multisig", "safe"}
    BY <1>5, <1>6 DEF ChainSound
  <2>2. chain'.owner = [y \in Made' |-> chain'.owner[y]]
    BY <1>3, <1>6 DEF With
  <2> QED
    BY <2>1, <2>2
<1>8. Script' = Script /\ FirstTokens' = FirstTokens
  BY DEF Script, FirstTokens
<1>9. /\ chain'.operators \in Seq(SUBSET (Contracts \X Nat)) /\ DOMAIN chain'.operators = Margins'
      /\ chain'.special \in Seq(SUBSET (Contracts \X Nat)) /\ DOMAIN chain'.special = Margins'
      /\ chain'.markets \in Seq(FirstTokens) /\ DOMAIN chain'.markets = Margins'
      /\ \A m \in Margins : /\ m \in Margins'
                            /\ chain'.operators[m] = chain.operators[m]
                            /\ chain'.special[m] = chain.special[m]
                            /\ chain'.markets[m] = chain.markets[m]
  <2>1. CASE c # "DolomiteMargin"
    <3>1. Margins' = Margins
      BY <1>4, <2>1, KnownContracts DEF Margins
    <3> QED
      BY <1>3, <2>1, <3>1 DEF ChainSound
  <2>2. CASE c = "DolomiteMargin"
    <3>1. /\ Margins = 1..chain.made[c] /\ Margins' = 1..k
          /\ Len(chain.operators) = chain.made[c] /\ Len(chain.special) = chain.made[c]
          /\ Len(chain.markets) = chain.made[c]
      BY <1>2, <1>4, <2>2 DEF Margins, ChainSound
    <3>2. /\ chain'.operators = Append(chain.operators, {})
          /\ chain'.special = Append(chain.special, {})
          /\ chain'.markets = Append(chain.markets, <<>>)
      BY <1>3, <2>2
    <3>3. <<>> \in FirstTokens
      <4>1. getTokens(network) \in Seq(STRING)
        BY ScriptInOrder DEF TokensInOrder
      <4>2. SubSeq(getTokens(network), 1, 0) = <<>> /\ 0 \in 0..Len(getTokens(network))
        BY <4>1
      <4> QED
        BY <4>2 DEF FirstTokens
    <3> QED
      BY <1>2, <3>1, <3>2, <3>3 DEF ChainSound
  <2> QED
    BY <2>1, <2>2
<1>10. \A y \in Made' : \E j \in DeploysIn(Script) :
         /\ Script[j].contract = y[1]
         /\ chain'.refs[y] \in [Script[j].refs -> Nat \ {NoAddress}]
  <2>1. \A d \in Script[i].refs : addresses[d] \in Nat \ {NoAddress}
    BY <1>1 DEF Addressed
  <2>2. chain'.refs[x] \in [Script[i].refs -> Nat \ {NoAddress}]
    BY <1>6, <2>1
  <2>3. x[1] = Script[i].contract
    OBVIOUS
  <2>4. ASSUME NEW y \in Made
        PROVE  \E j \in DeploysIn(Script) :
                 /\ Script[j].contract = y[1]
                 /\ chain'.refs[y] \in [Script[j].refs -> Nat \ {NoAddress}]
    <3>1. PICK j \in DeploysIn(Script) :
            /\ Script[j].contract = y[1]
            /\ chain.refs[y] \in [Script[j].refs -> Nat \ {NoAddress}]
      BY DEF ChainSound
    <3>2. chain'.refs[y] = chain.refs[y]
      BY <1>6
    <3> QED
      BY <3>1, <3>2
  <2> HIDE DEF x
  <2> QED
    BY <1>5, <2>2, <2>3, <2>4
<1>11. ChainSound'
  BY <1>3, <1>4, <1>6, <1>7, <1>8, <1>9, <1>10 DEF ChainSound
<1>12. Grown
  BY <1>4, <1>5, <1>6, <1>9 DEF Grown
<1> QED
  BY <1>3, <1>5, <1>6, <1>11, <1>12

(* A contract becomes a global operator, or a special auto trader.         *)
LEMMA OperatorLands ==
  ASSUME network \in Networks, network' = network, ChainSound,
         NEW m \in Margins, NEW x \in Contracts \X Nat,
         chain' = [chain EXCEPT !.operators[m] = @ \cup {x}]
  PROVE  ChainSound' /\ Grown /\ x \in chain'.operators[m]
<1> DEFINE after == [chain.operators EXCEPT ![m] = @ \cup {x}]
<1>1. chain' = ChainFields(chain.made, chain.refs, chain.owner, after, chain.special,
                           chain.markets,
                           chain.ready)
  BY DEF ChainSound, ChainFields
<1> HIDE DEF after
<1>2. /\ chain'.made = chain.made /\ chain'.refs = chain.refs /\ chain'.owner = chain.owner
      /\ chain'.operators = after /\ chain'.special = chain.special
      /\ chain'.markets = chain.markets
      /\ chain' = [made |-> chain'.made, refs |-> chain'.refs, owner |-> chain'.owner,
                   operators |-> chain'.operators, special |-> chain'.special,
                   markets |-> chain'.markets, ready |-> chain'.ready]
  BY <1>1, ChainParts
<1>3. Made' = Made /\ Margins' = Margins /\ Script' = Script /\ FirstTokens' = FirstTokens
  BY <1>2 DEF Made, Margins, Script, FirstTokens
<1>4. /\ after \in Seq(SUBSET (Contracts \X Nat)) /\ DOMAIN after = Margins
      /\ after[m] = chain.operators[m] \cup {x}
      /\ \A l \in Margins : chain.operators[l] \subseteq after[l]
  BY DEF ChainSound, after
<1>5. ChainSound'
  BY <1>2, <1>3, <1>4 DEF ChainSound
<1>6. Grown
  BY <1>2, <1>3, <1>4 DEF Grown, ChainSound
<1> QED
  BY <1>2, <1>4, <1>5, <1>6
LEMMA SpecialLands ==
  ASSUME network \in Networks, network' = network, ChainSound,
         NEW m \in Margins, NEW x \in Contracts \X Nat,
         chain' = [chain EXCEPT !.special[m] = @ \cup {x}]
  PROVE  ChainSound' /\ Grown /\ x \in chain'.special[m]
<1> DEFINE after == [chain.special EXCEPT ![m] = @ \cup {x}]
<1>1. chain' = ChainFields(chain.made, chain.refs, chain.owner, chain.operators, after,
                           chain.markets,
                           chain.ready)
  BY DEF ChainSound, ChainFields
<1> HIDE DEF after
<1>2. /\ chain'.made = chain.made /\ chain'.refs = chain.refs /\ chain'.owner = chain.owner
      /\ chain'.special = after /\ chain'.operators = chain.operators
      /\ chain'.markets = chain.markets
      /\ chain' = [made |-> chain'.made, refs |-> chain'.refs, owner |-> chain'.owner,
                   operators |-> chain'.operators, special |-> chain'.special,
                   markets |-> chain'.markets, ready |-> chain'.ready]
  BY <1>1, ChainParts
<1>3. Made' = Made /\ Margins' = Margins /\ Script' = Script /\ FirstTokens' = FirstTokens
  BY <1>2 DEF Made, Margins, Script, FirstTokens
<1>4. /\ after \in Seq(SUBSET (Contracts \X Nat)) /\ DOMAIN after = Margins
      /\ after[m] = chain.special[m] \cup {x}
      /\ \A l \in Margins : chain.special[l] \subseteq after[l]
  BY DEF ChainSound, after
<1>5. ChainSound'
  BY <1>2, <1>3, <1>4 DEF ChainSound
<1>6. Grown
  BY <1>2, <1>3, <1>4 DEF Grown, ChainSound
<1> QED
  BY <1>2, <1>4, <1>5, <1>6

(* A contract of the deployer's gets its owner.                            *)
LEMMA OwnLands ==
  ASSUME network \in Networks, network' = network, ChainSound,
         NEW x \in Made, chain.owner[x] = "deployer", NEW owner \in {"multisig", "safe"},
         chain' = [chain EXCEPT !.owner[x] = owner]
  PROVE  ChainSound' /\ Grown /\ chain'.owner[x] = owner
<1> DEFINE after == [chain.owner EXCEPT ![x] = owner]
<1>1. chain' = ChainFields(chain.made, chain.refs, after, chain.operators, chain.special,
                           chain.markets, chain.ready)
  BY DEF ChainSound, ChainFields
<1> HIDE DEF after
<1>2. /\ chain'.made = chain.made /\ chain'.refs = chain.refs /\ chain'.owner = after
      /\ chain'.operators = chain.operators /\ chain'.special = chain.special
      /\ chain'.markets = chain.markets
      /\ chain' = [made |-> chain'.made, refs |-> chain'.refs, owner |-> chain'.owner,
                   operators |-> chain'.operators, special |-> chain'.special,
                   markets |-> chain'.markets, ready |-> chain'.ready]
  BY <1>1, ChainParts
<1>3. Made' = Made /\ Margins' = Margins /\ Script' = Script /\ FirstTokens' = FirstTokens
  BY <1>2 DEF Made, Margins, Script, FirstTokens
<1>4. /\ after \in [Made -> {"deployer", "multisig", "safe"}] /\ after[x] = owner
      /\ \A y \in Made : chain.owner[y] # "deployer" => after[y] = chain.owner[y]
  BY DEF ChainSound, after
<1>5. ChainSound'
  BY <1>2, <1>3, <1>4 DEF ChainSound
<1>6. Grown
  BY <1>2, <1>3, <1>4 DEF Grown, ChainSound
<1> QED
  BY <1>2, <1>4, <1>5, <1>6

(* A token that comes next is listed.                                      *)
LEMMA PrefixGrows ==
  ASSUME network \in Networks, NEW tokens \in FirstTokens,
         NEW k \in DOMAIN getTokens(network),
         \A l \in 1..(k - 1) : getTokens(network)[l] \in ToSet(tokens),
         getTokens(network)[k] \notin ToSet(tokens)
  PROVE  /\ Append(tokens, getTokens(network)[k]) \in FirstTokens
         /\ tokens # getTokens(network)
<1> DEFINE all == getTokens(network)
<1>1. /\ all \in Seq(STRING)
      /\ \A i, j \in DOMAIN all : all[i] = all[j] => i = j
  BY ScriptInOrder DEF TokensInOrder
<1> HIDE DEF all
<1>2. PICK n \in 0..Len(all) : tokens = SubSeq(all, 1, n)
  BY DEF FirstTokens, all
<1>3. /\ Len(tokens) = n /\ DOMAIN tokens = 1..n /\ \A i \in 1..n : tokens[i] = all[i]
      /\ tokens \in Seq(STRING)
  BY <1>1, <1>2
<1>4. DOMAIN all = 1..Len(all) /\ Len(all) \in Nat /\ k \in 1..Len(all)
  BY <1>1 DEF all
<1>5. ToSet(tokens) = {all[i] : i \in 1..n}
  BY <1>3 DEF ToSet
<1>6. n < k
  <2>1. k \notin 1..n
    BY <1>5 DEF all
  <2> QED
    BY <1>4, <2>1
<1>7. k - 1 <= n
  <2>1. CASE k = 1
    BY <2>1
  <2>2. CASE k # 1
    <3>1. k - 1 \in 1..(k - 1) /\ k - 1 \in DOMAIN all
      BY <1>4, <2>2
    <3>2. all[k - 1] \in ToSet(tokens)
      BY <3>1 DEF all
    <3>3. PICK i \in 1..n : all[k - 1] = all[i]
      BY <1>5, <3>2
    <3>4. k - 1 = i
      BY <1>1, <1>4, <3>1, <3>3
    <3> QED
      BY <3>3, <3>4
  <2> QED
    BY <2>1, <2>2
<1>8. n = k - 1
  BY <1>4, <1>6, <1>7
<1>9. Append(tokens, all[k]) = SubSeq(all, 1, k)
  <2>1. all[k] \in STRING
    BY <1>1, <1>4
  <2>2. /\ Len(SubSeq(all, 1, k)) = k /\ \A i \in 1..k : SubSeq(all, 1, k)[i] = all[i]
        /\ SubSeq(all, 1, k) \in Seq(STRING)
    BY <1>1, <1>4
  <2>3. /\ Len(Append(tokens, all[k])) = k
        /\ \A i \in 1..k : Append(tokens, all[k])[i] = all[i]
        /\ Append(tokens, all[k]) \in Seq(STRING)
    BY <1>3, <1>4, <1>8, <2>1
  <2> QED
    BY <2>2, <2>3
<1> QED
  BY <1>4, <1>5, <1>8, <1>9, <1>3 DEF all, FirstTokens

LEMMA NewMarkets ==
  ASSUME ChainSound, NEW after, NEW ch, ch = [chain EXCEPT !.markets = after]
  PROVE  /\ ch.made = chain.made /\ ch.refs = chain.refs /\ ch.owner = chain.owner
         /\ ch.operators = chain.operators /\ ch.special = chain.special
         /\ ch.markets = after
         /\ ch = [made |-> ch.made, refs |-> ch.refs, owner |-> ch.owner,
                  operators |-> ch.operators, special |-> ch.special,
                  markets |-> ch.markets, ready |-> ch.ready]
<1>1. chain = ChainFields(chain.made, chain.refs, chain.owner, chain.operators,
                          chain.special, chain.markets, chain.ready)
  BY DEF ChainSound, ChainFields
<1>2. ch = ChainFields(chain.made, chain.refs, chain.owner, chain.operators,
                       chain.special, after, chain.ready)
  BY <1>1 DEF ChainFields
<1> QED
  BY <1>2, ChainParts

LEMMA MarketLands ==
  ASSUME network \in Networks, network' = network, ChainSound,
         NEW m \in Margins, NEW k \in DOMAIN getTokens(network),
         \A l \in 1..(k - 1) : getTokens(network)[l] \in ToSet(chain.markets[m]),
         getTokens(network)[k] \notin ToSet(chain.markets[m]),
         chain' = [chain EXCEPT !.markets[m] = Append(@, getTokens(network)[k])]
  PROVE  ChainSound' /\ Grown /\ getTokens(network)[k] \in ToSet(chain'.markets[m])
<1> DEFINE token == getTokens(network)[k]
           after == [chain.markets EXCEPT ![m] = Append(@, token)]
<1>1. chain' = [chain EXCEPT !.markets = after]
  OBVIOUS
<1> HIDE DEF after
<1>2. /\ chain'.made = chain.made /\ chain'.refs = chain.refs /\ chain'.owner = chain.owner
      /\ chain'.operators = chain.operators /\ chain'.special = chain.special
      /\ chain'.markets = after
      /\ chain' = [made |-> chain'.made, refs |-> chain'.refs, owner |-> chain'.owner,
                   operators |-> chain'.operators, special |-> chain'.special,
                   markets |-> chain'.markets, ready |-> chain'.ready]
  BY <1>1, NewMarkets
<1>3. Made' = Made /\ Margins' = Margins /\ Script' = Script /\ FirstTokens' = FirstTokens
  BY <1>2 DEF Made, Margins, Script, FirstTokens
<1>4. /\ chain.markets \in Seq(FirstTokens) /\ DOMAIN chain.markets = Margins
      /\ chain.markets[m] \in FirstTokens
  BY DEF ChainSound
<1>5. /\ Append(chain.markets[m], token) \in FirstTokens
      /\ chain.markets[m] # getTokens(network)
  BY <1>4, PrefixGrows
<1>6. /\ token \in ToSet(Append(chain.markets[m], token))
      /\ ToSet(chain.markets[m]) \subseteq ToSet(Append(chain.markets[m], token))
  <2>1. chain.markets[m] \in Seq(STRING) /\ token \in STRING
    <3>1. getTokens(network) \in Seq(STRING)
      BY ScriptInOrder DEF TokensInOrder
    <3>2. PICK n \in 0..Len(getTokens(network)) :
            chain.markets[m] = SubSeq(getTokens(network), 1, n)
      BY <1>4 DEF FirstTokens
    <3> QED
      BY <3>1, <3>2
  <2> HIDE DEF token
  <2>2. PICK old : old = chain.markets[m]
    OBVIOUS
  <2>3. /\ Append(old, token) \in Seq(STRING) /\ Len(Append(old, token)) = Len(old) + 1
        /\ Append(old, token)[Len(old) + 1] = token
        /\ \A l \in 1..Len(old) : Append(old, token)[l] = old[l]
        /\ DOMAIN old = 1..Len(old) /\ DOMAIN Append(old, token) = 1..(Len(old) + 1)
        /\ Len(old) \in Nat
    BY <2>1, <2>2
  <2>4. token \in ToSet(Append(old, token)) /\ ToSet(old) \subseteq ToSet(Append(old, token))
    BY <2>3 DEF ToSet
  <2> QED
    BY <2>2, <2>4
<1>7. /\ after \in Seq(FirstTokens) /\ DOMAIN after = Margins
      /\ after[m] = Append(chain.markets[m], token)
      /\ \A l \in Margins \ {m} : after[l] = chain.markets[l]
  BY <1>4, <1>5 DEF after
<1> HIDE DEF token
<1>8. ChainSound'
  BY <1>2, <1>3, <1>7 DEF ChainSound
<1>9. Grown
  <2>1. ASSUME NEW l \in Margins
        PROVE  /\ ToSet(chain.markets[l]) \subseteq ToSet(after[l])
               /\ chain.markets[l] = getTokens(network) => after[l] = getTokens(network)
    BY <1>5, <1>6, <1>7
  <2>2. \A c \in Contracts : chain.made[c] <= chain.made[c]
    BY DEF ChainSound
  <2> QED
    BY <1>2, <1>3, <2>1, <2>2 DEF Grown
<1> QED
  BY <1>2, <1>6, <1>7, <1>8, <1>9 DEF token

-----------------------------------------------------------------------------
(* When the contracts are told of each other, all of them are there.       *)
Wiring == {"operator", "special", "market", "own"}

LEMMA WiringLast ==
  ASSUME network \in Networks, NEW i \in DOMAIN Script, NEW at \in Nat, i <= at,
         Script[i].do \in Wiring \cup {"initialize"}
  PROVE  /\ \A j \in DeploysIn(Script) : j < i /\ Script[j].contract \in Placed(Script, at)
         /\ "DolomiteMargin" \in Placed(Script, at) \cap Contracts
         /\ Script[i].do \in {"operator", "special", "own"} =>
              Script[i].contract \in Placed(Script, at) \cap Contracts
<1>1. \A j \in DeploysIn(Script) : j < i
  BY ScriptInOrder DEF InOrder, WiresInOrder, Wiring
<1>2. i \in Nat /\ DeploysIn(Script) \subseteq Nat
  BY ScriptInOrder DEF DeploysIn
<1>3. \A j \in DeploysIn(Script) : Script[j].contract \in Placed(Script, at)
  BY <1>1, <1>2 DEF Placed
<1>4. \E j \in DeploysIn(Script) : Script[j].contract = "DolomiteMargin"
  BY ScriptInOrder DEF InOrder, DeploysInOrder
<1>5. Script[i].do \in {"operator", "special", "own"} =>
        Script[i].contract \in Placed(Script, i)
  BY ScriptInOrder DEF InOrder, WiresInOrder
<1>6. Placed(Script, i) \subseteq Placed(Script, at)
  BY <1>2 DEF Placed
<1> QED
  BY <1>1, <1>3, <1>4, <1>5, <1>6, PlacedIs

(* The contracts a wiring step is about have been made.                    *)
LEMMA WiringMade ==
  ASSUME network \in Networks, ChainSound, MemorySound, run.at \in Nat,
         NEW i \in DOMAIN Script, i <= run.at, Script[i].do \in Wiring \cup {"initialize"}
  PROVE  /\ CurrentMargin \in Margins
         /\ Script[i].do \in {"operator", "special", "own"} =>
              /\ Instance(Script[i].contract) \in Made
              /\ Instance(Script[i].contract) \in Contracts \X Nat
<1>1. \A c \in Placed(Script, run.at) \cap Contracts : memory[c] # NoAddress
  BY DEF MemorySound
<1>2. Addressed(memory)
  BY DEF MemorySound
<1>3. CurrentMargin \in Margins
  BY <1>1, <1>2, WiringLast, AddressMade DEF CurrentMargin, Margins
<1>4. ASSUME Script[i].do \in {"operator", "special", "own"}
      PROVE  /\ Instance(Script[i].contract) \in Made
             /\ Instance(Script[i].contract) \in Contracts \X Nat
  <2>1. Script[i].contract \in Contracts /\ memory[Script[i].contract] # NoAddress
    BY <1>1, <1>4, WiringLast
  <2>2. memory[Script[i].contract] \in Nat
    BY <1>2, <2>1 DEF Addressed
  <2> QED
    BY <1>2, <2>1, <2>2, AddressMade DEF Instance
<1> QED
  BY <1>3, <1>4

(* A transaction lands: the chain stays sound, and the step is done.       *)
LEMMA TransactionLands ==
  ASSUME network \in Networks, network' = network, ChainSound, RunSound,
         AtStep(Transactions), ~Skips(Step), ~Throws(Step), ~Reverts(Step),
         chain' = Landed(Step), NEW s, s = Script[run.at]
  PROVE  /\ ChainSound' /\ Grown
         /\ s.do = "deploy" =>
              LET c == s.contract
                  k == chain.made[c] + 1
              IN  /\ c \in Contracts /\ run.at \in DeploysIn(Script)
                  /\ <<c, k>> \in Made' /\ <<c, k>> \notin Made
                  /\ chain'.made = [chain.made EXCEPT ![c] = k]
                  /\ chain'.refs[<<c, k>>] = [d \in s.refs |-> memory[d]]
         /\ s.do = "operator" => Instance(s.contract) \in chain'.operators[CurrentMargin]
         /\ s.do = "special" => Instance(s.contract) \in chain'.special[CurrentMargin]
         /\ s.do = "market" => s.token \in ToSet(chain'.markets[CurrentMargin])
         /\ s.do = "own" => chain'.owner[Instance(s.contract)] = s.owner
<1>1. /\ Step = s /\ run.at \in DOMAIN Script /\ run.at \in Nat
      /\ MemorySound /\ Addressed(memory)
      /\ \A i \in 1..(run.at - 1) : Accomplished(Script[i])
      /\ s.do \in Transactions
  BY ScriptInOrder DEF AtStep, Step, Script, Running, RunSound, MemorySound
<1>2. InOrder(network, Script)
  BY ScriptInOrder
<1>3. CASE s.do = "deploy"
  <2>1. run.at \in DeploysIn(Script)
    BY <1>1, <1>3 DEF DeploysIn
  <2>2. \A d \in s.refs : memory[d] # NoAddress
    BY <1>1, <1>3 DEF Throws, Skips
  <2>3. chain' = WithContract(chain, s.contract, s.refs, memory)
    BY <1>1, <1>3 DEF Landed
  <2> QED
    BY <1>1, <1>3, <2>1, <2>2, <2>3, DeployLands, ScriptContracts
<1>4. CASE s.do = "operator"
  <2>1. chain' = [chain EXCEPT !.operators[CurrentMargin] = @ \cup {Instance(s.contract)}]
    BY <1>1, <1>4 DEF Landed
  <2>2. CurrentMargin \in Margins /\ Instance(s.contract) \in Contracts \X Nat
    BY <1>1, <1>4, WiringMade DEF Wiring
  <2> QED
    BY <1>4, <2>1, <2>2, OperatorLands
<1>5. CASE s.do = "special"
  <2>1. chain' = [chain EXCEPT !.special[CurrentMargin] = @ \cup {Instance(s.contract)}]
    BY <1>1, <1>5 DEF Landed
  <2>2. CurrentMargin \in Margins /\ Instance(s.contract) \in Contracts \X Nat
    BY <1>1, <1>5, WiringMade DEF Wiring
  <2> QED
    BY <1>5, <2>1, <2>2, SpecialLands
<1>6. CASE s.do = "market"
  <2>1. chain' = [chain EXCEPT !.markets[CurrentMargin] = Append(@, s.token)]
    BY <1>1, <1>6 DEF Landed
  <2>2. CurrentMargin \in Margins
    BY <1>1, <1>6, WiringMade DEF Wiring
  <2>3. s.token \notin ToSet(chain.markets[CurrentMargin])
    BY <1>1, <1>6 DEF Reverts
  <2>4. PICK k \in DOMAIN getTokens(network) :
          /\ s.token = getTokens(network)[k]
          /\ \A l \in 1..(k - 1) : \E j \in 1..(run.at - 1) :
               Script[j].do = "market" /\ Script[j].token = getTokens(network)[l]
    BY <1>1, <1>2, <1>6 DEF InOrder, WiresInOrder
  <2>5. \A l \in 1..(k - 1) : getTokens(network)[l] \in ToSet(chain.markets[CurrentMargin])
    BY <1>1, <2>4 DEF Accomplished
  <2> QED
    BY <1>6, <2>1, <2>2, <2>3, <2>4, <2>5, MarketLands
<1>7. CASE s.do = "own"
  <2>1. chain' = [chain EXCEPT !.owner[Instance(s.contract)] = s.owner]
    BY <1>1, <1>7 DEF Landed
  <2>2. Instance(s.contract) \in Made
    BY <1>1, <1>7, WiringMade DEF Wiring
  <2>3. chain.owner[Instance(s.contract)] = "deployer"
    BY <1>1, <1>7 DEF Reverts
  <2>4. s.owner \in {"multisig", "safe"}
    BY <1>1, <1>2, <1>7 DEF InOrder, WiresInOrder
  <2> QED
    BY <1>7, <2>1, <2>2, <2>3, <2>4, OwnLands
<1> QED
  BY <1>1, <1>3, <1>4, <1>5, <1>6, <1>7 DEF Transactions

-----------------------------------------------------------------------------
(* What the process knows, step by step.                                   *)
LEMMA KnownRefs ==
  ASSUME ChainSound, ChainSound', Grown, Addressed(memory), NEW c \in Contracts,
         memory[c] # NoAddress
  PROVE  chain'.refs[<<c, memory[c]>>] = chain.refs[<<c, memory[c]>>]
BY AddressesStay

(* The references of a contract on the chain are those of its step.        *)
LEMMA RefsOf ==
  ASSUME ChainSound, NEW x \in Made
  PROVE  \E i \in DeploysIn(Script) :
           /\ Script[i].contract = x[1]
           /\ DOMAIN chain.refs[x] = Script[i].refs
           /\ \A d \in Script[i].refs : chain.refs[x][d] \in Nat \ {NoAddress}
BY DEF ChainSound

LEMMA MemoryStays ==
  ASSUME network \in Networks, ChainSound, ChainSound', Grown, MemorySound,
         memory' = memory, book' = book, run.at \in DOMAIN Script,
         run'.at = run.at + 1, Script[run.at].do \notin {"deploy", "save"}
  PROVE  MemorySound'
<1> DEFINE done == Placed(Script, run.at)
<1>1. Script' = Script
  BY DEF Grown, Script
<1>2. Placed(Script, run'.at) = done
  BY PlacedNext
<1>3. Addressed(memory)'
  BY AddressesStay DEF MemorySound, Addressed
<1>4. ~(run'.at > Len(Script))
  <2>1. run.at # Len(Script)
    BY ScriptInOrder DEF InOrder, SavesInOrder
  <2> QED
    BY <2>1, ScriptInOrder
<1>5. ASSUME NEW c \in Contracts, memory[c] # NoAddress,
             NEW d \in DOMAIN chain'.refs[<<c, memory[c]>>] \ Doubles
      PROVE  chain'.refs[<<c, memory[c]>>][d] = IF c \in done THEN memory[d] ELSE book[d]
  <2>1. chain'.refs[<<c, memory[c]>>] = chain.refs[<<c, memory[c]>>]
    BY <1>5, KnownRefs DEF MemorySound
  <2> QED
    BY <1>5, <2>1 DEF MemorySound
<1>6. \A c \in Contracts : IF c \in done THEN memory[c] # NoAddress ELSE memory[c] = book[c]
  BY DEF MemorySound
<1> HIDE DEF done
<1> QED
  BY <1>1, <1>2, <1>3, <1>4, <1>5, <1>6 DEF MemorySound

(* A step that deploys, and is not the last: the last saves.               *)
LEMMA NotLast ==
  ASSUME network \in Networks, NEW at \in DOMAIN Script, Script[at].do # "save"
  PROVE  ~(at + 1 > Len(Script))
<1>1. at # Len(Script)
  BY ScriptInOrder DEF InOrder, SavesInOrder
<1> QED
  BY <1>1, ScriptInOrder

(* A contract that has an address is passed by.                            *)
LEMMA MemorySkips ==
  ASSUME network \in Networks, ChainSound, Addressed(book), RunSound, Running,
         UNCHANGED <<network, chain, memory, book>>, run.at \in DeploysIn(Script),
         run'.at = run.at + 1, Skips(Script[run.at])
  PROVE  MemorySound'
<1> DEFINE s == Script[run.at]
           done == Placed(Script, run.at)
<1>1. /\ Script' = Script /\ run.at \in DOMAIN Script /\ s.do = "deploy"
      /\ Made' = Made /\ MemorySound /\ StaysSaved
  BY DEF Script, DeploysIn, Made, RunSound
<1>2. Placed(Script, run'.at) = done \cup {s.contract}
  BY <1>1, PlacedNext
<1>3. /\ ~s.always /\ ~run.overwrite /\ network \notin Dev
      /\ memory[s.contract] # NoAddress
  BY DEF Skips, ShouldOverwrite
<1>4. /\ s.contract \in Contracts
      /\ s.contract \notin done
      /\ s.refs \ Doubles \subseteq done
  BY <1>1, <1>3, ScriptContracts, ScriptInOrder DEF InOrder, DeploysInOrder
<1>5. Addressed(memory)' /\ ~(run'.at > Len(Script))
  <2>1. Addressed(memory)'
    BY <1>1 DEF MemorySound, Addressed
  <2>2. ~(run'.at > Len(Script))
    BY <1>1, NotLast
  <2> QED
    BY <2>1, <2>2
<1>6. ASSUME NEW d \in DOMAIN chain.refs[<<s.contract, memory[s.contract]>>] \ Doubles
      PROVE  chain.refs[<<s.contract, memory[s.contract]>>][d] = memory[d]
  <2> DEFINE x == <<s.contract, memory[s.contract]>>
  <2>1. x \in Made
    BY <1>1, <1>3, <1>4, AddressMade DEF MemorySound
  <2>2. PICK i \in DeploysIn(Script) :
          /\ Script[i].contract = s.contract
          /\ DOMAIN chain.refs[x] = Script[i].refs
          /\ \A e \in Script[i].refs : chain.refs[x][e] \in Nat \ {NoAddress}
    <3>1. x[1] = s.contract
      OBVIOUS
    <3> QED
      BY <2>1, <3>1, RefsOf
  <2>3. Script[i].refs = s.refs
    BY <2>2, ScriptInOrder DEF InOrder, DeploysInOrder
  <2>4. /\ d \in s.refs /\ d \in Contracts
        /\ chain.refs[x][d] # NoAddress /\ chain.refs[x][d] = book[d]
    BY <1>1, <1>3, <1>4, <1>6, <2>2, <2>3, ScriptContracts DEF MemorySound
  <2>5. \A j \in DeploysIn(Script) : Script[j].contract = d => ~Script[j].always
    BY <1>3, <2>4, ScriptInOrder DEF InOrder, DeploysInOrder
  <2> QED
    BY <1>1, <1>3, <2>4, <2>5 DEF StaysSaved
<1>7. ASSUME NEW c \in Contracts, memory[c] # NoAddress,
             NEW d \in DOMAIN chain.refs[<<c, memory[c]>>] \ Doubles
      PROVE  chain.refs[<<c, memory[c]>>][d] =
               IF c \in done \cup {s.contract} THEN memory[d] ELSE book[d]
  BY <1>1, <1>6, <1>7 DEF MemorySound
<1>8. \A c \in Contracts : IF c \in done \cup {s.contract} THEN memory[c] # NoAddress
                                                           ELSE memory[c] = book[c]
  BY <1>1, <1>3 DEF MemorySound
<1> HIDE DEF s, done
<1> QED
  BY <1>1, <1>2, <1>5, <1>7, <1>8 DEF MemorySound

(* A contract is deployed, and its address known from then on.             *)
LEMMA MemoryDeploys ==
  ASSUME network \in Networks, ChainSound, ChainSound', Grown, MemorySound,
         book' = book, run.at \in DeploysIn(Script), run'.at = run.at + 1,
         NEW c, NEW k, c = Script[run.at].contract, k = chain.made[c] + 1,
         memory' = [memory EXCEPT ![c] = k], <<c, k>> \in Made',
         chain'.made = [chain.made EXCEPT ![c] = k],
         chain'.refs[<<c, k>>] = [d \in Script[run.at].refs |-> memory[d]]
  PROVE  MemorySound'
<1> DEFINE s == Script[run.at]
           done == Placed(Script, run.at)
<1>1. /\ Script' = Script /\ run.at \in DOMAIN Script /\ s.do = "deploy" /\ run.at \in Nat
      /\ DeploysIn(Script) \subseteq Nat /\ c \in Contracts /\ s.refs \subseteq Contracts
      /\ Addressed(memory)
  BY ScriptInOrder, ScriptContracts DEF Grown, Script, DeploysIn, MemorySound
<1>2. Placed(Script, run'.at) = done \cup {c}
  BY <1>1, PlacedNext
<1>3. memory \in [Contracts -> Nat] /\ k \in Nat \ {NoAddress}
  BY <1>1 DEF Addressed, ChainSound, NoAddress
<1>4. Addressed(memory)' /\ ~(run'.at > Len(Script))
  <2>1. ASSUME NEW d \in Contracts PROVE memory'[d] <= chain'.made[d]
    BY <1>1, <1>3 DEF Addressed, ChainSound
  <2>2. memory' \in [Contracts -> Nat]
    BY <1>3
  <2>3. ~(run'.at > Len(Script))
    BY <1>1, NotLast
  <2> QED
    BY <2>1, <2>2, <2>3 DEF Addressed
<1>5. c \in done => c \in Doubles
  BY ScriptInOrder DEF InOrder, DeploysInOrder
<1>6. s.refs \ Doubles \subseteq done
  BY ScriptInOrder DEF InOrder, DeploysInOrder
<1>7. ASSUME NEW d \in s.refs \ Doubles
      PROVE  chain'.refs[<<c, k>>][d] = memory'[d]
  <2>1. d # c /\ d \in Contracts
    BY <1>1, <1>5, <1>6
  <2> QED
    BY <1>3, <2>1
<1>8. ASSUME NEW e \in Contracts \ {c}, memory[e] # NoAddress,
             NEW d \in DOMAIN chain'.refs[<<e, memory[e]>>] \ Doubles
      PROVE  chain'.refs[<<e, memory[e]>>][d] =
               IF e \in done THEN memory'[d] ELSE book[d]
  <2> DEFINE x == <<e, memory[e]>>
  <2>1. x \in Made /\ chain'.refs[x] = chain.refs[x]
    BY <1>1, <1>8, AddressMade, KnownRefs
  <2>2. chain.refs[x][d] = IF e \in done THEN memory[d] ELSE book[d]
    BY <1>8, <2>1 DEF MemorySound
  <2>3. PICK i \in DeploysIn(Script) :
          /\ Script[i].contract = e /\ DOMAIN chain.refs[x] = Script[i].refs
    <3>1. x[1] = e
      OBVIOUS
    <3> QED
      BY <2>1, <3>1, RefsOf
  <2>4. d \in Script[i].refs \ Doubles /\ d \in Contracts
    BY <1>8, <2>1, <2>3, ScriptContracts
  <2>5. CASE e \in done
    <3>1. PICK j \in DeploysIn(Script) : j < run.at /\ Script[j].contract = e
      BY <2>5, PlacedIs
    <3>2. Script[j].refs = Script[i].refs
      BY <2>3, <3>1, ScriptInOrder DEF InOrder, DeploysInOrder
    <3>3. d \in Placed(Script, j)
      BY <2>4, <3>2, ScriptInOrder DEF InOrder, DeploysInOrder
    <3>4. d \in done
      <4>1. PICK l \in DeploysIn(Script) : l < j /\ Script[l].contract = d
        BY <3>3, PlacedIs
      <4>2. l < run.at
        BY <1>1, <3>1, <4>1
      <4> QED
        BY <4>1, <4>2, PlacedIs
    <3>5. d # c
      BY <1>5, <2>4, <3>4
    <3> QED
      BY <1>3, <2>1, <2>2, <2>4, <2>5, <3>5
  <2> QED
    BY <2>1, <2>2, <2>5
<1>9. ASSUME NEW e \in Contracts, memory'[e] # NoAddress,
             NEW d \in DOMAIN chain'.refs[<<e, memory'[e]>>] \ Doubles
      PROVE  chain'.refs[<<e, memory'[e]>>][d] =
               IF e \in done \cup {c} THEN memory'[d] ELSE book[d]
  <2>1. CASE e = c
    <3>1. memory'[e] = k /\ d \in s.refs \ Doubles
      BY <1>1, <1>3, <1>9, <2>1
    <3> QED
      BY <1>7, <2>1, <3>1
  <2>2. CASE e # c
    <3>1. memory'[e] = memory[e]
      BY <1>3, <2>2
    <3> QED
      BY <1>8, <1>9, <2>2, <3>1
  <2> QED
    BY <2>1, <2>2
<1>10. ASSUME NEW e \in Contracts, memory'[e] # NoAddress,
             NEW d \in DOMAIN chain'.refs[<<e, memory'[e]>>] \ Doubles
       PROVE  chain'.refs[<<e, memory'[e]>>][d] =
                IF e \in Placed(Script', run'.at) THEN memory'[d] ELSE book'[d]
  <2>1. Placed(Script', run'.at) = done \cup {c} /\ book' = book
    BY <1>1, <1>2
  <2> HIDE DEF s, done
  <2>2. chain'.refs[<<e, memory'[e]>>][d] =
          IF e \in done \cup {c} THEN memory'[d] ELSE book[d]
    BY <1>9, <1>10
  <2> QED
    BY <2>1, <2>2
<1>11. \A e \in Contracts : IF e \in Placed(Script', run'.at) THEN memory'[e] # NoAddress
                                                              ELSE memory'[e] = book'[e]
  BY <1>1, <1>2, <1>3 DEF MemorySound
<1>12. ~(run'.at > Len(Script'))
  BY <1>1, <1>4
<1> HIDE DEF s, done
<1> QED
  BY <1>4, <1>10, <1>11, <1>12 DEF MemorySound

(* The addresses are saved.                                                *)
LEMMA MemorySaves ==
  ASSUME network \in Networks, ChainSound, MemorySound,
         UNCHANGED <<network, chain, memory>>, book' = memory,
         run.at \in DOMAIN Script, Script[run.at].do = "save", run'.at = run.at + 1
  PROVE  MemorySound' /\ Addressed(memory) /\ Consistent(memory)
<1> DEFINE done == Placed(Script, run.at)
<1>1. /\ Script' = Script /\ Made' = Made /\ Addressed(memory) /\ Addressed(memory)'
      /\ run.at \in Nat /\ DeploysIn(Script) \subseteq Nat
  BY ScriptInOrder DEF Script, Made, MemorySound, Addressed, DeploysIn
<1>2. Placed(Script, run'.at) = done
  BY PlacedNext
<1>3. ASSUME NEW c \in Contracts, memory[c] # NoAddress,
             NEW d \in DOMAIN chain.refs[<<c, memory[c]>>] \ Doubles
      PROVE  chain.refs[<<c, memory[c]>>][d] = memory[d]
  <2> DEFINE x == <<c, memory[c]>>
  <2>1. x \in Made /\ x[1] = c
    BY <1>1, <1>3, AddressMade
  <2>2. chain.refs[x][d] = IF c \in done THEN memory[d] ELSE book[d]
    BY <1>3 DEF MemorySound
  <2>3. PICK i \in DeploysIn(Script) :
          /\ Script[i].contract = c /\ DOMAIN chain.refs[x] = Script[i].refs
    BY <2>1, RefsOf
  <2>4. d \in Script[i].refs /\ d \in Contracts
    BY <1>3, <2>3, ScriptContracts
  <2>5. CASE c \in done
    BY <2>2, <2>5
  <2>6. CASE c \notin done
    <3>1. ~(i < run.at)
      BY <2>3, <2>6, PlacedIs
    <3>2. i # run.at
      BY DEF DeploysIn
    <3>3. i > run.at
      BY <1>1, <3>1, <3>2
    <3>4. d \notin done
      BY <2>4, <3>3, ScriptInOrder DEF InOrder, SavesInOrder
    <3> QED
      BY <2>2, <2>4, <2>6, <3>4 DEF MemorySound
  <2> QED
    BY <2>5, <2>6
<1>4. Consistent(memory)
  BY <1>3 DEF Consistent, Agrees, References
<1>5. \A c \in Contracts : IF c \in Placed(Script', run'.at) THEN memory'[c] # NoAddress
                                                       ELSE memory'[c] = book'[c]
  BY <1>1, <1>2 DEF MemorySound
<1>6. ASSUME NEW c \in Contracts, memory'[c] # NoAddress,
             NEW d \in DOMAIN chain'.refs[<<c, memory'[c]>>] \ Doubles
      PROVE  chain'.refs[<<c, memory'[c]>>][d] =
               IF c \in Placed(Script', run'.at) THEN memory'[d] ELSE book'[d]
  BY <1>3, <1>6
<1> HIDE DEF done
<1>7. MemorySound'
  BY <1>1, <1>5, <1>6 DEF MemorySound
<1> QED
  BY <1>1, <1>4, <1>7

-----------------------------------------------------------------------------
(* The process, step by step.                                              *)

(* What has been done stays done: nothing is deployed after the contracts  *)
(* have been told of each other.                                           *)
LEMMA AccomplishedStays ==
  ASSUME network \in Networks, ChainSound, Grown, MemorySound, run.at \in Nat,
         NEW i \in DOMAIN Script, i < run.at, Accomplished(Script[i]),
         memory' = memory \/ run.at \in DeploysIn(Script)
  PROVE  Accomplished(Script[i])'
<1> DEFINE s == Script[i]
<1>1. Script' = Script /\ InOrder(network, Script) /\ i \in Nat
  BY ScriptInOrder DEF Grown, Script
<1>2. CASE s.do \in Wiring
  <2>1. run.at \notin DeploysIn(Script)
    <3>1. \A j \in DeploysIn(Script) : j < i
      BY <1>1, <1>2, WiringLast
    <3> QED
      BY <1>1, <3>1
  <2>2. memory' = memory
    BY <2>1
  <2>3. /\ CurrentMargin \in Margins /\ CurrentMargin' = CurrentMargin
        /\ s.do \in {"operator", "special", "own"} => Instance(s.contract) \in Made
    BY <1>1, <1>2, <2>2, WiringMade DEF CurrentMargin
  <2>4. <<s.contract, memory'[s.contract]>> = Instance(s.contract)
    BY <2>2 DEF Instance
  <2>5. s.do = "own" => s.owner # "deployer"
    BY <1>1 DEF InOrder, WiresInOrder
  <2>6. s.do = "operator" =>
          <<s.contract, memory'[s.contract]>> \in chain'.operators[CurrentMargin']
    BY <2>3, <2>4 DEF Accomplished, Grown
  <2>7. s.do = "special" =>
          <<s.contract, memory'[s.contract]>> \in chain'.special[CurrentMargin']
    BY <2>3, <2>4 DEF Accomplished, Grown
  <2>8. s.do = "market" => s.token \in ToSet(chain'.markets[CurrentMargin'])
    BY <2>3 DEF Accomplished, Grown
  <2>9. s.do = "own" => chain'.owner[<<s.contract, memory'[s.contract]>>] = s.owner
    BY <2>3, <2>4, <2>5 DEF Accomplished, Grown
  <2>10. s.do # "check"
    BY <1>2 DEF Wiring
  <2> HIDE DEF s
  <2>11. Accomplished(s)' <=>
           /\ s'.do = "check" => s'.known
           /\ s'.do = "operator" =>
                <<s'.contract, memory'[s'.contract]>> \in chain'.operators[CurrentMargin']
           /\ s'.do = "special" =>
                <<s'.contract, memory'[s'.contract]>> \in chain'.special[CurrentMargin']
           /\ s'.do = "market" => s'.token \in ToSet(chain'.markets[CurrentMargin'])
           /\ s'.do = "own" =>
                chain'.owner[<<s'.contract, memory'[s'.contract]>>] = s'.owner
    BY DEF Accomplished, Instance
  <2>12. s' = s
    BY <1>1 DEF s
  <2>13. Accomplished(s)'
    BY <2>6, <2>7, <2>8, <2>9, <2>10, <2>11, <2>12
  <2> QED
    BY <2>13 DEF s
<1>3. CASE s.do \notin Wiring
  BY <1>1, <1>3 DEF Accomplished, Wiring
<1> QED
  BY <1>2, <1>3

(* The process goes on to the next step.                                   *)
LEMMA RunAdvances ==
  ASSUME network \in Networks, ChainSound, Grown, RunSound, Running,
         NEW at \in DOMAIN Script, at = run.at, Advance,
         memory' = memory \/ at \in DeploysIn(Script),
         MemorySound', StaysSaved', Accomplished(Script[at])'
  PROVE  RunSound'
<1>1. /\ Script' = Script /\ Len(Script) \in Nat /\ DOMAIN Script = 1..Len(Script)
      /\ run.at \in Nat /\ MemorySound
      /\ \A i \in 1..(run.at - 1) : Accomplished(Script[i])
  BY ScriptInOrder DEF Grown, Script, RunSound
<1>2. run = [at |-> run.at, count |-> run.count, overwrite |-> run.overwrite,
             fresh |-> run.fresh, failure |-> run.failure]
  BY DEF RunSound
<1>3. /\ run' = [at |-> run'.at, count |-> run'.count, overwrite |-> run'.overwrite,
                 fresh |-> run'.fresh, failure |-> run'.failure]
      /\ run'.at = run.at + 1 /\ run'.overwrite = run.overwrite
  BY <1>2 DEF Advance
<1>4. run'.at \in 0..(Len(Script) + 1) /\ run'.overwrite \in BOOLEAN
  BY <1>1, <1>3 DEF RunSound
<1>5. ASSUME NEW i \in 1..(run'.at - 1)
      PROVE  Accomplished(Script[i])'
  <2>1. i \in DOMAIN Script /\ (i < run.at \/ i = run.at)
    BY <1>1, <1>3
  <2>2. CASE i < run.at
    <3>1. Accomplished(Script[i])
      BY <1>1, <2>1, <2>2
    <3> QED
      BY <1>1, <2>1, <2>2, <3>1, AccomplishedStays
  <2>3. CASE i = run.at
    BY <2>3
  <2> QED
    BY <2>1, <2>2, <2>3
<1> QED
  BY <1>1, <1>3, <1>4, <1>5 DEF RunSound

(* The process ends.                                                       *)
LEMMA NotRunning ==
  ASSUME network \in Networks, network' = network, RunSound,
         run' = [at |-> run'.at, count |-> run'.count, overwrite |-> run'.overwrite,
                 fresh |-> run'.fresh, failure |-> run'.failure],
         run'.at = 0, run'.overwrite = run.overwrite
  PROVE  RunSound'
<1>1. Script' = Script /\ Len(Script) \in Nat
  BY ScriptInOrder DEF Script
<1>2. run'.at \in 0..(Len(Script') + 1)
  BY <1>1
<1>3. run'.overwrite \in BOOLEAN
  BY DEF RunSound
<1> QED
  BY <1>2, <1>3 DEF RunSound, Running

LEMMA RunEnds ==
  ASSUME network \in Networks, network' = network, RunSound,
         run' = [run EXCEPT !.at = 0] \/ \E why : run' = [run EXCEPT !.at = 0, !.failure = why]
  PROVE  RunSound'
<1>1. run = [at |-> run.at, count |-> run.count, overwrite |-> run.overwrite,
             fresh |-> run.fresh, failure |-> run.failure]
  BY DEF RunSound
<1>2. /\ run' = [at |-> run'.at, count |-> run'.count, overwrite |-> run'.overwrite,
                 fresh |-> run'.fresh, failure |-> run'.failure]
      /\ run'.at = 0 /\ run'.overwrite = run.overwrite
  <2>1. CASE run' = [run EXCEPT !.at = 0]
    BY <1>1, <2>1
  <2>2. CASE \E why : run' = [run EXCEPT !.at = 0, !.failure = why]
    BY <1>1, <2>2
  <2> QED
    BY <2>1, <2>2
<1> QED
  BY <1>2, NotRunning

(* A process begins with what has been saved.                              *)
LEMMA RunStarts ==
  ASSUME network \in Networks, ChainSound, RunSound, Addressed(book), Consistent(book),
         NEW overwrite \in BOOLEAN, Start(overwrite)
  PROVE  RunSound'
<1>1. /\ Script' = Script /\ Len(Script) \in Nat /\ DOMAIN Script = 1..Len(Script)
      /\ Len(Script) \in DOMAIN Script /\ Made' = Made
  BY ScriptInOrder DEF Start, Script, Made, InOrder, SavesInOrder
<1>2. /\ run' = [at |-> run'.at, count |-> run'.count, overwrite |-> run'.overwrite,
                 fresh |-> run'.fresh, failure |-> run'.failure]
      /\ run'.at = 1 /\ run'.overwrite \in BOOLEAN
      /\ memory' = book /\ UNCHANGED <<network, book, chain>>
  BY DEF Start
<1>3. Placed(Script', run'.at) = {}
  BY <1>1, <1>2, NothingPlaced
<1>4. MemorySound'
  <2>1. Addressed(memory)'
    BY <1>1, <1>2 DEF Addressed
  <2>2. ASSUME NEW c \in Contracts, memory'[c] # NoAddress,
               NEW d \in DOMAIN chain'.refs[<<c, memory'[c]>>] \ Doubles
        PROVE  chain'.refs[<<c, memory'[c]>>][d] =
                 IF c \in Placed(Script', run'.at) THEN memory'[d] ELSE book'[d]
    BY <1>2, <2>2 DEF Consistent, Agrees, References
  <2> QED
    BY <1>2, <1>3, <2>1, <2>2 DEF MemorySound
<1>5. StaysSaved'
  BY <1>2 DEF StaysSaved
<1>6. run'.at \in 0..(Len(Script') + 1)
  BY <1>1, <1>2
<1>7. 1..(run'.at - 1) = {}
  BY <1>2
<1> QED
  BY <1>2, <1>4, <1>5, <1>6, <1>7 DEF RunSound

(* Where nothing is deployed, what has been saved stays.                   *)
LEMMA SavedStay ==
  ASSUME network' = network, RunSound, Running, Advance, StaysSaved,
         UNCHANGED <<memory, book>> \/ (memory' = memory /\ book' = memory)
  PROVE  StaysSaved'
<1>1. Script' = Script
  BY DEF Script
<1>2. run'.overwrite = run.overwrite
  BY DEF RunSound, Advance
<1> QED
  BY <1>1, <1>2 DEF StaysSaved

(* A transaction lands and the process goes on.                            *)
LEMMA LandRuns ==
  ASSUME Sound, Land, NEW at, at = run.at
  PROVE  RunSound' /\ ChainSound' /\ Grown
<1> DEFINE s == Script[at]
<1>1. /\ network \in Networks /\ network' = network /\ ChainSound /\ RunSound /\ book' = book
      /\ Running /\ MemorySound /\ StaysSaved /\ Advance /\ ~Skips(Step) /\ ~Throws(Step)
      /\ ~Reverts(Step) /\ AtStep(Transactions) /\ chain' = Landed(Step)
  BY DEF Sound, Land, AtStep, RunSound
<1>2. /\ Step = s /\ at \in DOMAIN Script /\ s.do \in Transactions
      /\ run'.at = run.at + 1 /\ run'.overwrite = run.overwrite /\ Script' = Script
  BY <1>1, ScriptInOrder DEF AtStep, Step, Script, Running, RunSound, Advance
<1>3. /\ ChainSound' /\ Grown
      /\ s.do = "deploy" =>
           LET c == s.contract
               k == chain.made[c] + 1
           IN  /\ c \in Contracts /\ at \in DeploysIn(Script)
               /\ <<c, k>> \in Made' /\ <<c, k>> \notin Made
               /\ chain'.made = [chain.made EXCEPT ![c] = k]
               /\ chain'.refs[<<c, k>>] = [d \in s.refs |-> memory[d]]
      /\ s.do = "operator" => Instance(s.contract) \in chain'.operators[CurrentMargin]
      /\ s.do = "special" => Instance(s.contract) \in chain'.special[CurrentMargin]
      /\ s.do = "market" => s.token \in ToSet(chain'.markets[CurrentMargin])
      /\ s.do = "own" => chain'.owner[Instance(s.contract)] = s.owner
  BY <1>1, TransactionLands
<1>4. CASE s.do = "deploy"
  <2> DEFINE c == s.contract
             k == chain.made[c] + 1
  <2>1. /\ c \in Contracts /\ at \in DeploysIn(Script) /\ <<c, k>> \in Made'
        /\ chain'.made = [chain.made EXCEPT ![c] = k]
        /\ chain'.refs[<<c, k>>] = [d \in Script[at].refs |-> memory[d]]
    BY <1>3, <1>4
  <2>2. memory' = [memory EXCEPT ![c] = k]
    <3>1. chain'.made[c] = k
      BY <1>1, <2>1 DEF ChainSound
    <3> QED
      BY <1>2, <1>4, <3>1 DEF Land
  <2>3. MemorySound'
    BY <1>1, <1>2, <1>3, <2>1, <2>2, MemoryDeploys
  <2>4. StaysSaved'
    <3>1. \/ s.always \/ run.overwrite \/ network \in Dev \/ memory[c] = NoAddress
      BY <1>1, <1>2, <1>4 DEF Skips, ShouldOverwrite
    <3>2. ASSUME ~run.overwrite, network \notin Dev, NEW e \in Contracts,
                 book[e] # NoAddress,
                 \A i \in DeploysIn(Script) : Script[i].contract = e => ~Script[i].always
          PROVE  memory'[e] = book[e]
      <4>1. memory[e] = book[e]
        BY <1>1, <3>2 DEF StaysSaved
      <4>2. e # c
        BY <2>1, <3>1, <3>2, <4>1
      <4>3. memory \in [Contracts -> Nat]
        BY <1>1 DEF MemorySound, Addressed
      <4> QED
        BY <2>2, <4>1, <4>2, <4>3
    <3> QED
      BY <1>1, <1>2, <3>2 DEF StaysSaved
  <2>5. Accomplished(Script[at])'
    <3>1. Script'[at].do = "deploy"
      BY <1>2, <1>4
    <3> QED
      BY <3>1 DEF Accomplished
  <2> QED
    BY <1>1, <1>2, <1>3, <2>1, <2>3, <2>4, <2>5, RunAdvances
<1>5. CASE s.do # "deploy"
  <2>1. memory' = memory
    BY <1>2, <1>5 DEF Land
  <2>2. s.do \notin {"deploy", "save", "check"}
    BY <1>2, <1>5 DEF Transactions
  <2>3. MemorySound'
    BY <1>1, <1>2, <1>3, <2>1, <2>2, MemoryStays
  <2>4. StaysSaved'
    BY <1>1, <2>1, SavedStay
  <2>5. Accomplished(Script[at])'
    <3>1. /\ CurrentMargin' = CurrentMargin
          /\ <<s.contract, memory'[s.contract]>> = Instance(s.contract)
      BY <2>1 DEF CurrentMargin, Instance
    <3>2. Script'[at] = s
      BY <1>2
    <3> HIDE DEF s
    <3>3. Accomplished(Script[at])' <=>
            /\ Script'[at].do = "check" => Script'[at].known
            /\ Script'[at].do = "operator" =>
                 <<Script'[at].contract, memory'[Script'[at].contract]>>
                   \in chain'.operators[CurrentMargin']
            /\ Script'[at].do = "special" =>
                 <<Script'[at].contract, memory'[Script'[at].contract]>>
                   \in chain'.special[CurrentMargin']
            /\ Script'[at].do = "market" =>
                 Script'[at].token \in ToSet(chain'.markets[CurrentMargin'])
            /\ Script'[at].do = "own" =>
                 chain'.owner[<<Script'[at].contract, memory'[Script'[at].contract]>>]
                   = Script'[at].owner
      BY <2>2, <3>2 DEF Accomplished, Instance
    <3> QED
      BY <1>3, <2>2, <3>1, <3>2, <3>3
  <2> QED
    BY <1>1, <1>2, <1>3, <2>1, <2>3, <2>4, <2>5, RunAdvances
<1> QED
  BY <1>3, <1>4, <1>5

(* A contract is passed by, or a check passed.                             *)
LEMMA PassRuns ==
  ASSUME Sound, Pass, NEW at, at = run.at
  PROVE  RunSound'
<1> DEFINE s == Script[at]
<1>1. /\ network \in Networks /\ UNCHANGED <<network, chain, memory, book>>
      /\ ChainSound /\ RunSound /\ Addressed(book)
      /\ Running /\ MemorySound /\ StaysSaved /\ Advance /\ AtStep({"deploy", "check"})
      /\ Skips(Step) \/ (Step.do = "check" /\ Step.known)
  BY DEF Sound, Pass, AtStep, RunSound
<1>2. /\ Step = s /\ at \in DOMAIN Script /\ s.do \in {"deploy", "check"}
      /\ run'.at = run.at + 1 /\ run'.overwrite = run.overwrite /\ Script' = Script
  BY <1>1, ScriptInOrder DEF AtStep, Step, Script, Running, RunSound, Advance
<1>3. Grown /\ ChainSound'
  BY <1>1, SameGrown
<1>4. StaysSaved'
  BY <1>1, SavedStay
<1>5. CASE s.do = "deploy"
  <2>1. at \in DeploysIn(Script) /\ Skips(s)
    BY <1>1, <1>2, <1>5 DEF DeploysIn
  <2>2. MemorySound'
    BY <1>1, <1>2, <2>1, MemorySkips
  <2>3. Accomplished(Script[at])'
    <3>1. Script'[at].do = "deploy"
      BY <1>2, <1>5
    <3> QED
      BY <3>1 DEF Accomplished
  <2> QED
    BY <1>1, <1>2, <1>3, <1>4, <2>2, <2>3, RunAdvances
<1>6. CASE s.do = "check"
  <2>1. MemorySound'
    BY <1>1, <1>2, <1>3, <1>6, MemoryStays
  <2>2. Accomplished(Script[at])'
    <3>1. Script'[at].do = "check" /\ Script'[at].known
      BY <1>1, <1>2, <1>6 DEF Skips
    <3> QED
      BY <3>1 DEF Accomplished
  <2> QED
    BY <1>1, <1>2, <1>3, <1>4, <2>1, <2>2, RunAdvances
<1> QED
  BY <1>2, <1>5, <1>6

(* The call that is not waited for is sent.                                *)
LEMMA SendRuns ==
  ASSUME Sound, SendInitialize, NEW at, at = run.at
  PROVE  RunSound'
<1>1. /\ network \in Networks /\ UNCHANGED <<network, chain, memory, book>>
      /\ ChainSound /\ RunSound
      /\ Running /\ MemorySound /\ StaysSaved /\ Advance /\ AtStep({"initialize"})
  BY DEF Sound, SendInitialize, AtStep, RunSound
<1>2. /\ at \in DOMAIN Script /\ Script[at].do = "initialize"
      /\ run'.at = run.at + 1 /\ Script' = Script
  BY <1>1, ScriptInOrder DEF AtStep, Step, Script, Running, RunSound, Advance
<1>3. Grown /\ ChainSound'
  BY <1>1, SameGrown
<1>4. StaysSaved'
  BY <1>1, SavedStay
<1>5. MemorySound'
  BY <1>1, <1>2, <1>3, MemoryStays
<1>6. Accomplished(Script[at])'
  <2>1. Script'[at].do = "initialize"
    BY <1>2
  <2> QED
    BY <2>1 DEF Accomplished
<1> QED
  BY <1>1, <1>2, <1>3, <1>4, <1>5, <1>6, RunAdvances

(* A script ends and the addresses are saved: those of one deployment.     *)
LEMMA SaveRuns ==
  ASSUME Sound, Save, NEW at, at = run.at
  PROVE  /\ RunSound' /\ (Addressed(book) /\ Consistent(book))'
         /\ \A c \in Contracts : book[c] # NoAddress => book'[c] # NoAddress
<1>1. /\ network \in Networks /\ UNCHANGED <<network, chain, memory>> /\ book' = memory
      /\ ChainSound /\ RunSound
      /\ Running /\ MemorySound /\ StaysSaved /\ Advance /\ AtStep({"save"})
  BY DEF Sound, Save, AtStep, RunSound
<1>2. /\ at \in DOMAIN Script /\ Script[at].do = "save"
      /\ run'.at = run.at + 1 /\ Script' = Script
  BY <1>1, ScriptInOrder DEF AtStep, Step, Script, Running, RunSound, Advance
<1>3. Grown /\ ChainSound'
  BY <1>1, SameGrown
<1>4. StaysSaved'
  BY <1>1, SavedStay
<1>5. MemorySound' /\ Addressed(memory) /\ Consistent(memory)
  BY <1>1, <1>2, MemorySaves
<1>6. Accomplished(Script[at])'
  <2>1. Script'[at].do = "save"
    BY <1>2
  <2> QED
    BY <2>1 DEF Accomplished
<1>7. RunSound'
  BY <1>1, <1>2, <1>3, <1>4, <1>5, <1>6, RunAdvances
<1>8. (Addressed(book) /\ Consistent(book))'
  BY <1>1, <1>5 DEF Addressed, Consistent, Agrees, References
<1>9. \A c \in Contracts : book[c] # NoAddress => book'[c] # NoAddress
  BY <1>1 DEF MemorySound
<1> QED
  BY <1>7, <1>8, <1>9

-----------------------------------------------------------------------------
(* What is published stays finished.                                       *)

(* What a finished deployment is made of: the scripts deploy it.           *)
LEMMA FinishedIs ==
  ASSUME network \in Networks, ChainSound, NEW addresses, ReadSound(addresses),
         NEW c \in Contracts, addresses[c] # NoAddress
  PROVE  /\ Finished(addresses)
         /\ addresses["DolomiteMargin"] # NoAddress
         /\ addresses["DolomiteMargin"] \in Margins
         /\ \A o \in Owned : /\ o \in Contracts
                             /\ <<o, addresses[o]>> \in Made
                             /\ OwnerFor(o, network) # "deployer"
<1>1. Finished(addresses) /\ Addressed(addresses)
  BY DEF ReadSound
<1>2. /\ network \notin Dev
      /\ \A i \in DeploysIn(Script) : addresses[Script[i].contract] # NoAddress
      /\ \A i \in DOMAIN Script : Script[i].do = "check" => Script[i].known
  BY <1>1 DEF Finished
<1>3. InOrder(network, Script) /\ DOMAIN Script = 1..Len(Script) /\ Len(Script) \in Nat
  BY ScriptInOrder
<1>4. addresses["DolomiteMargin"] # NoAddress
  <2>1. PICK i \in DeploysIn(Script) : Script[i].contract = "DolomiteMargin"
    BY <1>3 DEF InOrder, DeploysInOrder
  <2> QED
    BY <1>2, <2>1
<1>5. addresses["DolomiteMargin"] \in Margins
  BY <1>1, <1>4, KnownContracts, AddressMade DEF Margins
<1>6. ASSUME NEW o \in Owned
      PROVE  /\ o \in Contracts
             /\ <<o, addresses[o]>> \in Made
             /\ OwnerFor(o, network) # "deployer"
  <2>1. PICK i \in DOMAIN Script : /\ Script[i].do = "own" /\ Script[i].contract = o
                                   /\ Script[i].owner = OwnerFor(o, network)
    BY <1>2, <1>3 DEF InOrder, WiresAll
  <2>2. o \in Placed(Script, i) /\ OwnerFor(o, network) # "deployer"
    BY <1>3, <2>1 DEF InOrder, WiresInOrder
  <2>3. PICK j \in DeploysIn(Script) : Script[j].contract = o
    BY <2>2, PlacedIs
  <2>4. o \in Contracts /\ addresses[o] # NoAddress
    BY <1>2, <2>3, ScriptContracts
  <2> QED
    BY <1>1, <2>2, <2>4, AddressMade
<1> QED
  BY <1>1, <1>4, <1>5, <1>6

(* Addresses the client reads go on being those of a finished deployment.  *)
LEMMA FinishedStays ==
  ASSUME network \in Networks, ChainSound, ChainSound', Grown, singles > 0 => singles' > 0,
         \A c \in Contracts : book[c] # NoAddress => book'[c] # NoAddress,
         NEW addresses, ReadSound(addresses),
         NEW known \in Contracts, addresses[known] # NoAddress
  PROVE  Finished(addresses)'
<1> DEFINE g == addresses["DolomiteMargin"]
<1>1. network' = network /\ Script' = Script
  BY DEF Grown, Script
<1>2. /\ Finished(addresses) /\ g \in Margins
      /\ \A c \in Owned : <<c, addresses[c]>> \in Made /\ OwnerFor(c, network) # "deployer"
  BY FinishedIs
<1>3. /\ IsWired(addresses, g) /\ chain.markets[g] = getTokens(network)
      /\ \A i \in DeploysIn(Script) : book[Script[i].contract] # NoAddress
  BY <1>2 DEF Finished
<1>4. /\ chain.operators[g] \subseteq chain'.operators[g]
      /\ chain.special[g] \subseteq chain'.special[g]
      /\ chain'.markets[g] = getTokens(network)
      /\ \A c \in Owned : chain'.owner[<<c, addresses[c]>>] = OwnerFor(c, network)
  BY <1>2, <1>3 DEF Grown, IsWired
<1>5. IsWired(addresses, g)'
  BY <1>1, <1>3, <1>4 DEF IsWired
<1>6. \A i \in DeploysIn(Script) : book'[Script[i].contract] # NoAddress
  BY <1>3, ScriptContracts
<1> QED
  BY <1>1, <1>2, <1>4, <1>5, <1>6 DEF Finished

LEMMA ReadStays ==
  ASSUME network \in Networks, ChainSound, ChainSound', Grown, singles > 0 => singles' > 0,
         \A c \in Contracts : book[c] # NoAddress => book'[c] # NoAddress,
         NEW addresses, ReadSound(addresses)
  PROVE  ReadSound(addresses)'
<1>1. Addressed(addresses)'
  BY AddressesStay DEF ReadSound, Addressed
<1>2. \A c \in Contracts : addresses[c] # NoAddress => Fits(c, addresses)'
  BY FitsStays DEF ReadSound
<1>3. (\E c \in Contracts : addresses[c] # NoAddress) => Finished(addresses)'
  BY FinishedStays
<1> QED
  BY <1>1, <1>2, <1>3 DEF ReadSound

LEMMA PublishedStays ==
  ASSUME network \in Networks, ChainSound, ChainSound', Grown, PublishedSound,
         UNCHANGED <<published, built, singles>>,
         \A c \in Contracts : book[c] # NoAddress => book'[c] # NoAddress
  PROVE  PublishedSound'
<1>1. network' = network /\ ReadSound(published)
  BY DEF Grown, PublishedSound
<1>2. ReadSound(published)'
  BY <1>1, ReadStays
<1>3. CASE network \notin Dev
  <2>1. ReadSound(built)'
    BY <1>3, ReadStays DEF PublishedSound
  <2> QED
    BY <1>1, <1>2, <1>3, <2>1 DEF PublishedSound
<1>4. CASE network \in Dev
  BY <1>1, <1>2, <1>4 DEF PublishedSound
<1> QED
  BY <1>3, <1>4

(* What has been sent and not waited for can still be done.                *)
LEMMA PendingStays ==
  ASSUME ChainSound, ChainSound', Grown, PendingSound, pending' \subseteq pending
  PROVE  PendingSound'
<1>1. ASSUME NEW proxy \in pending'
      PROVE  /\ proxy \in Made'
             /\ "DolomiteMargin" \in DOMAIN chain'.refs[proxy]
             /\ MarginOf(proxy)' \in Margins'
             /\ HasWrapped(proxy)'
  <2>1. /\ proxy \in Made /\ "DolomiteMargin" \in DOMAIN chain.refs[proxy]
        /\ MarginOf(proxy) \in Margins /\ HasWrapped(proxy)
    BY DEF PendingSound
  <2>2. proxy \in Made' /\ chain'.refs[proxy] = chain.refs[proxy] /\ network' = network
    BY <2>1 DEF Grown
  <2>3. MarginOf(proxy)' = MarginOf(proxy)
    BY <2>2 DEF MarginOf
  <2>4. /\ MarginOf(proxy) \in Margins'
        /\ ToSet(chain.markets[MarginOf(proxy)]) \subseteq ToSet(chain'.markets[MarginOf(proxy)])
    BY <2>1 DEF Grown
  <2> QED
    BY <2>1, <2>2, <2>3, <2>4 DEF HasWrapped
<1> QED
  BY <1>1 DEF PendingSound

(* The steps that leave what is saved and published alone.                 *)
LEMMA OthersStay ==
  ASSUME Sound, ChainSound', Grown, RunSound', UNCHANGED <<book, published, built, singles>>,
         pending' \subseteq pending
  PROVE  Sound'
<1>1. /\ network \in Networks /\ singles \in Nat /\ ChainSound /\ Addressed(book)
      /\ Consistent(book) /\ PublishedSound /\ PendingSound
  BY DEF Sound
<1>2. (Addressed(book) /\ Consistent(book))'
  BY <1>1, BookStays
<1>3. PublishedSound'
  BY <1>1, PublishedStays
<1>4. PendingSound'
  BY <1>1, PendingStays
<1>5. network' = network
  BY DEF Grown
<1> QED
  BY <1>1, <1>2, <1>3, <1>4, <1>5 DEF Sound

-----------------------------------------------------------------------------
(* Sending the call that is not waited for, and its landing.               *)
LEMMA SendPends ==
  ASSUME Sound, SendInitialize, NEW at, at = run.at
  PROVE  PendingSound'
<1> DEFINE d == "DepositWithdrawalProxy"
           x == Instance(d)
           margin == "DolomiteMargin"
<1>1. /\ network \in Networks /\ UNCHANGED <<network, chain, memory>>
      /\ ChainSound /\ PendingSound /\ MemorySound
      /\ \A i \in 1..(run.at - 1) : Accomplished(Script[i])
      /\ pending' = pending \cup {x}
  BY DEF Sound, SendInitialize, AtStep, RunSound
<1>2. at \in DOMAIN Script /\ Script[at].do = "initialize" /\ at \in Nat
  BY ScriptInOrder DEF Sound, SendInitialize, AtStep, Step, Script, Running, RunSound
<1>3. InOrder(network, Script)
  BY <1>1, ScriptInOrder
<1>4. PICK j \in DeploysIn(Script) : Script[j].contract = d /\ margin \in Script[j].refs
  BY <1>2, <1>3 DEF InOrder, WiresInOrder
<1>5. /\ d \in Contracts /\ d \in Placed(Script, at)
      /\ CurrentMargin \in Margins
  BY <1>1, <1>2, <1>4, WiringLast, WiringMade, ScriptContracts
<1>6. memory[d] # NoAddress /\ x \in Made
  <2>1. memory[d] # NoAddress
    BY <1>1, <1>5 DEF MemorySound
  <2> QED
    BY <1>1, <1>5, <2>1, AddressMade DEF MemorySound, Instance
<1>7. PICK i \in DeploysIn(Script) :
        Script[i].contract = d /\ DOMAIN chain.refs[x] = Script[i].refs
  <2>1. x[1] = d
    BY DEF Instance
  <2> QED
    BY <1>1, <1>6, <2>1, RefsOf
<1>8. margin \in DOMAIN chain.refs[x]
  BY <1>3, <1>4, <1>7 DEF InOrder, DeploysInOrder
<1>9. chain.refs[x][margin] = CurrentMargin
  <2>1. margin \notin Doubles
    BY DEF Doubles, ParaswapArtifacts, getParaswapAugustusRouter, getParaswapTransferProxy
  <2> QED
    BY <1>1, <1>5, <1>6, <1>8, <2>1 DEF MemorySound, Instance, CurrentMargin
<1>10. HasWrapped(x)
  <2>1. PICK k \in 1..(at - 1) :
          \/ Script[k].do = "check" /\ ~Script[k].known
          \/ /\ Script[k].do = "market"
             /\ Script[k].token = getWrappedCurrencyAddress(network)
    BY <1>2, <1>3 DEF InOrder, WiresInOrder
  <2>2. getWrappedCurrencyAddress(network) \in ToSet(chain.markets[CurrentMargin])
    BY <1>1, <2>1 DEF Accomplished
  <2> QED
    BY <1>9, <2>2 DEF HasWrapped, MarginOf
<1>11. ASSUME NEW proxy \in pending'
       PROVE  /\ proxy \in Made
              /\ margin \in DOMAIN chain.refs[proxy]
              /\ MarginOf(proxy) \in Margins
              /\ HasWrapped(proxy)
  BY <1>1, <1>5, <1>6, <1>8, <1>9, <1>10 DEF PendingSound, MarginOf
<1>12. Made' = Made /\ Margins' = Margins
  BY <1>1 DEF Made, Margins
<1> QED
  BY <1>1, <1>11, <1>12 DEF PendingSound, MarginOf, HasWrapped

(* The call that is not waited for lands, or not.                          *)
LEMMA ReadyLands ==
  ASSUME ChainSound, network' = network, NEW ready,
         chain' = chain \/ chain' = [chain EXCEPT !.ready = ready]
  PROVE  ChainSound' /\ Grown
<1>1. CASE chain' = chain
  BY <1>1, SameGrown
<1>2. CASE chain' = [chain EXCEPT !.ready = ready]
  <2>1. chain = [made |-> chain.made, refs |-> chain.refs, owner |-> chain.owner,
                 operators |-> chain.operators, special |-> chain.special,
                 markets |-> chain.markets, ready |-> chain.ready]
    BY DEF ChainSound
  <2>2. /\ chain'.made = chain.made /\ chain'.refs = chain.refs /\ chain'.owner = chain.owner
        /\ chain'.operators = chain.operators /\ chain'.special = chain.special
        /\ chain'.markets = chain.markets
        /\ chain' = [made |-> chain'.made, refs |-> chain'.refs, owner |-> chain'.owner,
                     operators |-> chain'.operators, special |-> chain'.special,
                     markets |-> chain'.markets, ready |-> chain'.ready]
    BY <1>2, <2>1
  <2>3. Made' = Made /\ Margins' = Margins /\ Script' = Script /\ FirstTokens' = FirstTokens
    BY <2>2 DEF Made, Margins, Script, FirstTokens
  <2>4. ChainSound'
    BY <2>2, <2>3 DEF ChainSound
  <2>5. Grown
    BY <2>2, <2>3 DEF Grown, ChainSound
  <2> QED
    BY <2>4, <2>5
<1> QED
  BY <1>1, <1>2

(* The process knows nothing of it.                                        *)
LEMMA RunStays ==
  ASSUME network \in Networks, ChainSound, ChainSound', Grown, RunSound,
         UNCHANGED <<run, memory, book>>
  PROVE  RunSound'
<1>1. /\ Script' = Script /\ Len(Script) \in Nat /\ DOMAIN Script = 1..Len(Script)
      /\ run.at \in Nat
  BY ScriptInOrder DEF Grown, Script, RunSound
<1>2. CASE Running
  <2>1. MemorySound /\ StaysSaved /\ \A i \in 1..(run.at - 1) : Accomplished(Script[i])
    BY <1>2 DEF RunSound
  <2>2. MemorySound'
    <3>1. Addressed(memory)'
      BY <2>1, AddressesStay DEF MemorySound, Addressed
    <3>2. \A c \in Contracts : memory[c] # NoAddress =>
            chain'.refs[<<c, memory[c]>>] = chain.refs[<<c, memory[c]>>]
      BY <2>1, AddressesStay DEF MemorySound
    <3> QED
      BY <1>1, <2>1, <3>1, <3>2 DEF MemorySound
  <2>3. StaysSaved'
    BY <1>1, <2>1 DEF StaysSaved, Grown
  <2>4. ASSUME NEW i \in 1..(run'.at - 1)
        PROVE  Accomplished(Script[i])'
    <3>1. i \in DOMAIN Script /\ i < run.at
      BY <1>1 DEF RunSound
    <3> QED
      BY <1>1, <2>1, <3>1, AccomplishedStays
  <2> QED
    BY <1>1, <2>2, <2>3, <2>4 DEF RunSound
<1>3. CASE ~Running
  BY <1>1, <1>3 DEF RunSound, Running
<1> QED
  BY <1>2, <1>3

-----------------------------------------------------------------------------
(* The last script has ended: everything is deployed, and told of the      *)
(* rest, and what is published is what has been saved.                     *)

(* The first tokens of getTokens, if they are all of them.                 *)
LEMMA WholeList ==
  ASSUME network \in Networks, NEW tokens \in FirstTokens,
         \A k \in DOMAIN getTokens(network) : getTokens(network)[k] \in ToSet(tokens)
  PROVE  tokens = getTokens(network)
<1> DEFINE all == getTokens(network)
<1>1. /\ all \in Seq(STRING)
      /\ \A i, j \in DOMAIN all : all[i] = all[j] => i = j
  BY ScriptInOrder DEF TokensInOrder
<1> HIDE DEF all
<1>2. PICK k \in 0..Len(all) : tokens = SubSeq(all, 1, k)
  BY DEF FirstTokens, all
<1>3. /\ Len(tokens) = k /\ DOMAIN tokens = 1..k /\ \A i \in 1..k : tokens[i] = all[i]
      /\ tokens \in Seq(STRING)
  BY <1>1, <1>2
<1>4. DOMAIN all = 1..Len(all) /\ Len(all) \in Nat
  BY <1>1
<1>5. CASE k = Len(all)
  BY <1>1, <1>3, <1>4, <1>5 DEF all
<1>6. CASE k # Len(all)
  <2> DEFINE n == Len(all)
  <2>1. n \in Nat /\ DOMAIN all = 1..n /\ k \in 0..n /\ k # n
    BY <1>2, <1>4, <1>6
  <2> HIDE DEF n
  <2>2. n \in DOMAIN all /\ k < n
    BY <2>1
  <2>3. all[n] \in ToSet(tokens)
    BY <2>2 DEF all
  <2>4. PICK i \in 1..k : tokens[i] = all[n]
    BY <1>3, <2>3 DEF ToSet
  <2>5. i \in DOMAIN all /\ all[i] = all[n] /\ i # n
    BY <1>3, <2>1, <2>2, <2>4
  <2> QED
    BY <1>1, <2>2, <2>5
<1> QED
  BY <1>5, <1>6

(* What is published is what has been saved, and is whole.                 *)
LEMMA PublishSounds ==
  ASSUME Sound, Publish
  PROVE  PublishedSound'
<1>1. /\ network \in Networks /\ UNCHANGED <<network, memory, book, built, chain, pending, singles>>
      /\ ChainSound /\ Addressed(book) /\ Consistent(book) /\ PublishedSound /\ Addressed(published)
      /\ MemorySound /\ \A i \in 1..(run.at - 1) : Accomplished(Script[i])
  BY DEF Sound, Publish, RunSound, PublishedSound, ReadSound
<1>2. /\ Script' = Script /\ InOrder(network, Script)
      /\ Len(Script) \in Nat /\ DOMAIN Script = 1..Len(Script)
  BY <1>1, ScriptInOrder DEF Script
<1>3. run.at = Len(Script) + 1 /\ memory = book
  BY <1>1, <1>2 DEF Sound, Publish, RunSound, MemorySound, Script
<1>4. \A i \in DOMAIN Script : Accomplished(Script[i])
  BY <1>1, <1>2, <1>3
<1>5. ChainSound' /\ Grown
  BY <1>1, SameGrown
<1>6. CASE network \in Dev
  <2>1. published' = [c \in Contracts |-> published[c]]
    BY <1>6 DEF Publish
  <2>2. published' = published
    BY <1>1, <2>1 DEF Addressed
  <2> QED
    BY <1>1, <1>5, <2>2, PublishedStays
<1>7. CASE network \notin Dev
  <2>1. \A i \in DeploysIn(Script) : book[Script[i].contract] # NoAddress
    <3>1. ASSUME NEW i \in DeploysIn(Script)
          PROVE  book[Script[i].contract] # NoAddress
      <4>1. i \in Nat /\ i < run.at
        BY <1>2, <1>3 DEF DeploysIn
      <4>2. Script[i].contract \in Placed(Script, run.at) /\ Script[i].contract \in Contracts
        BY <1>1, <4>1, PlacedIs
      <4> QED
        BY <1>1, <1>3, <4>2 DEF MemorySound
    <3> QED
      BY <3>1
  <2>2. published' = book
    <3>1. published' = [c \in Contracts |-> IF book[c] # NoAddress THEN book[c] ELSE published[c]]
      BY <1>7 DEF Publish
    <3>2. ASSUME NEW c \in Contracts, book[c] = NoAddress
          PROVE  published[c] = NoAddress
      <4>1. SUFFICES ASSUME published[c] # NoAddress PROVE FALSE
        OBVIOUS
      <4>2. <<c, published[c]>> \in Made /\ <<c, published[c]>>[1] = c
        BY <1>1, <4>1, AddressMade
      <4>3. PICK i \in DeploysIn(Script) : Script[i].contract = c
        BY <1>1, <4>2, RefsOf
      <4> QED
        BY <2>1, <3>2, <4>3
    <3>3. \A c \in Contracts : published'[c] = book[c]
      BY <3>1, <3>2
    <3>4. book = [c \in Contracts |-> book[c]]
      BY <1>1 DEF Addressed
    <3>5. published' = [c \in Contracts |-> published'[c]]
      BY <3>1
    <3> QED
      BY <3>3, <3>4, <3>5
  <2>3. /\ Addressed(published)'
        /\ \A c \in Contracts : published'[c] # NoAddress => Fits(c, published)'
    BY <1>1, <2>2 DEF Addressed, Consistent, Fits, Agrees, References
  <2>4. \A i \in DOMAIN Script : Script[i].do = "check" => Script[i].known
    BY <1>4 DEF Accomplished
  <2>5. /\ \A c \in ToSet(GlobalOperators) : Wires(Script, "operator", c)
        /\ Wires(Script, "special", "Expiry")
        /\ \A c \in Owned : \E i \in DOMAIN Script :
             /\ Script[i].do = "own" /\ Script[i].contract = c
             /\ Script[i].owner = OwnerFor(c, network)
        /\ \A k \in DOMAIN getTokens(network) :
             \E i \in DOMAIN Script :
               Script[i].do = "market" /\ Script[i].token = getTokens(network)[k]
    BY <1>2, <1>7, <2>4 DEF InOrder, WiresAll
  <2> DEFINE g == book["DolomiteMargin"]
  <2>6. CurrentMargin = g /\ \A c : Instance(c) = <<c, book[c]>>
    BY <1>3 DEF CurrentMargin, Instance
  <2>7. \A c \in ToSet(GlobalOperators) : <<c, book[c]>> \in chain.operators[g]
    BY <1>4, <2>5, <2>6 DEF Wires, Accomplished
  <2>8. <<"Expiry", book["Expiry"]>> \in chain.special[g]
    BY <1>4, <2>5, <2>6 DEF Wires, Accomplished
  <2>9. \A c \in Owned : chain.owner[<<c, book[c]>>] = OwnerFor(c, network)
    BY <1>4, <2>5, <2>6 DEF Accomplished
  <2>10. IsWired(published, published["DolomiteMargin"])'
    BY <1>1, <2>2, <2>7, <2>8, <2>9 DEF IsWired
  <2>11. chain.markets[g] = getTokens(network)
    <3>1. g \in Margins
      <4>1. PICK i \in DeploysIn(Script) : Script[i].contract = "DolomiteMargin"
        BY <1>2 DEF InOrder, DeploysInOrder
      <4>2. g # NoAddress
        BY <2>1, <4>1
      <4> QED
        BY <1>1, <4>2, KnownContracts, AddressMade DEF Margins
    <3>2. chain.markets[g] \in FirstTokens
      BY <3>1 DEF Sound, ChainSound
    <3>3. \A k \in DOMAIN getTokens(network) : getTokens(network)[k] \in ToSet(chain.markets[g])
      BY <1>4, <2>5, <2>6 DEF Accomplished
    <3> QED
      BY <1>1, <3>2, <3>3, WholeList
  <2>12. \A i \in DeploysIn(Script) : published'[Script[i].contract] # NoAddress
    BY <2>1, <2>2
  <2>13. (chain.markets[published["DolomiteMargin"]] = getTokens(network))'
    BY <1>1, <2>2, <2>11
  <2>14. ReadSound(published)'
    <3>1. Finished(published)'
      BY <1>1, <1>2, <1>7, <2>1, <2>4, <2>10, <2>12, <2>13 DEF Finished
    <3> QED
      BY <2>3, <3>1 DEF ReadSound
  <2>15. ReadSound(built)'
    BY <1>1, <1>5, <1>7, ReadStays DEF PublishedSound
  <2>16. \A c \in Contracts : built'[c] # NoAddress => published'[c] # NoAddress
    BY <1>1, <1>7 DEF Publish, PublishedSound
  <2> QED
    BY <1>1, <2>14, <2>15, <2>16 DEF PublishedSound
<1> QED
  BY <1>6, <1>7

-----------------------------------------------------------------------------
(* One contract deployed on its own, with the addresses the client has.    *)
LEMMA SingleLands ==
  ASSUME Sound, NEW verified \in BOOLEAN, DeployOne(verified),
         NEW refs, refs = {"Expiry", "MarginPositionRegistry", "DolomiteMargin"},
         NEW k, k = chain.made[SingleContract] + 1
  PROVE  /\ network \notin Dev /\ ReadSound(built)
         /\ \A d \in refs : d \in Contracts \ {SingleContract} /\ built[d] # NoAddress
         /\ ChainSound' /\ Grown
         /\ k \in Nat /\ k # NoAddress /\ chain'.made[SingleContract] = k
         /\ chain'.refs[<<SingleContract, k>>] = [d \in refs |-> built[d]]
         /\ \A i \in DeploysIn(Script) : SingleContract \notin Script[i].refs
<1>1. /\ network \in Networks /\ network \notin Dev /\ network' = network /\ ChainSound
      /\ ReadSound(built) /\ Addressed(built)
  BY DEF Sound, DeployOne, PublishedSound, ReadSound
<1>2. /\ \A d \in refs : built[d] # NoAddress
      /\ chain' = WithContract(chain, SingleContract, refs, built)
  BY DEF DeployOne
<1>3. DeploysInOrder(network, Script) /\ SingleContract \in Contracts
  BY <1>1, ScriptInOrder, KnownContracts DEF InOrder
<1>4. PICK i \in DeploysIn(Script) : Script[i].contract = SingleContract /\ Script[i].refs = refs
  BY <1>3 DEF DeploysInOrder
<1>5. /\ ChainSound' /\ Grown
      /\ chain'.made = [chain.made EXCEPT ![SingleContract] = k]
      /\ chain'.refs[<<SingleContract, k>>] = [d \in refs |-> built[d]]
  BY <1>1, <1>2, <1>4, DeployLands
<1>6. k \in Nat /\ k # NoAddress /\ chain'.made[SingleContract] = k
  BY <1>1, <1>3, <1>5 DEF ChainSound, NoAddress
<1>7. \A j \in DeploysIn(Script) : SingleContract \notin Script[j].refs
  BY <1>3, <1>4 DEF DeploysInOrder
<1>8. refs \subseteq Contracts \ {SingleContract}
  BY <1>1, <1>4, <1>7, ScriptContracts
<1> QED
  BY <1>1, <1>2, <1>5, <1>6, <1>7, <1>8

(* What the contracts it refers to refer to is what the client has.        *)
LEMMA SingleFits ==
  ASSUME Sound, NEW verified \in BOOLEAN, DeployOne(verified),
         NEW refs, refs = {"Expiry", "MarginPositionRegistry", "DolomiteMargin"},
         NEW k, k = chain.made[SingleContract] + 1, published'[SingleContract] = k
  PROVE  Fits(SingleContract, published)'
<1> DEFINE x == <<SingleContract, k>>
<1>1. /\ ReadSound(built) /\ Addressed(built) /\ ChainSound /\ ChainSound' /\ Grown
      /\ \A d \in refs : d \in Contracts \ {SingleContract} /\ built[d] # NoAddress
      /\ chain'.refs[x] = [d \in refs |-> built[d]]
  BY SingleLands DEF ReadSound, Sound
<1>2. \A d \in refs : /\ <<d, built[d]>> \in Made /\ <<d, built[d]>> \in Made'
                      /\ chain'.refs[<<d, built[d]>>] = chain.refs[<<d, built[d]>>]
  BY <1>1, AddressMade DEF Grown
<1>3. \A d \in refs : Agrees(d, built)
  BY <1>1 DEF ReadSound, Fits
<1>4. refs \cap Doubles = {}
  BY DEF Doubles, ParaswapArtifacts, getParaswapAugustusRouter, getParaswapTransferProxy
<1>5. \A d \in refs : \A e \in refs \cap DOMAIN chain'.refs[<<d, built[d]>>] :
        chain'.refs[<<d, built[d]>>][e] = built[e]
  BY <1>2, <1>3, <1>4 DEF Agrees, References
<1>6. singles' > 0
  BY DEF Sound, DeployOne
<1>7. DOMAIN chain'.refs[x] = refs /\ \A d \in refs : chain'.refs[x][d] = built[d]
  BY <1>1
<1>8. References(SingleContract, published)' = chain'.refs[x]
  BY DEF References
<1>9. OfOneDeployment(SingleContract, published)'
  <2> DEFINE r == chain'.refs[x]
  <2>1. \A d \in DOMAIN r : \A e \in DOMAIN r \cap DOMAIN chain'.refs[<<d, r[d]>>] :
          chain'.refs[<<d, r[d]>>][e] = r[e]
    BY <1>5, <1>7
  <2>2. References(SingleContract, published)' = r
    BY <1>8
  <2> HIDE DEF r
  <2> QED
    BY <2>1, <2>2 DEF OfOneDeployment, References
<1>10. \A d \in DOMAIN References(SingleContract, published)' :
         <<d, References(SingleContract, published)'[d]>> \in Made'
  BY <1>2, <1>7, <1>8
<1> QED
  BY <1>6, <1>9, <1>10 DEF Fits

LEMMA SingleRead ==
  ASSUME Sound, NEW verified \in BOOLEAN, DeployOne(verified), published' # published
  PROVE  ReadSound(published)'
<1> DEFINE g == SingleContract
           refs == {"Expiry", "MarginPositionRegistry", "DolomiteMargin"}
           k == chain.made[g] + 1
           margin == published["DolomiteMargin"]
<1>1. /\ network \in Networks /\ network' = network /\ book' = book /\ Script' = Script
      /\ ChainSound /\ PublishedSound /\ ReadSound(published) /\ Addressed(published)
      /\ singles \in Nat /\ singles' = singles + 1
  BY DEF Sound, DeployOne, PublishedSound, ReadSound, Script
<1>2. /\ network \notin Dev
      /\ \A d \in refs : d \in Contracts \ {g} /\ built[d] # NoAddress
      /\ ChainSound' /\ Grown
      /\ k \in Nat /\ k # NoAddress /\ chain'.made[g] = k
      /\ \A i \in DeploysIn(Script) : g \notin Script[i].refs
  BY SingleLands
<1>3. published' = [published EXCEPT ![g] = k]
  BY <1>2 DEF DeployOne
<1>4. /\ g \in Contracts /\ published' \in [Contracts -> Nat] /\ published'[g] = k
      /\ \A c \in Contracts \ {g} : published'[c] = published[c]
  BY <1>1, <1>2, <1>3, KnownContracts DEF Addressed
<1>5. Addressed(published)'
  <2>1. \A c \in Contracts : published[c] <= chain'.made[c]
    BY <1>1, <1>2, AddressesStay
  <2>2. \A c \in Contracts : published'[c] <= chain'.made[c]
    BY <1>2, <1>4, <2>1
  <2> QED
    BY <1>4, <2>2 DEF Addressed
<1>6. ASSUME NEW c \in Contracts \ {g}, published'[c] # NoAddress
      PROVE  Fits(c, published)'
  <2>1. published'[c] = published[c] /\ published[c] # NoAddress
    BY <1>4, <1>6
  <2>2. /\ <<c, published[c]>> \in Made
        /\ chain'.refs[<<c, published[c]>>] = chain.refs[<<c, published[c]>>]
    BY <1>1, <1>2, <2>1, AddressMade, AddressesStay
  <2>3. Agrees(c, published)
    BY <1>1, <2>1 DEF ReadSound, Fits
  <2>4. ASSUME NEW d \in DOMAIN chain.refs[<<c, published[c]>>] \ Doubles
        PROVE  chain.refs[<<c, published[c]>>][d] = published'[d]
    <3>1. PICK j \in DeploysIn(Script) : d \in Script[j].refs
      BY <1>1, <2>2, RefsOf
    <3>2. d \in Contracts \ {g}
      BY <1>1, <1>2, <3>1, ScriptContracts
    <3> QED
      BY <1>4, <2>3, <3>2 DEF Agrees, References
  <2>5. Agrees(c, published)'
    BY <2>1, <2>2, <2>4 DEF Agrees, References
  <2> QED
    BY <2>5 DEF Fits
<1>7. Fits(g, published)'
  BY <1>4, SingleFits
<1>8. Finished(published)'
  <2>1. "DolomiteMargin" \in Contracts \ {g} /\ margin # NoAddress
    BY <1>1, <1>2 DEF PublishedSound
  <2>2. /\ Finished(published) /\ margin \in Margins
        /\ \A c \in Owned : /\ c \in Contracts /\ <<c, published[c]>> \in Made
                            /\ OwnerFor(c, network) # "deployer"
    BY <1>1, <2>1, FinishedIs
  <2>3. /\ \A j \in DeploysIn(Script) : /\ published[Script[j].contract] # NoAddress
                                        /\ book[Script[j].contract] # NoAddress
        /\ \A j \in DOMAIN Script : Script[j].do = "check" => Script[j].known
        /\ IsWired(published, margin) /\ chain.markets[margin] = getTokens(network)
    BY <2>2 DEF Finished
  <2>4. /\ chain.operators[margin] \subseteq chain'.operators[margin]
        /\ chain.special[margin] \subseteq chain'.special[margin]
        /\ chain'.markets[margin] = getTokens(network)
        /\ \A c \in Owned : chain'.owner[<<c, published[c]>>] = OwnerFor(c, network)
    BY <1>2, <2>2, <2>3 DEF Grown, IsWired
  <2>5. published'["DolomiteMargin"] = margin /\ published'["Expiry"] = published["Expiry"]
    BY <1>2, <1>4
  <2>6. g \notin Owned
    BY DEF Owned, OwnedByMultisig, ToSet, SingleContract
  <2>7. \A c \in Owned : published'[c] = published[c]
    BY <1>4, <2>2, <2>6
  <2>8. singles' > 0
    BY <1>1
  <2>9. ASSUME NEW c \in ToSet(GlobalOperators)
        PROVE  \/ <<c, published'[c]>> \in chain'.operators[margin]
               \/ c = g /\ singles' > 0
    <3>1. CASE c = g
      BY <2>8, <3>1
    <3>2. CASE c # g
      <4>1. <<c, published[c]>> \in chain'.operators[margin] \/ c = SingleContract
        BY <2>3, <2>4 DEF IsWired
      <4>2. published'[c] = published[c]
        BY <1>3, <3>2
      <4> QED
        BY <3>2, <4>1, <4>2
    <3> QED
      BY <3>1, <3>2
  <2>10. <<"Expiry", published'["Expiry"]>> \in chain'.special[margin]
    BY <2>3, <2>4, <2>5 DEF IsWired
  <2>11. \A c \in Owned : chain'.owner[<<c, published'[c]>>] = OwnerFor(c, network')
    BY <1>1, <2>4, <2>7 DEF IsWired
  <2>12. IsWired(published, published["DolomiteMargin"])'
    BY <2>5, <2>9, <2>10, <2>11 DEF IsWired
  <2>13. \A j \in DeploysIn(Script') : /\ published'[Script'[j].contract] # NoAddress
                                       /\ book'[Script'[j].contract] # NoAddress
    BY <1>1, <1>2, <1>4, <2>3, ScriptContracts
  <2>14. (chain.markets[published["DolomiteMargin"]] = getTokens(network))'
    BY <1>1, <2>4, <2>5
  <2> QED
    BY <1>1, <1>2, <2>3, <2>12, <2>13, <2>14 DEF Finished
<1> QED
  BY <1>5, <1>6, <1>7, <1>8 DEF ReadSound

LEMMA DeployOneSounds ==
  ASSUME Sound, NEW verified \in BOOLEAN, DeployOne(verified)
  PROVE  Sound'
<1>1. /\ network \in Networks /\ singles \in Nat /\ singles' = singles + 1
      /\ UNCHANGED <<network, run, memory, book, built, pending>>
      /\ ChainSound /\ RunSound /\ Addressed(book) /\ Consistent(book)
      /\ PublishedSound /\ ReadSound(published) /\ PendingSound
  BY DEF Sound, DeployOne, PublishedSound
<1>2. /\ network \notin Dev /\ ReadSound(built) /\ ChainSound' /\ Grown
      /\ chain.made[SingleContract] + 1 # NoAddress
      /\ chain'.made[SingleContract] = chain.made[SingleContract] + 1
  BY SingleLands
<1>3. RunSound' /\ (Addressed(book) /\ Consistent(book))' /\ PendingSound'
  BY <1>1, <1>2, RunStays, BookStays, PendingStays
<1>4. singles' > 0
  BY <1>1
<1>5. ReadSound(built)'
  BY <1>1, <1>2, <1>4, ReadStays
<1>6. ReadSound(published)'
  <2>1. CASE published' = published
    BY <1>1, <1>2, <1>4, <2>1, ReadStays
  <2> QED
    BY <2>1, SingleRead
<1>7. \A c \in Contracts : built'[c] # NoAddress => published'[c] # NoAddress
  <2>1. \A c \in Contracts : built[c] # NoAddress => published[c] # NoAddress
    BY <1>1, <1>2 DEF PublishedSound
  <2>2. published \in [Contracts -> Nat]
    BY <1>1 DEF ReadSound, Addressed
  <2>3. \A c \in Contracts : published[c] # NoAddress => published'[c] # NoAddress
    BY <1>2, <2>2 DEF DeployOne
  <2> QED
    BY <1>1, <2>1, <2>3
<1>8. PublishedSound'
  BY <1>1, <1>5, <1>6, <1>7 DEF PublishedSound
<1> QED
  BY <1>1, <1>2, <1>3, <1>8 DEF Sound

(* The client is built.                                                    *)
LEMMA BuildSounds ==
  ASSUME Sound, Build
  PROVE  Sound'
<1>1. /\ network \in Networks /\ singles \in Nat
      /\ UNCHANGED <<network, run, memory, book, published, chain, pending, singles>>
      /\ ChainSound /\ RunSound /\ Addressed(book) /\ Consistent(book)
      /\ PublishedSound /\ ReadSound(published) /\ PendingSound
  BY DEF Sound, Build, PublishedSound
<1>2. ChainSound' /\ Grown
  BY <1>1, SameGrown
<1>3. RunSound' /\ (Addressed(book) /\ Consistent(book))' /\ PendingSound'
  BY <1>1, <1>2, RunStays, BookStays, PendingStays
<1>4. ReadSound(published)'
  BY <1>1, <1>2, ReadStays
<1>5. ASSUME network \notin Dev
      PROVE  /\ ReadSound(built)'
             /\ \A c \in Contracts : built'[c] # NoAddress => published'[c] # NoAddress
  <2>1. network \notin TestNetworkIds
    BY <1>5 DEF TestNetworkIds, Dev
  <2>2. built' = [c \in Contracts |-> published[c]]
    BY <2>1 DEF Build
  <2>3. built' = published'
    BY <1>1, <2>2 DEF ReadSound, Addressed
  <2>4. ReadSound(built)' <=> ReadSound(published)'
    BY <2>3 DEF ReadSound, Addressed, Fits, Finished, Agrees, References, OfOneDeployment, IsWired
  <2> QED
    BY <1>4, <2>3, <2>4
<1>6. PublishedSound'
  BY <1>1, <1>4, <1>5 DEF PublishedSound
<1> QED
  BY <1>1, <1>2, <1>3, <1>6 DEF Sound

-----------------------------------------------------------------------------
(* Sound is inductive.                                                     *)
LEMMA InitSound == Init => Sound
<1> SUFFICES ASSUME Init PROVE Sound
  OBVIOUS
<1>1. network \in Networks /\ singles \in Nat
  BY DEF Init
<1>2. /\ \A c \in Contracts : chain.made[c] = 0
      /\ chain.made = [c \in Contracts |-> 0]
      /\ chain.refs = <<>> /\ chain.owner = <<>> /\ chain.operators = <<>>
      /\ chain.special = <<>> /\ chain.markets = <<>>
      /\ chain = [made |-> chain.made, refs |-> chain.refs, owner |-> chain.owner,
                  operators |-> chain.operators, special |-> chain.special,
                  markets |-> chain.markets, ready |-> chain.ready]
  BY DEF Init, NoAddresses, NoAddress
<1>3. Made = {} /\ Margins = {}
  <2>1. Made = {}
    BY <1>2 DEF Made
  <2>2. Margins = {}
    BY <1>1, <1>2, KnownContracts DEF Margins
  <2> QED
    BY <2>1, <2>2
<1>4. ChainSound
  <2>1. <<>> \in [{} -> {"deployer", "multisig", "safe"}] /\ DOMAIN <<>> = {}
    OBVIOUS
  <2>2. \A S : <<>> \in Seq(S)
    OBVIOUS
  <2> QED
    BY <1>2, <1>3, <2>1, <2>2 DEF ChainSound
<1>5. RunSound
  BY <1>1, ScriptInOrder DEF Init, Idle, RunSound, Running
<1>6. /\ \A c \in Contracts : NoAddresses[c] = NoAddress
      /\ NoAddresses \in [Contracts -> Nat]
  BY DEF NoAddresses, NoAddress
<1>7. \A addresses : addresses = NoAddresses => Addressed(addresses)
  BY <1>2, <1>6 DEF NoAddress, Addressed
<1>8. Addressed(book) /\ Consistent(book)
  BY <1>6, <1>7 DEF Init, Consistent
<1>9. ReadSound(published) /\ ReadSound(built)
  BY <1>6, <1>7 DEF Init, ReadSound
<1>10. PublishedSound
  BY <1>6, <1>9 DEF Init, PublishedSound
<1>11. PendingSound
  BY DEF Init, PendingSound
<1> QED
  BY <1>1, <1>4, <1>5, <1>8, <1>10, <1>11 DEF Sound

LEMMA NextSound == Sound /\ [Next]_vars => Sound'
<1> SUFFICES ASSUME Sound, [Next]_vars PROVE Sound'
  OBVIOUS
<1>1. /\ network \in Networks /\ ChainSound /\ RunSound /\ Addressed(book) /\ Consistent(book)
      /\ PublishedSound /\ PendingSound /\ singles \in Nat
  BY DEF Sound
<1>2. ASSUME NEW overwrite \in BOOLEAN, Start(overwrite) PROVE Sound'
  <2>1. UNCHANGED <<network, book, published, built, chain, pending, singles>>
    BY <1>2 DEF Start
  <2> QED
    BY <1>1, <1>2, <2>1, RunStarts, SameGrown, OthersStay
<1>3. CASE Land
  <2>1. UNCHANGED <<book, published, built, pending, singles>>
    BY <1>3 DEF Land
  <2> QED
    BY <1>3, <2>1, LandRuns, OthersStay
<1>4. CASE Pass
  <2>1. UNCHANGED <<network, memory, book, published, built, chain, pending, singles>>
    BY <1>4 DEF Pass
  <2> QED
    BY <1>1, <1>4, <2>1, PassRuns, SameGrown, OthersStay
<1>5. CASE Throw
  <2>1. /\ UNCHANGED <<network, book, published, built, chain, pending, singles>>
        /\ \E why : run' = [run EXCEPT !.at = 0, !.failure = why]
    BY <1>5 DEF Throw, Abort
  <2> QED
    BY <1>1, <2>1, RunEnds, SameGrown, OthersStay
<1>6. CASE Revert
  <2>1. /\ UNCHANGED <<network, book, published, built, chain, pending, singles>>
        /\ \E why : run' = [run EXCEPT !.at = 0, !.failure = why]
    BY <1>6 DEF Revert, Abort
  <2> QED
    BY <1>1, <2>1, RunEnds, SameGrown, OthersStay
<1>7. ASSUME NEW landed \in BOOLEAN, Lose(landed) PROVE Sound'
  <2>1. /\ UNCHANGED <<network, book, published, built, pending, singles>>
        /\ \E why : run' = [run EXCEPT !.at = 0, !.failure = why]
        /\ chain' = IF landed THEN Landed(Step) ELSE chain
        /\ AtStep(Transactions) /\ ~Skips(Step) /\ ~Throws(Step) /\ ~Reverts(Step)
    BY <1>7 DEF Lose, Abort
  <2>2. RunSound'
    BY <1>1, <2>1, RunEnds
  <2>3. ChainSound' /\ Grown
    <3>1. CASE landed
      BY <1>1, <2>1, <3>1, TransactionLands
    <3>2. CASE ~landed
      BY <1>1, <2>1, <3>2, SameGrown
    <3> QED
      BY <3>1, <3>2
  <2> QED
    BY <2>1, <2>2, <2>3, OthersStay
<1>8. CASE SendInitialize
  <2>1. UNCHANGED <<network, memory, book, published, built, chain, singles>>
    BY <1>8 DEF SendInitialize
  <2>2. ChainSound' /\ Grown
    BY <1>1, <2>1, SameGrown
  <2>3. PublishedSound'
    BY <1>1, <2>1, <2>2, PublishedStays
  <2>4. (Addressed(book) /\ Consistent(book))'
    BY <1>1, <2>1, <2>2, BookStays
  <2> QED
    BY <1>1, <1>8, <2>1, <2>2, <2>3, <2>4, SendRuns, SendPends DEF Sound
<1>9. ASSUME NEW proxy \in pending, NEW lost \in BOOLEAN, Initialize(proxy, lost) PROVE Sound'
  <2>1. /\ UNCHANGED <<network, run, memory, book, published, built, singles>>
        /\ pending' \subseteq pending
        /\ chain' = chain \/ chain' = [chain EXCEPT !.ready = chain.ready \cup {proxy}]
    BY <1>9 DEF Initialize
  <2>2. ChainSound' /\ Grown
    BY <1>1, <2>1, ReadyLands
  <2> QED
    BY <1>1, <2>1, <2>2, RunStays, OthersStay
<1>10. CASE Save
  <2>1. UNCHANGED <<network, memory, published, built, chain, pending, singles>>
    BY <1>10 DEF Save
  <2>2. ChainSound' /\ Grown
    BY <1>1, <2>1, SameGrown
  <2>3. /\ RunSound' /\ (Addressed(book) /\ Consistent(book))'
        /\ \A c \in Contracts : book[c] # NoAddress => book'[c] # NoAddress
    BY <1>10, SaveRuns
  <2>4. PublishedSound' /\ PendingSound'
    BY <1>1, <2>1, <2>2, <2>3, PublishedStays, PendingStays
  <2> QED
    BY <1>1, <2>1, <2>2, <2>3, <2>4 DEF Sound
<1>11. CASE Publish
  <2>1. /\ UNCHANGED <<network, memory, book, built, chain, pending, singles>>
        /\ run' = [run EXCEPT !.at = 0]
    BY <1>11 DEF Publish
  <2>2. ChainSound' /\ Grown
    BY <1>1, <2>1, SameGrown
  <2>3. RunSound' /\ (Addressed(book) /\ Consistent(book))' /\ PendingSound'
    BY <1>1, <2>1, <2>2, RunEnds, BookStays, PendingStays
  <2> QED
    BY <1>1, <1>11, <2>1, <2>2, <2>3, PublishSounds DEF Sound
<1>12. ASSUME NEW verified \in BOOLEAN, DeployOne(verified) PROVE Sound'
  BY <1>12, DeployOneSounds
<1>13. CASE Build
  BY <1>13, BuildSounds
<1>14. CASE UNCHANGED vars
  <2>1. UNCHANGED <<network, run, memory, book, published, built, chain, pending, singles>>
    BY <1>14 DEF vars
  <2>2. ChainSound' /\ Grown
    BY <1>1, <2>1, SameGrown
  <2> QED
    BY <1>1, <2>1, <2>2, RunStays, OthersStay
<1> QED
  BY <1>2, <1>3, <1>4, <1>5, <1>6, <1>7, <1>8, <1>9, <1>10, <1>11, <1>12, <1>13, <1>14 DEF Next

(* What a process knows, what is saved, what is published, what the client *)
(* was built with and what is on the chain fit together in every state.    *)
THEOREM DeploymentIsSound == Spec => []Sound
  BY InitSound, NextSound, PTL DEF Spec

(* The addresses saved with the artifacts name one deployment, however     *)
(* many runs were cut short wherever; those of deployed.json too, but for  *)
(* the contract deployed on its own, which refers to contracts of one.     *)
THEOREM OneDeploymentAlways == Spec => []OneDeployment
<1>1. Sound => OneDeployment
  BY DEF Sound, PublishedSound, ReadSound, Fits, OneDeployment
<1> QED
  BY <1>1, DeploymentIsSound, PTL

(* What is published, and what a client was built with off the dev         *)
(* networks, is finished, and the call nobody waits for is never sent too  *)
(* early.                                                                  *)
THEOREM PublishedAlwaysComplete == Spec => []PublishedIsComplete
<1>1. ASSUME network \in Networks, ChainSound, NEW addresses, ReadSound(addresses)
      PROVE  IsComplete(addresses)
  <2> DEFINE g == addresses["DolomiteMargin"]
  <2>1. SUFFICES ASSUME g # NoAddress
                 PROVE  IsWired(addresses, g) /\ HasItsMarkets(g)
    BY DEF IsComplete
  <2>2. Finished(addresses)
    BY <1>1, <2>1, FinishedIs, KnownContracts
  <2>3. IsWired(addresses, g) /\ chain.markets[g] = getTokens(network)
    BY <2>2 DEF Finished
  <2>4. \A k \in DOMAIN getTokens(network) : MarketId[getTokens(network)[k]] = k - 1
    BY <1>1, <2>2, ScriptInOrder DEF Finished, InOrder, WiresAll
  <2> QED
    BY <2>3, <2>4 DEF HasItsMarkets
<1>2. ASSUME Sound PROVE PublishedIsComplete
  <2>1. network \in Networks /\ ChainSound /\ PublishedSound /\ PendingSound
    BY <1>2 DEF Sound
  <2>2. InitializeIsInOrder
    BY <2>1 DEF PendingSound, InitializeIsInOrder
  <2>3. IsComplete(published) /\ (network \notin Dev => IsComplete(built))
    BY <1>1, <2>1 DEF PublishedSound
  <2> QED
    BY <2>2, <2>3 DEF PublishedIsComplete
<1> QED
  BY <1>2, DeploymentIsSound, PTL
=============================================================================
