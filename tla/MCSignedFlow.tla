---------------------------- MODULE MCSignedFlow ----------------------------
(***************************************************************************)
(* An owner, one that trusts it, and a relayer; operations of the shapes   *)
(* that the hash depends on: an action without an amount, an amount of     *)
(* zero taken out, a trade with a second account, a transfer between two   *)
(* owners that a third one signs.                                          *)
(***************************************************************************)
EXTENDS SignedFlowInvariant

Acc(o, n) == [owner |-> o, number |-> n]
Of(v)     == [value |-> Int_(v), denomination |-> "Wei", reference |-> "Delta"]
ZeroOut   == [value |-> Negated(Int_(0)), denomination |-> "Wei", reference |-> "Delta"]

Call(o) == [method |-> "call", primary |-> Acc(o, 0), callee |-> "callee", data |-> <<"x">>]
Take(o) == [method |-> "withdraw", primary |-> Acc(o, 1), marketId |-> 1, to |-> o,
            amount |-> ZeroOut]
Give(o, p) ==
  [method |-> "transfer", primary |-> Acc(o, 0), toAccount |-> Acc(p, 1), marketId |-> 0,
   amount |-> Of(-2)]
Swap(o, p) ==
  [method |-> "trade", primary |-> Acc(o, 0), otherAccount |-> Acc(p, 0),
   autoTrader |-> "trader", inputMarketId |-> 0, outputMarketId |-> 1,
   amount |-> Of(2), data |-> <<>>]

MCWallet == [alice |-> [prefix |-> "DECIMAL", low |-> TRUE],
             carol |-> [prefix |-> "DECIMAL", low |-> FALSE],
             bob   |-> [prefix |-> "NO_PREPEND", low |-> FALSE]]
MCProxy  == [n \in Networks |-> "proxy"]
MCLocalOperators == {<<"carol", "alice">>}
NoOrders == <<>>

Header(expiration, sender, signer) ==
  [expiration |-> expiration, salt |-> 0, sender |-> sender, signer |-> signer]
Offer(draft, header) == [draft |-> draft, header |-> header]

(* A transfer lists the receiver's account first, so that the signer must  *)
(* be named; here it is an operator that the giver trusts.                 *)
MCOffers ==
  {Offer(<<Take("alice"), Swap("alice", "bob")>>, Header(1, ZERO, ZERO)),
   Offer(<<Give("carol", "bob")>>, Header(0, "bob", "alice"))}
MCOwnItems == [bob |-> {Call("bob")}]
=============================================================================
