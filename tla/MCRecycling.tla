---------------------------- MODULE MCRecycling ----------------------------
(***************************************************************************)
(* Small instances of Recycling for TLC. Proxies r1, r2, ... of successive *)
(* generations: the first ones expire early, the later ones are listed     *)
(* when their ids are free again.                                          *)
(***************************************************************************)
EXTENDS Recycling

Early == {"r1", "r2"}
Late  == {"r3", "r4"}

TwoProxies  == {"r1", "r3"}
FourProxies == Early \cup Late
SixProxies  == FourProxies \cup {"r5", "r6"}

PlainAndTwo  == TwoProxies \cup {"weth", "dai"}
NativeAndSix == SixProxies \cup {"weth"}

EarlyAndLate(proxies) ==
  [t \in proxies |-> IF t \in Early THEN 0 ELSE IF t \in Late THEN 2 ELSE 4]
TwoExpirations  == EarlyAndLate(TwoProxies)
SixExpirations  == EarlyAndLate(SixProxies)
=============================================================================
