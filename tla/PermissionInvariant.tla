------------------------- MODULE PermissionInvariant -------------------------
(***************************************************************************)
(* What has to be true at every step of an operation, beside Inductive,    *)
(* for its changes to be permitted: whose balances it has changed so far,  *)
(* which accounts it has flagged, and what it waits for.                   *)
(***************************************************************************)
EXTENDS OperationInvariant

OwesOnly(L, a) == \A m \in Markets : L.par[a][m] <= 0

-----------------------------------------------------------------------------
(* A reason, told from the frame alone, to change the balances of account  *)
(* a: as MayChange, but with the collateral valued over the cache.         *)
Undercollateralized(f, a) ==
  /\ Secondary(f, a, "Liquidate")
  /\ f.sender \in GlobalOperators
  /\ \/ f.saved.status[a] = "Liquid"
     \/ ~IsCollateralized(f.saved.ledger, a, f.cache)

Reason(f, a) ==
  \/ ActedFor(f, a) /\ Trusts(f, a, f.sender)
  \/ TradedBy(f, a)
  \/ Undercollateralized(f, a)
  \/ VaporizedBy(f, a)

(* The accounts whose balances the action that waits is about to change.   *)
Awaiting ==
  {Acct} \cup (IF Act.type \in {"Trade", "Liquidate", "Vaporize"}
               THEN {Othr} ELSE {})

(* A changed balance has a reason, and so has a flag that would be taken   *)
(* for one; what waits for an external call has its reason already.        *)
Permitted ==
  /\ operators \subseteq Top.trusted
  /\ \A a \in Accounts :
       /\ ledger.par[a] # Top.saved.ledger.par[a] => Reason(Top, a)
       /\ status[a] = "Liquid"
            => Top.saved.status[a] = "Liquid" \/ Reason(Top, a)
       /\ status[a] = "Vapor"
            => OwesOnly(Top.saved.ledger, a) \/ Reason(Top, a)
  /\ Top.waiting => \A a \in Awaiting : Reason(Top, a)

-----------------------------------------------------------------------------
(* A flagged account owes only, or will lose its flag when the operation   *)
(* ends.                                                                   *)
VaporSound(L, flags, except) ==
  \A a \in Accounts \ except : flags[a] = "Vapor" => OwesOnly(L, a)

(* The repayment of a vaporized debt that was captured before the external *)
(* call leaves no supply behind, whichever of the two ways it is booked.   *)
RepaymentSound ==
  LET owed == Act.primaryMarket
  IN  IF Top.call.bounded
      THEN WeiToPar(GetWei(ledger, Othr, owed, IndexOf(owed)) + Top.call.wei,
                    IndexOf(owed)) <= 0
      ELSE Top.call.par <= 0

(* What a liquidation exchanges, captured before the callback of the       *)
(* account, is still what it would be.                                     *)
LiquidationSound ==
  LET owed    == Act.primaryMarket
      held    == Act.secondaryMarket
      maxHeld == GetWei(ledger, Othr, held, IndexOf(held))
      repaid  == GetNewParAndDeltaWeiForLiquidation(ledger, Othr, owed,
                   IndexOf(owed), Act.amount)
  IN  /\ maxHeld >= 0
      /\ repaid.allowed
      /\ Top.call = Exchanged(repaid, held, owed, maxHeld)

CallSound ==
  /\ Act.type \in {"Buy", "Sell", "Trade"}
       => Top.call.par = CapturedBy(Top).par /\ Top.call.wei = CapturedBy(Top).wei
  /\ Act.type = "Liquidate" => status[Othr] = "Liquid" /\ LiquidationSound
  /\ Act.type = "Vaporize" => RepaymentSound

-----------------------------------------------------------------------------
(* Together with Inductive this is kept by every step.                     *)
Authorized ==
  /\ frames = <<>> => VaporSound(ledger, status, {})
  /\ frames # <<>> =>
       /\ VaporSound(ledger, status, PrimaryAccounts)
       /\ VaporSound(Top.saved.ledger, Top.saved.status, {})
       /\ Top.waiting => CallSound
       /\ Permitted
=============================================================================
