--------------------------- MODULE ExpiryInvariant ---------------------------
(***************************************************************************)
(* What has to be true at every step of an operation beside Expiry, next   *)
(* to Inductive and Authorized, for its changes to be due: what an expiry  *)
(* may have become since the operation began, and which reasons are left   *)
(* for a change when being an operator of all is none.                     *)
(***************************************************************************)
EXTENDS Expiry, PermissionInvariant

(* The types of Expiry's storage, of its answer and of what is saved.      *)
StorageType ==
  [expiries : [Accounts -> [Markets -> 0..Max32]],
   approvedSender : [Addresses \X Addresses -> Nat], rampTime : Nat]

ExpiryTypeOK ==
  /\ Storage \in StorageType
  /\ quote \in [given : BOOLEAN, answer : AssetAmount]
  /\ undo \in Seq(StorageType)
  /\ Len(undo) = Len(frames)

(* Interest has only been added to the indexes, so that a balance is worth *)
(* at least what it says.                                                  *)
Accrued(indexes) ==
  \A m \in Markets : indexes[m].borrow >= Base /\ indexes[m].supply >= Base

-----------------------------------------------------------------------------
(* A reason to change the balances of account a, as Reason, but a trade    *)
(* through Expiry is one only if a debt was due.                           *)
DueReason(f, a) ==
  \/ ActedFor(f, a) /\ Trusts(f, a, f.sender)
  \/ TradedByExpiry(f, a)
  \/ TradedElsewhere(f, a)
  \/ Undercollateralized(f, a)
  \/ VaporizedBy(f, a)

(* The auto trader of a trade that waits is Expiry.                        *)
AsksExpiry == InExpiry /\ Act.type = "Trade"

DuePermitted ==
  /\ \A a \in Accounts :
       /\ ledger.par[a] # Top.saved.ledger.par[a] => DueReason(Top, a)
       /\ status[a] = "Liquid"
            => Top.saved.status[a] = "Liquid" \/ DueReason(Top, a)
       /\ status[a] = "Vapor"
            => OwesOnly(Top.saved.ledger, a) \/ DueReason(Top, a)
  /\ Top.waiting => DueReason(Top, Acct)
  /\ Top.waiting /\ Act.type \in {"Trade", "Liquidate", "Vaporize"}
       => DueReason(Top, Othr) \/ AsksExpiry

(* An expiry that an operation has set is in the future, and time stands   *)
(* still while it runs: one that has passed was there when it began.       *)
ExpiriesKept ==
  \A a \in Accounts, m \in Markets :
    \/ expiries[a][m] \in {0, undo[Len(undo)].expiries[a][m]}
    \/ expiries[a][m] > now

(* What Expiry has answered is nothing, or its debt was due.               *)
QuoteSound ==
  /\ quote.given => AsksExpiry
  /\ AsksExpiry => Top.sender \in GlobalOperators
  /\ quote.given => IF Top.call.wei = 0 THEN quote.answer = NoAmount
                    ELSE DueReason(Top, Othr)

-----------------------------------------------------------------------------
(* Together with Inductive and Authorized this is kept by every step.      *)
Due ==
  /\ ExpiryTypeOK
  /\ Accrued(index)
  /\ frames = <<>> => ~quote.given
  /\ frames # <<>> =>
       /\ Accrued(Top.saved.index)
       /\ ExpiriesKept
       /\ QuoteSound
       /\ DuePermitted

(* What Expiry has answered to a trade of tokens, and the expiry that it   *)
(* has cleared, still fit the balances when DolomiteMargin books it.       *)
Answered ==
  quote.given /\ Top.call.wei # 0 =>
    LET input  == Act.primaryMarket
        output == Act.secondaryMarket
        answer == quote.answer.value
        left   == GetWei(ledger, Othr, output, IndexOf(output)) + answer
    IN  /\ quote.answer = [denomination |-> "Wei", ref |-> "Delta", value |-> answer]
        /\ answer \in Int
        /\ IF Top.call.wei > 0
           THEN /\ Top.call.par <= 0 /\ answer <= 0 /\ left >= 0
                /\ expiries[Othr][input] = 0 <=> Top.call.par = 0
           ELSE /\ Top.call.par >= 0 /\ answer >= 0 /\ left <= 0
                /\ expiries[Othr][output] = 0 <=> left = 0
=============================================================================
