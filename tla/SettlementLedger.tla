-------------------------- MODULE SettlementLedger --------------------------
(***************************************************************************)
(* What the keeper network promises the owners of expired positions, seen  *)
(* from the chain only: a settlement is credited to at most one keeper per *)
(* position, and only by a step that redeems a part of that position.      *)
(* Owners may also redeem by themselves, which credits nobody.             *)
(***************************************************************************)
EXTENDS Naturals

CONSTANTS Markets, Keepers, NoKeeper, Minted

VARIABLES
    remaining,  \* quantity of each position still to be redeemed
    recordedBy  \* keeper credited with the settlement

vars == <<remaining, recordedBy>>

Init ==
    /\ remaining = Minted
    /\ recordedBy = [m \in Markets |-> NoKeeper]

Redeem(m) == \E q \in 1..remaining[m] : remaining' = [remaining EXCEPT ![m] = @ - q]

KeeperSettles(m, k) ==
    /\ Redeem(m)
    /\ recordedBy[m] = NoKeeper
    /\ recordedBy' = [recordedBy EXCEPT ![m] = k]

OwnerRedeems(m) == Redeem(m) /\ UNCHANGED recordedBy

Next == \E m \in Markets : OwnerRedeems(m) \/ \E k \in Keepers : KeeperSettles(m, k)

Spec == Init /\ [][Next]_vars

\* In particular the credits form a write-once table.
Credits == INSTANCE WriteOnceTable WITH Keys <- Markets, table <- recordedBy
=============================================================================
