---------------------------- MODULE PredictChain ----------------------------
(***************************************************************************)
(* The chain as the keeper sees it: the quantity each position still holds *)
(* in DeepBook Predict (external code, modelled from how deepbook.go uses  *)
(* it) and the entry the registry holds for it (KeeperRegistry, seen as a  *)
(* write-once table).                                                      *)
(*                                                                         *)
(* Settle submits one programmable transaction block that redeems and then *)
(* records.  It commits as a whole or aborts without effect; either way it *)
(* consumes the version of the credential and of the gas coin it names, so *)
(* a block of the same keeper still pending can never execute after it.    *)
(***************************************************************************)
EXTENDS Positions

CONSTANTS
    Keepers,    \* addresses that submit settlements
    NoKeeper

ASSUME ChainAssumption == NoKeeper \notin Keepers

VARIABLES
    remaining,  \* quantity left in the predict manager
    recordedBy, \* settled_markets and range_settled_markets
    pending     \* blocks submitted whose fate the keeper does not know

chainVars == <<remaining, recordedBy, pending>>

PTB == [market : Markets, quantity : Nat, keeper : Keepers]

ChainTypeOK ==
    /\ remaining \in [Markets -> Nat]
    /\ recordedBy \in [Markets -> Keepers \cup {NoKeeper}]
    /\ pending \subseteq PTB

ChainInit ==
    /\ remaining = Minted
    /\ recordedBy = [m \in Markets |-> NoKeeper]
    /\ pending = {}

\* Slips in the contracts: no look at the quantity, no look at the registry.
VerdictAnyQuantity(m, q) == IF recordedBy[m] # NoKeeper THEN "already_settled" ELSE "ok"
VerdictUnrecorded(m, q) == IF q > remaining[m] THEN "already_redeemed" ELSE "ok"

\* Outcome of the block: step 2 aborts in decrease_position (code 1) when the
\* position holds less than asked, step 3 in the registry (code 0).
Verdict(m, q) ==
    IF q > remaining[m] THEN "already_redeemed"
    ELSE IF recordedBy[m] # NoKeeper THEN "already_settled"
    ELSE "ok"

ExecutePTB(m, q, k) ==
    /\ IF Verdict(m, q) = "ok"
       THEN /\ remaining' = [remaining EXCEPT ![m] = @ - q]
            /\ recordedBy' = [recordedBy EXCEPT ![m] = k]
       ELSE UNCHANGED <<remaining, recordedBy>>
    /\ pending' = {p \in pending : p.keeper # k}

SubmitUnanswered(m, q, k) ==
    /\ pending' = pending \cup {[market |-> m, quantity |-> q, keeper |-> k]}
    /\ UNCHANGED <<remaining, recordedBy>>

PendingDropped(p) ==
    /\ pending' = pending \ {p}
    /\ UNCHANGED <<remaining, recordedBy>>

\* The owner of the position redeems q of it without a keeper.
OwnerRedeems(m, q) ==
    /\ q \in 1..remaining[m]
    /\ remaining' = [remaining EXCEPT ![m] = @ - q]
    /\ UNCHANGED <<recordedBy, pending>>
=============================================================================
