---------------------------- MODULE MarketStore -----------------------------
(***************************************************************************)
(* The `markets` table of internal/store/store.go: one row per position a  *)
(* keeper has tried to settle.  Several keeper processes share it.  Each   *)
(* operation is one SQL statement, hence one atomic step.                  *)
(***************************************************************************)
EXTENDS Positions

VARIABLES
    status,     \* markets.status, "absent" when there is no row
    txHash,     \* markets.tx_hash
    stale       \* updated_at is older than staleClaimTimeout

storeVars == <<status, txHash, stale>>

Statuses == {"absent", "in_flight", "failed", "settled"}
Hashes == {"null", "digest", "external", "already_redeemed", "out_of_range"}

StoreTypeOK ==
    /\ status \in [Markets -> Statuses]
    /\ txHash \in [Markets -> Hashes]
    /\ stale \in [Markets -> BOOLEAN]

StoreInit ==
    /\ status = [m \in Markets |-> "absent"]
    /\ txHash = [m \in Markets |-> "null"]
    /\ stale = [m \in Markets |-> FALSE]

\* A slip in the listing queries: failed rows are left out too.
RedeemableOnce(m) == status[m] = "absent"

\* What ListRedeemablePositions and ListRedeemableRangePositions leave in.
Redeemable(m) == status[m] \notin {"settled", "in_flight"}

IsSettled(m) == status[m] = "settled"

\* Slips in the condition of MarkInFlight: a claim of another worker is taken over;
\* a settled row is claimed again.
ClaimableInFlight(m) == status[m] # "settled"
ClaimableSettled(m) == status[m] # "in_flight"

\* MarkInFlight affects a row, and the claim is won, only from these states.
Claimable(m) == status[m] \in {"absent", "failed"}

MarkInFlight(m) ==
    /\ status' = [status EXCEPT ![m] = "in_flight"]
    /\ stale' = [stale EXCEPT ![m] = FALSE]
    /\ UNCHANGED txHash

\* MarkSettled and MarkFailed update the row whatever its status.
MarkSettled(m, hash) ==
    /\ status' = [status EXCEPT ![m] = "settled"]
    /\ txHash' = [txHash EXCEPT ![m] = hash]
    /\ stale' = [stale EXCEPT ![m] = FALSE]

MarkFailed(m) ==
    /\ status' = [status EXCEPT ![m] = "failed"]
    /\ stale' = [stale EXCEPT ![m] = FALSE]
    /\ UNCHANGED txHash

\* INSERT ... ON CONFLICT DO NOTHING.
MarkSkipped(m, reason) ==
    IF status[m] = "absent" THEN MarkSettled(m, reason) ELSE UNCHANGED storeVars

StaleClaims == {m \in Markets : status[m] = "in_flight" /\ stale[m]}

ReclaimStale ==
    /\ status' = [m \in Markets |-> IF m \in StaleClaims THEN "failed" ELSE status[m]]
    /\ stale' = [m \in Markets |-> stale[m] /\ m \notin StaleClaims]
    /\ UNCHANGED txHash

\* Time passes without an update of the row.
ClaimExpires(m) ==
    /\ status[m] = "in_flight"
    /\ ~stale[m]
    /\ stale' = [stale EXCEPT ![m] = TRUE]
    /\ UNCHANGED <<status, txHash>>
=============================================================================
