---------------------------- MODULE ClaimTiming -----------------------------
(***************************************************************************)
(* How old a claim can get while its worker is alive.  The workers of one  *)
(* process claim a market each, precheck it, wait for the mutex, execute   *)
(* the block and report; the reapers of all processes take every claim     *)
(* older than staleClaimTimeout.  Only time matters here: what Settle      *)
(* computes is in Settler, where a claim may expire at any moment          *)
(* (LiveClaimExpires).                                                     *)
(*                                                                         *)
(* Time passes in units.  The precheck and the calls under the mutex run   *)
(* with a deadline, and the clock waits for a call whose deadline has      *)
(* come.  MarkInFlight, MarkSettled and MarkFailed run under the context   *)
(* of the process, without one: the time a claim spends in them is kept    *)
(* apart (stalled) and bounded for the exploration only.  Between calls a  *)
(* worker takes no time.                                                   *)
(***************************************************************************)
EXTENDS Integers, Sequences, FiniteSets

CONSTANTS
    Workers,        \* goroutines of one process
    NoWorker,
    PrecheckLimit,  \* context.WithTimeout of onChainQty and onChainRangeQty
    SettleLimit,    \* context.WithTimeout of Settle, taken under the mutex
    StaleAfter,     \* staleClaimTimeout, the age from which the reaper takes a claim
    MaxStalled      \* bound of the exploration: time a claim spends in the database

ASSUME TimingAssumption ==
    /\ NoWorker \notin Workers
    /\ IsFiniteSet(Workers)
    /\ {PrecheckLimit, SettleLimit, StaleAfter, MaxStalled} \subseteq Nat

VARIABLES
    phase,      \* what each worker does
    worked,     \* age of its claim, but for the time in the database
    stalled,    \* age of its claim, the time in the database
    spent,      \* time since the current call with a deadline began
    holder,     \* owner of settleMu
    waiting,    \* goroutines parked on settleMu
    starving,   \* settleMu is in starvation mode
    lost        \* workers whose claim was reclaimed while they work

vars == <<phase, worked, stalled, spent, holder, waiting, starving, lost>>

Phases == {"idle", "claim", "precheck", "waiting", "settle", "report"}

\* Calls with a deadline, and calls without.
Limited == {"precheck", "settle"}
Unlimited == {"claim", "report"}

\* Every variable has its type, and the clocks stay below their deadlines.
TypeOK ==
    /\ phase \in [Workers -> Phases]
    /\ worked \in [Workers -> Nat]
    /\ stalled \in [Workers -> 0..MaxStalled]
    /\ spent \in [Workers -> Nat]
    /\ holder \in Workers \cup {NoWorker}
    /\ waiting \in Seq(Workers)
    /\ starving \in BOOLEAN
    /\ lost \subseteq Workers
    /\ \A w \in Workers : phase[w] = "precheck" => spent[w] <= PrecheckLimit
    /\ \A w \in Workers : phase[w] = "settle" => spent[w] <= SettleLimit

Init ==
    /\ phase = [w \in Workers |-> "idle"]
    /\ worked = [w \in Workers |-> 0]
    /\ stalled = [w \in Workers |-> 0]
    /\ spent = [w \in Workers |-> 0]
    /\ holder = NoWorker
    /\ waiting = <<>>
    /\ starving = FALSE
    /\ lost = {}

Enter(w, p) == phase' = [phase EXCEPT ![w] = p] /\ spent' = [spent EXCEPT ![w] = 0]

\* MarkInFlight sets status and updated_at; its reply is on the way.
Claim(w) ==
    /\ phase[w] = "idle"
    /\ Enter(w, "claim")
    /\ UNCHANGED <<worked, stalled, holder, waiting, starving, lost>>

\* The reply arrives and the precheck begins.
Claimed(w) ==
    /\ phase[w] = "claim"
    /\ Enter(w, "precheck")
    /\ UNCHANGED <<worked, stalled, holder, waiting, starving, lost>>

\* The precheck finds no quantity: Settle returns without the mutex.
NothingThere(w) ==
    /\ phase[w] = "precheck"
    /\ Enter(w, "report")
    /\ UNCHANGED <<worked, stalled, holder, waiting, starving, lost>>

Take(w) == holder' = w /\ Enter(w, "settle")

\* Lock by a goroutine that has not waited: it gets a free mutex even before those
\* parked on it, one of which then turns the mutex to starvation mode.
LockNow(w) ==
    /\ phase[w] = "precheck"
    /\ holder = NoWorker
    /\ ~starving
    /\ Take(w)
    /\ starving' = (waiting # <<>>)
    /\ UNCHANGED <<worked, stalled, waiting, lost>>

Park(w) ==
    /\ phase[w] = "precheck"
    /\ holder # NoWorker \/ starving
    /\ Enter(w, "waiting")
    /\ waiting' = Append(waiting, w)
    /\ UNCHANGED <<worked, stalled, holder, starving, lost>>

\* The longest waiter gets the mutex; starvation ends with the last one.
HandOver(w) ==
    /\ waiting # <<>>
    /\ w = Head(waiting)
    /\ holder = NoWorker
    /\ Take(w)
    /\ waiting' = Tail(waiting)
    /\ starving' = (starving /\ Tail(waiting) # <<>>)
    /\ UNCHANGED <<worked, stalled, lost>>

\* Settle returns and frees the mutex; MarkSettled or MarkFailed begins.
Returned(w) ==
    /\ phase[w] = "settle"
    /\ holder' = NoWorker
    /\ Enter(w, "report")
    /\ UNCHANGED <<worked, stalled, waiting, starving, lost>>

\* The worker is done with the claim: its row has been updated, or the update or the
\* reply of MarkInFlight failed, and the row is left to the reaper.
Done(w) ==
    /\ phase[w] \in Unlimited
    /\ Enter(w, "idle")
    /\ worked' = [worked EXCEPT ![w] = 0]
    /\ stalled' = [stalled EXCEPT ![w] = 0]
    /\ lost' = lost \ {w}
    /\ UNCHANGED <<holder, waiting, starving>>

\* Settle returns for want of gas: the row is left to the reaper at once.
OutOfGas(w) ==
    /\ phase[w] = "settle"
    /\ holder' = NoWorker
    /\ Enter(w, "idle")
    /\ worked' = [worked EXCEPT ![w] = 0]
    /\ stalled' = [stalled EXCEPT ![w] = 0]
    /\ lost' = lost \ {w}
    /\ UNCHANGED <<waiting, starving>>

Older(clock, phases) ==
    [w \in Workers |-> IF phase[w] \in phases THEN clock[w] + 1 ELSE clock[w]]

\* The clocks advance by a unit.
Advance ==
    /\ worked' = Older(worked, Limited \cup {"waiting"})
    /\ stalled' = Older(stalled, Unlimited)
    /\ spent' = Older(spent, Limited)
    /\ UNCHANGED <<phase, holder, waiting, starving, lost>>

\* A slip in Settle: no deadline under the mutex.
TickUnlimited ==
    /\ holder = NoWorker => waiting = <<>>
    /\ \A w \in Workers :
         /\ phase[w] = "precheck" => spent[w] < PrecheckLimit
         /\ phase[w] = "settle" => spent[w] <= SettleLimit
         /\ phase[w] \in Unlimited => stalled[w] < MaxStalled
    /\ Advance

\* A unit of time: no deadline has come, and no free mutex is waited for.
Tick ==
    /\ holder = NoWorker => waiting = <<>>
    /\ \A w \in Workers :
         /\ phase[w] = "precheck" => spent[w] < PrecheckLimit
         /\ phase[w] = "settle" => spent[w] < SettleLimit
         /\ phase[w] \in Unlimited => stalled[w] < MaxStalled
    /\ Advance

\* The claims ReclaimStale takes.
Stale(limit) == {w \in Workers : phase[w] # "idle" /\ worked[w] + stalled[w] > limit}

\* A slip in the reaper: its limit is not that of the workers.
ReapEarly ==
    /\ lost' = lost \cup Stale(StaleAfter - SettleLimit)
    /\ lost' # lost
    /\ UNCHANGED <<phase, worked, stalled, spent, holder, waiting, starving>>

\* ReclaimStale at a tick of the reaper of some process.  Their tickers began at any
\* time, so that some reaper may look at any time.
Reap ==
    /\ lost' = lost \cup Stale(StaleAfter)
    /\ lost' # lost
    /\ UNCHANGED <<phase, worked, stalled, spent, holder, waiting, starving>>

Next ==
    \/ \E w \in Workers :
          \/ Claim(w) \/ Claimed(w) \/ NothingThere(w) \/ LockNow(w) \/ Park(w)
          \/ HandOver(w) \/ Returned(w) \/ OutOfGas(w) \/ Done(w)
    \/ Tick
    \/ Reap

Spec == Init /\ [][Next]_vars

-----------------------------------------------------------------------------
\* What the age limit leaves for the database after a precheck and one turn at the
\* mutex for each worker and for one that overtakes.
Spare == StaleAfter - (PrecheckLimit + (Cardinality(Workers) + 1) * SettleLimit)

\* A claim of a worker still at work is taken only if the database, which has no
\* deadline, kept the worker longer than the limits leave: queueing for the mutex
\* alone never costs a claim, where they leave anything (settler.go:73-105,
\* deepbook.go:427, 602-606, engine.go:84).
ReapedWereStalled == \A w \in lost : stalled[w] > Spare

\* engine.go:73: the reaper reclaims "stale in_flight claims from crashed keeper
\* instances": no claim of a worker still at work is taken.
OnlyCrashedAreReaped == lost = {}
=============================================================================
