------------------------------ MODULE Settler -------------------------------
(***************************************************************************)
(* The settlement path of the keeper: scanner and queue (scanner.go,       *)
(* kafka.go), the worker pool (settler.go), the DeepBook protocol that     *)
(* checks the position and submits the block (deepbook.go, Settle), and    *)
(* the reaper (engine.go).  Several keeper processes share one database    *)
(* and one queue; rival keepers share only the chain.                      *)
(*                                                                         *)
(* A worker holds one market at a time and goes through                    *)
(*    check -> claim -> precheck -> lock -> build -> execute -> report,    *)
(* one step per database statement, RPC or mutex operation, so anything    *)
(* may happen between two of them.  Steps that the environment may always  *)
(* prevent (failed calls, crashes) are apart, in Fault.                    *)
(***************************************************************************)
EXTENDS MarketStore, PredictChain, FiniteSets

CONSTANTS
    Nodes,          \* keeper processes; each signs with its own address
    Rival,          \* address of a keeper with another database
    Workers,        \* goroutines of settler.Start, over all nodes
    NodeOf,         \* the process a worker belongs to
    MaxPending,     \* bound: blocks whose fate is unknown at a time
    MayAge,         \* bound: markets that may leave the listing window
    NoMarket

ASSUME SettlerAssumption ==
    /\ Rival \notin Nodes
    /\ Keepers = Nodes \cup {Rival}
    /\ NodeOf \in [Workers -> Nodes]
    /\ NoMarket \notin Markets
    /\ MaxPending \in Nat
    /\ MayAge \subseteq Markets

VARIABLES
    queued,     \* markets with at least one message in the topic
    pc,         \* where each worker is
    job,        \* the market it received
    qty,        \* the quantity it read and will redeem
    result,     \* what Settle returned
    credFresh,  \* workers whose credential and gas references are current
    reaped,     \* history: markets reclaimed from a worker still at work
    failedOpen, \* history: markets whose precheck could not read the chain
    tooOld      \* markets that expired more than 48 hours ago

workerVars == <<pc, job, qty, result, credFresh>>
auxVars == <<reaped, failedOpen, tooOld>>
vars == <<storeVars, chainVars, queued, workerVars, auxVars>>

Steps == {"idle", "check", "claim", "precheck", "lock", "build", "execute", "report"}
Results == {"none", "ok", "already_settled", "already_redeemed", "gas", "error"}

\* Between a won claim and its report.
Working == {"precheck", "lock", "build", "execute", "report"}
Holders(m) == {w \in Workers : pc[w] \in Working /\ job[w] = m}

WorkersTyped ==
    /\ pc \in [Workers -> Steps]
    /\ job \in [Workers -> Markets \cup {NoMarket}]
    /\ \A w \in Workers : pc[w] # "idle" => job[w] # NoMarket
    /\ qty \in [Workers -> Nat]
    /\ result \in [Workers -> Results]
    /\ credFresh \subseteq Workers

\* Every variable has its type.
TypeOK ==
    /\ StoreTypeOK
    /\ ChainTypeOK
    /\ WorkersTyped
    /\ queued \subseteq Markets
    /\ reaped \subseteq Markets
    /\ failedOpen \subseteq Markets
    /\ tooOld \subseteq Markets

Init ==
    /\ StoreInit
    /\ ChainInit
    /\ queued = {}
    /\ pc = [w \in Workers |-> "idle"]
    /\ job = [w \in Workers |-> NoMarket]
    /\ qty = [w \in Workers |-> 0]
    /\ result = [w \in Workers |-> "none"]
    /\ credFresh = {}
    /\ reaped = {}
    /\ failedOpen = {}
    /\ tooOld = {}

-----------------------------------------------------------------------------
(* Worker moves.  Each leaves queue, history and, unless said, the rest alone. *)

GoTo(w, step) ==
    /\ pc' = [pc EXCEPT ![w] = step]
    /\ UNCHANGED <<job, qty, result, credFresh>>

\* settle returns: the worker waits for the next message.
Idle(ws) ==
    /\ pc' = [w \in Workers |-> IF w \in ws THEN "idle" ELSE pc[w]]
    /\ job' = [w \in Workers |-> IF w \in ws THEN NoMarket ELSE job[w]]
    /\ qty' = [w \in Workers |-> IF w \in ws THEN 0 ELSE qty[w]]
    /\ result' = [w \in Workers |-> IF w \in ws THEN "none" ELSE result[w]]
    /\ credFresh' = credFresh \ ws

\* Settle returns r; the deferred Unlock is part of leaving "build" or "execute".
Return(w, r, fresh) ==
    /\ pc' = [pc EXCEPT ![w] = "report"]
    /\ result' = [result EXCEPT ![w] = r]
    /\ qty' = [qty EXCEPT ![w] = 0]
    /\ credFresh' = fresh \ {w}
    /\ UNCHANGED job

\* References to the credential and gas coin of node n go stale.
Outdate(n) == {w \in credFresh : NodeOf[w] # n}

-----------------------------------------------------------------------------
(* Scanner and queue. *)

\* ListActiveOracleIDs answers the oracles that expired in the last 48 hours.
Active(m) == m \notin tooOld

\* FetchMarkets lists a position of a settled oracle unless it is done or claimed.
Listed(m) == Active(m) /\ Redeemable(m) /\ m \notin OutOfRange

\* Kafka keeps a message per publication; only whether there is one matters here.
Publish(m) == queued' = queued \cup {m}

\* A tick of the scanner; the bridge publishes what it lists, in every scan again.
Enqueue(m) ==
    /\ Listed(m)
    /\ Publish(m)
    /\ UNCHANGED <<storeVars, chainVars, workerVars, auxVars>>

\* FetchMarkets retires a range position the settlement price is outside of.
Skip(m) ==
    /\ m \in OutOfRange
    /\ Active(m)
    /\ Redeemable(m)
    /\ MarkSkipped(m, "out_of_range")
    /\ UNCHANGED <<chainVars, queued, workerVars, auxVars>>

\* The expiry falls out of the listing window: from now on no scan finds the market,
\* while messages and claims there are of it live on.
Age(m) ==
    /\ m \in MayAge \ tooOld
    /\ tooOld' = tooOld \cup {m}
    /\ UNCHANGED <<storeVars, chainVars, queued, workerVars, reaped, failedOpen>>

\* An idle worker takes a message; another one for the same market may be left.
\* The message is committed as it is handed over, before it is processed.
Deliver(w, m) ==
    /\ pc[w] = "idle"
    /\ m \in queued
    /\ queued' \in {queued, queued \ {m}}
    /\ pc' = [pc EXCEPT ![w] = "check"]
    /\ job' = [job EXCEPT ![w] = m]
    /\ UNCHANGED <<storeVars, chainVars, qty, result, credFresh, auxVars>>

-----------------------------------------------------------------------------
(* settler.go: settle, and deepbook.go: Settle. *)

CheckSettled(w) ==
    /\ pc[w] = "check"
    /\ IF IsSettled(job[w]) THEN Idle({w}) ELSE GoTo(w, "claim")
    /\ UNCHANGED <<storeVars, chainVars, queued, auxVars>>

Claim(w) ==
    /\ pc[w] = "claim"
    /\ IF Claimable(job[w])
       THEN MarkInFlight(job[w]) /\ GoTo(w, "precheck")
       ELSE UNCHANGED storeVars /\ Idle({w})
    /\ UNCHANGED <<chainVars, queued, auxVars>>

\* The quantity the precheck decided on; zero ends Settle before the mutex.
UseQuantity(w, q) ==
    /\ pc[w] = "precheck"
    /\ IF q = 0
       THEN Return(w, "already_redeemed", credFresh)
       ELSE /\ pc' = [pc EXCEPT ![w] = "lock"]
            /\ qty' = [qty EXCEPT ![w] = q]
            /\ UNCHANGED <<job, result, credFresh>>
    /\ UNCHANGED <<storeVars, chainVars, queued, reaped, tooOld>>

\* A slip in Settle: the quantity of the message is redeemed.
PrecheckIgnored(w) ==
    /\ pc[w] = "precheck"
    /\ \E q \in DbQuantity[job[w]] : UseQuantity(w, q)
    /\ UNCHANGED failedOpen

Precheck(w) == UseQuantity(w, remaining[job[w]]) /\ UNCHANGED failedOpen

\* A slip in Settle: no mutex.
LockNothing(w) ==
    /\ pc[w] = "lock"
    /\ GoTo(w, "build")
    /\ UNCHANGED <<storeVars, chainVars, queued, auxVars>>

\* settleMu.Lock: one mutex per process.
Lock(w) ==
    /\ pc[w] = "lock"
    /\ \A v \in Workers : pc[v] \in {"build", "execute"} => NodeOf[v] # NodeOf[w]
    /\ GoTo(w, "build")
    /\ UNCHANGED <<storeVars, chainVars, queued, auxVars>>

\* Fetch the credential and gas coin references and assemble the block.
Build(w) ==
    /\ pc[w] = "build"
    /\ pc' = [pc EXCEPT ![w] = "execute"]
    /\ credFresh' = credFresh \cup {w}
    /\ UNCHANGED <<job, qty, result, storeVars, chainVars, queued, auxVars>>

\* tx.Execute, answered: a block naming outdated references is rejected.
Execute(w) ==
    /\ pc[w] = "execute"
    /\ IF w \in credFresh
       THEN /\ ExecutePTB(job[w], qty[w], NodeOf[w])
            /\ Return(w, Verdict(job[w], qty[w]), Outdate(NodeOf[w]))
       ELSE UNCHANGED chainVars /\ Return(w, "error", credFresh)
    /\ UNCHANGED <<storeVars, queued, auxVars>>

\* A slip in settle: the two sentinel errors are exchanged.
ReportExchanged(w) ==
    /\ pc[w] = "report"
    /\ CASE result[w] = "ok" -> MarkSettled(job[w], "digest")
         [] result[w] = "already_settled" -> MarkSettled(job[w], "already_redeemed")
         [] result[w] = "already_redeemed" -> MarkSettled(job[w], "external")
         [] result[w] = "gas" -> UNCHANGED storeVars
         [] OTHER -> MarkFailed(job[w])
    /\ Idle({w})
    /\ UNCHANGED <<chainVars, queued, auxVars>>

\* The switch on the error Settle returned.
Report(w) ==
    /\ pc[w] = "report"
    /\ CASE result[w] = "ok" -> MarkSettled(job[w], "digest")
         [] result[w] = "already_settled" -> MarkSettled(job[w], "external")
         [] result[w] = "already_redeemed" -> MarkSettled(job[w], "already_redeemed")
         [] result[w] = "gas" -> UNCHANGED storeVars
         [] OTHER -> MarkFailed(job[w])
    /\ Idle({w})
    /\ UNCHANGED <<chainVars, queued, auxVars>>

-----------------------------------------------------------------------------
(* Reaper and the passing of time. *)

\* A claim nobody works on any more gets old.
AbandonedClaimExpires(m) ==
    /\ Holders(m) = {}
    /\ ClaimExpires(m)
    /\ UNCHANGED <<chainVars, queued, workerVars, auxVars>>

Reap ==
    /\ StaleClaims # {}
    /\ ReclaimStale
    /\ reaped' = reaped \cup {m \in StaleClaims : Holders(m) # {}}
    /\ UNCHANGED <<chainVars, queued, workerVars, failedOpen, tooOld>>

-----------------------------------------------------------------------------
(* The chain, without this keeper. *)

\* A keeper with another database settles: it runs the same program, so it may
\* redeem any part of the position its own precheck came up with.
RivalSettles(m, q) ==
    /\ q \in 1..remaining[m]
    /\ Verdict(m, q) = "ok"
    /\ ExecutePTB(m, q, Rival)
    /\ UNCHANGED <<storeVars, queued, workerVars, auxVars>>

OwnerTakes(m, q) ==
    /\ OwnerRedeems(m, q)
    /\ UNCHANGED <<storeVars, queued, workerVars, auxVars>>

\* A block given up on executes after all, if nothing consumed its inputs.
PendingExecutes(p) ==
    /\ ExecutePTB(p.market, p.quantity, p.keeper)
    /\ credFresh' = Outdate(p.keeper)
    /\ UNCHANGED <<storeVars, queued, pc, job, qty, result, auxVars>>

PendingLost(p) ==
    /\ PendingDropped(p)
    /\ UNCHANGED <<storeVars, queued, workerVars, auxVars>>

-----------------------------------------------------------------------------
(* Failures. *)

\* A database call returns an error without effect, or its effect is kept by the
\* server and the reply is lost (MarkInFlight); settle gives the market up.
DatabaseFails(w) ==
    /\ pc[w] \in {"check", "claim", "report"}
    /\ \/ UNCHANGED storeVars
       \/ pc[w] = "claim" /\ Claimable(job[w]) /\ MarkInFlight(job[w])
    /\ Idle({w})
    /\ UNCHANGED <<chainVars, queued, auxVars>>

\* onChainQty falls back to the quantity of the message; onChainRangeQty does the
\* same, but answers 0 when the reply has an unexpected shape.
PrecheckFails(w) ==
    /\ pc[w] = "precheck"
    /\ \E q \in DbQuantity[job[w]] \cup (IF job[w] \in RangeMarkets THEN {0} ELSE {}) :
           UseQuantity(w, q)
    /\ failedOpen' = failedOpen \cup {job[w]}

\* Settle fails before anything is submitted.
NotSubmitted(w) ==
    /\ pc[w] \in {"build", "execute"}
    /\ \/ Return(w, "error", credFresh)
       \/ pc[w] = "execute" /\ Return(w, "gas", credFresh)
    /\ UNCHANGED <<storeVars, chainVars, queued, auxVars>>

\* tx.Execute times out: the block may have been executed, may be executed later
\* or never.  The worker only sees an error.
NoAnswer(w) ==
    /\ pc[w] = "execute"
    /\ w \in credFresh
    /\ Cardinality(pending) < MaxPending
    /\ SubmitUnanswered(job[w], qty[w], NodeOf[w])
    /\ Return(w, "error", credFresh)
    /\ UNCHANGED <<storeVars, queued, auxVars>>

\* A claim gets old while its worker is still busy with it.
LiveClaimExpires(m) ==
    /\ Holders(m) # {}
    /\ ClaimExpires(m)
    /\ UNCHANGED <<chainVars, queued, workerVars, auxVars>>

\* A process stops and is started again: its workers forget what they were doing.
Crash(n) ==
    /\ Idle({w \in Workers : NodeOf[w] = n})
    /\ UNCHANGED <<storeVars, chainVars, queued, auxVars>>

-----------------------------------------------------------------------------
WorkerStep(w) ==
    \/ CheckSettled(w) \/ Claim(w) \/ Precheck(w) \/ Lock(w) \/ Build(w)
    \/ Execute(w) \/ Report(w) \/ \E m \in Markets : Deliver(w, m)

Chain ==
    \/ \E m \in Markets : \E q \in 1..Minted[m] : RivalSettles(m, q) \/ OwnerTakes(m, q)
    \/ \E p \in pending : PendingExecutes(p) \/ PendingLost(p)

Normal ==
    \/ \E w \in Workers : WorkerStep(w)
    \/ \E m \in Markets : Enqueue(m) \/ Age(m) \/ Skip(m) \/ AbandonedClaimExpires(m)
    \/ Reap
    \/ Chain

WorkerFault(w) == DatabaseFails(w) \/ PrecheckFails(w) \/ NotSubmitted(w) \/ NoAnswer(w)

Fault ==
    \/ \E w \in Workers : WorkerFault(w)
    \/ \E m \in Markets : LiveClaimExpires(m)
    \/ \E n \in Nodes : Crash(n)

Next == Normal \/ Fault

Spec == Init /\ [][Next]_vars

-----------------------------------------------------------------------------
(* Safety. *)

\* The database claim is a lock: unless the reaper took a claim away from a worker
\* still busy with it, one worker at most works on a market, over all processes,
\* and the row stays in_flight until that worker reports (store.go:264-278).
ClaimExclusive ==
    \A m \in Markets \ reaped : \A w \in Holders(m) :
        Holders(m) = {w} /\ status[m] = "in_flight"

\* A settled row never goes back to be tried again, with the same exception: only
\* a worker whose claim was reclaimed can overwrite it (store.go:288-294 has no
\* condition on the status).
SettledIsFinal ==
    [][\A m \in Markets \ reaped : status[m] = "settled" => status'[m] = "settled"]_vars

\* The tx_hash of a settled row is true of the chain: a digest means that this
\* network's own block recorded the position, "external" that some keeper's did,
\* "already_redeemed" that, unless the precheck could not read the chain, somebody
\* had redeemed at least a part of the position (settler.go:84-107).
HashTellsTruth ==
    \A m \in Markets : status[m] = "settled" =>
        CASE txHash[m] = "digest" -> recordedBy[m] \in Nodes
          [] txHash[m] = "external" -> recordedBy[m] # NoKeeper
          [] txHash[m] = "already_redeemed" -> m \in failedOpen \/ remaining[m] < Minted[m]
          [] txHash[m] = "out_of_range" -> m \in OutOfRange
          [] OTHER -> FALSE

\* A settlement of this network empties the position: nothing stays behind that
\* the registry would not let anybody be paid for, unless the precheck fell back
\* on the database quantity (deepbook.go:590-608).
SettlementEmptiesPosition ==
    \A m \in Markets \ failedOpen : recordedBy[m] \in Nodes => remaining[m] = 0

\* errors.go:9-11: when the precheck or the block says already redeemed, "the position
\* no longer exists on-chain" and "the position owner already received their payout".
AlreadyRedeemedMeansGone ==
    \A m \in Markets :
        status[m] = "settled" /\ txHash[m] = "already_redeemed" => remaining[m] = 0

\* README.md:15: once a keeper has recorded the position "subsequent attempts abort
\* gracefully with EAlreadySettled".
LatecomerSeesAlreadySettled ==
    [][\A w \in Workers :
         /\ pc[w] = "execute" /\ recordedBy[job[w]] # NoKeeper
         /\ pc'[w] = "report" /\ result'[w] \in {"already_settled", "already_redeemed"}
         => result'[w] = "already_settled"]_vars

\* settleMu does its work: the credential and gas references a worker fetched are
\* outdated under it only by a block a worker of the process had given up on, never
\* by the block of another worker in progress (deepbook.go:602-603, 654-655).
ReferencesStayFresh ==
    [][\A w \in Workers :
         pc[w] = "execute" /\ pc'[w] = "execute" /\ w \in credFresh /\ w \notin credFresh'
         => \E p \in pending \ pending' : p.keeper = NodeOf[w]]_vars

\* Whatever fails, is repeated or comes late, the chain sees what the ledger
\* promises: one credit per position, and none without a redemption.
Ledger == INSTANCE SettlementLedger

ImplementsLedger == Ledger!Spec

-----------------------------------------------------------------------------
(* Liveness.  Faults eventually stop; what is left is scheduled: the scanner *)
(* and the reaper run on tickers, the topic is one partition read in order,  *)
(* Go mutexes hand over to the longest waiter.  Markets may leave the window *)
(* of the listing at any time (Age is not fair).                             *)

Fairness ==
    /\ \A m \in Markets :
          /\ WF_vars(Enqueue(m))
          /\ WF_vars(Skip(m))
          /\ WF_vars(AbandonedClaimExpires(m))
          /\ SF_vars(\E w \in Workers : Deliver(w, m))
    /\ WF_vars(Reap)
    /\ \A w \in Workers :
          /\ WF_vars(CheckSettled(w)) /\ WF_vars(Claim(w)) /\ WF_vars(Precheck(w))
          /\ SF_vars(Lock(w))
          /\ WF_vars(Build(w)) /\ WF_vars(Execute(w)) /\ WF_vars(Report(w))

FaultsStop == <>[][Normal]_vars

FairSpec == Spec /\ Fairness /\ FaultsStop

\* Every position ends settled in the database and stays so, whatever state the
\* failures left behind: abandoned claims, lost messages, duplicated work.  Only one
\* that left the 48 hours of the listing before may stay unsettled (store.go:151), and
\* even then no claim is left on it: what workers hold is finished or reclaimed.
EveryMarketSettles ==
    \A m \in Markets :
        <>[](status[m] = "settled" \/ (m \in tooOld /\ status[m] # "in_flight"))
=============================================================================
