---------------------------- MODULE SettlerProofs ---------------------------
(***************************************************************************)
(* Theorems about Settler for any number of processes, workers, positions  *)
(* and pending blocks, and any quantities: the types, the settlement       *)
(* ledger it implements, the claim in the markets table as a lock, what    *)
(* the table says of the chain, and the references a keeper submits with.  *)
(***************************************************************************)
EXTENDS Settler, TLAPS

USE DEF Steps, Results, Statuses, Hashes

-----------------------------------------------------------------------------
(* Worker moves keep the types, provided the values they store have them. *)

LEMMA GoToType ==
    ASSUME TypeOK, NEW w \in Workers, NEW s \in Steps, pc[w] # "idle", GoTo(w, s)
    PROVE  WorkersTyped'
BY DEF TypeOK, GoTo, WorkersTyped

LEMMA IdleType ==
    ASSUME TypeOK, NEW ws, Idle(ws)
    PROVE  WorkersTyped'
BY DEF TypeOK, Idle, WorkersTyped

LEMMA ReturnType ==
    ASSUME TypeOK, NEW w \in Workers, NEW r \in Results, NEW fresh \in SUBSET Workers,
           pc[w] # "idle", Return(w, r, fresh)
    PROVE  WorkersTyped'
BY DEF TypeOK, Return, WorkersTyped

LEMMA JobType ==
    ASSUME TypeOK, NEW w \in Workers, pc[w] # "idle"
    PROVE  job[w] \in Markets
BY DEF TypeOK, WorkersTyped

LEMMA OutdateType ==
    ASSUME TypeOK, NEW n
    PROVE  Outdate(n) \in SUBSET Workers
BY DEF TypeOK, Outdate, WorkersTyped

LEMMA StoreType ==
    ASSUME StoreTypeOK, NEW m \in Markets
    PROVE  /\ MarkInFlight(m) => StoreTypeOK'
           /\ MarkFailed(m) => StoreTypeOK'
           /\ \A h \in Hashes : MarkSettled(m, h) => StoreTypeOK'
           /\ ReclaimStale => StoreTypeOK'
           /\ ClaimExpires(m) => StoreTypeOK'
           /\ UNCHANGED storeVars => StoreTypeOK'
<1>1. MarkInFlight(m) => StoreTypeOK'
  BY DEF StoreTypeOK, MarkInFlight
<1>2. MarkFailed(m) => StoreTypeOK'
  BY DEF StoreTypeOK, MarkFailed
<1>3. \A h \in Hashes : MarkSettled(m, h) => StoreTypeOK'
  BY DEF StoreTypeOK, MarkSettled
<1>4. ReclaimStale => StoreTypeOK'
  BY DEF StoreTypeOK, ReclaimStale
<1>5. ClaimExpires(m) => StoreTypeOK'
  BY DEF StoreTypeOK, ClaimExpires
<1>6. UNCHANGED storeVars => StoreTypeOK'
  BY DEF StoreTypeOK, storeVars
<1> QED
  BY <1>1, <1>2, <1>3, <1>4, <1>5, <1>6

LEMMA ChainType ==
    ASSUME ChainTypeOK, NEW m \in Markets, NEW q \in Nat, NEW k \in Keepers
    PROVE  /\ ExecutePTB(m, q, k) => ChainTypeOK'
           /\ SubmitUnanswered(m, q, k) => ChainTypeOK'
           /\ OwnerRedeems(m, q) => ChainTypeOK'
           /\ \A p \in pending : PendingDropped(p) => ChainTypeOK'
           /\ UNCHANGED chainVars => ChainTypeOK'
<1>1. ASSUME ExecutePTB(m, q, k) PROVE ChainTypeOK'
  <2>1. CASE Verdict(m, q) = "ok"
    <3>1. q <= remaining[m] /\ remaining[m] \in Nat
      BY <2>1 DEF Verdict, ChainTypeOK
    <3>2. remaining[m] - q \in Nat
      BY <3>1
    <3> QED
      BY <1>1, <2>1, <3>2 DEF ExecutePTB, ChainTypeOK
  <2>2. CASE Verdict(m, q) # "ok"
    BY <1>1, <2>2 DEF ExecutePTB, ChainTypeOK
  <2> QED
    BY <2>1, <2>2
<1>2. SubmitUnanswered(m, q, k) => ChainTypeOK'
  BY DEF SubmitUnanswered, ChainTypeOK, PTB
<1>3. OwnerRedeems(m, q) => ChainTypeOK'
  BY DEF OwnerRedeems, ChainTypeOK
<1>4. \A p \in pending : PendingDropped(p) => ChainTypeOK'
  BY DEF PendingDropped, ChainTypeOK
<1>5. UNCHANGED chainVars => ChainTypeOK'
  BY DEF chainVars, ChainTypeOK
<1> QED
  BY <1>1, <1>2, <1>3, <1>4, <1>5

LEMMA NodeIsKeeper ==
    ASSUME SettlerAssumption, NEW w \in Workers
    PROVE  NodeOf[w] \in Keepers /\ NodeOf[w] \in Nodes
BY DEF SettlerAssumption

LEMMA VerdictType ==
    ASSUME NEW m, NEW q
    PROVE  Verdict(m, q) \in {"ok", "already_settled", "already_redeemed"}
BY DEF Verdict

LEMMA UseQuantityType ==
    ASSUME TypeOK, NEW w \in Workers, NEW q \in Nat, UseQuantity(w, q)
    PROVE  WorkersTyped'
<1>1. CASE q = 0
  BY <1>1, ReturnType DEF UseQuantity, TypeOK, WorkersTyped
<1>2. CASE q # 0
  BY <1>2 DEF UseQuantity, TypeOK, WorkersTyped
<1> QED
  BY <1>1, <1>2

-----------------------------------------------------------------------------
LEMMA WorkerStepType ==
    ASSUME SettlerAssumption, PositionAssumption, TypeOK,
           NEW w \in Workers, WorkerStep(w) \/ WorkerFault(w)
    PROVE  TypeOK'
<1>1. CASE CheckSettled(w)
  <2>1. WorkersTyped'
    BY <1>1, IdleType, GoToType DEF CheckSettled
  <2> QED
    BY <1>1, <2>1 DEF CheckSettled, auxVars, storeVars, chainVars, StoreTypeOK, ChainTypeOK, TypeOK, WorkersTyped
<1>2. CASE Claim(w)
  <2>1. job[w] \in Markets
    BY <1>2, JobType DEF Claim
  <2>2. WorkersTyped'
    BY <1>2, IdleType, GoToType DEF Claim
  <2>3. StoreTypeOK'
    BY <1>2, <2>1, StoreType DEF Claim, TypeOK, WorkersTyped
  <2> QED
    BY <1>2, <2>2, <2>3 DEF Claim, auxVars, chainVars, ChainTypeOK, TypeOK, WorkersTyped
<1>3. CASE Precheck(w) \/ PrecheckFails(w)
  <2>1. job[w] \in Markets
    BY <1>3, JobType DEF Precheck, PrecheckFails, UseQuantity
  <2>2. PICK q \in Nat : UseQuantity(w, q)
    BY <1>3, <2>1 DEF Precheck, PrecheckFails, TypeOK, ChainTypeOK, PositionAssumption, WorkersTyped
  <2>3. WorkersTyped'
    BY <2>2, UseQuantityType
  <2>4. failedOpen' \subseteq Markets
    BY <1>3, <2>1 DEF Precheck, PrecheckFails, TypeOK, WorkersTyped
  <2> QED
    BY <2>2, <2>3, <2>4 DEF UseQuantity, storeVars, chainVars, StoreTypeOK, ChainTypeOK, TypeOK, WorkersTyped
<1>4. CASE Lock(w)
  <2>1. WorkersTyped'
    BY <1>4, GoToType DEF Lock
  <2> QED
    BY <1>4, <2>1 DEF Lock, auxVars, storeVars, chainVars, StoreTypeOK, ChainTypeOK, TypeOK, WorkersTyped
<1>5. CASE Build(w)
  <2>1. WorkersTyped'
    BY <1>5 DEF Build, TypeOK, WorkersTyped
  <2> QED
    BY <1>5, <2>1 DEF Build, auxVars, storeVars, chainVars, StoreTypeOK, ChainTypeOK, TypeOK, WorkersTyped
<1>6. CASE Execute(w)
  <2>1. job[w] \in Markets /\ qty[w] \in Nat
    BY <1>6, JobType DEF Execute, TypeOK, WorkersTyped
  <2>2. ChainTypeOK'
    BY <1>6, <2>1, ChainType, NodeIsKeeper DEF Execute, TypeOK, WorkersTyped
  <2>3. WorkersTyped'
    BY <1>6, ReturnType, OutdateType, VerdictType DEF Execute, TypeOK, WorkersTyped
  <2> QED
    BY <1>6, <2>2, <2>3 DEF Execute, auxVars, storeVars, StoreTypeOK, TypeOK, WorkersTyped
<1>7. CASE Report(w)
  <2>1. job[w] \in Markets
    BY <1>7, JobType DEF Report
  <2>2. StoreTypeOK'
    BY <1>7, <2>1, StoreType DEF Report, TypeOK, WorkersTyped
  <2>3. WorkersTyped'
    BY <1>7, IdleType DEF Report
  <2> QED
    BY <1>7, <2>2, <2>3 DEF Report, auxVars, chainVars, ChainTypeOK, TypeOK, WorkersTyped
<1>8. CASE \E m \in Markets : Deliver(w, m)
  <2>1. WorkersTyped'
    BY <1>8 DEF Deliver, TypeOK, WorkersTyped, SettlerAssumption
  <2> QED
    BY <1>8, <2>1 DEF Deliver, auxVars, storeVars, chainVars, StoreTypeOK, ChainTypeOK, TypeOK, WorkersTyped
<1>9. CASE DatabaseFails(w)
  <2>1. job[w] \in Markets
    BY <1>9, JobType DEF DatabaseFails
  <2>2. StoreTypeOK'
    BY <1>9, <2>1, StoreType DEF DatabaseFails, TypeOK, WorkersTyped
  <2>3. WorkersTyped'
    BY <1>9, IdleType DEF DatabaseFails
  <2> QED
    BY <1>9, <2>2, <2>3 DEF DatabaseFails, auxVars, chainVars, ChainTypeOK, TypeOK, WorkersTyped
<1>10. CASE NotSubmitted(w)
  <2>1. WorkersTyped'
    BY <1>10, ReturnType DEF NotSubmitted, TypeOK, WorkersTyped
  <2> QED
    BY <1>10, <2>1 DEF NotSubmitted, auxVars, storeVars, chainVars, StoreTypeOK, ChainTypeOK, TypeOK, WorkersTyped
<1>11. CASE NoAnswer(w)
  <2>1. job[w] \in Markets /\ qty[w] \in Nat
    BY <1>11, JobType DEF NoAnswer, TypeOK, WorkersTyped
  <2>2. ChainTypeOK'
    BY <1>11, <2>1, ChainType, NodeIsKeeper DEF NoAnswer, TypeOK, WorkersTyped
  <2>3. WorkersTyped'
    BY <1>11, ReturnType DEF NoAnswer, TypeOK, WorkersTyped
  <2> QED
    BY <1>11, <2>2, <2>3 DEF NoAnswer, auxVars, storeVars, StoreTypeOK, TypeOK, WorkersTyped
<1> QED
  BY <1>1, <1>2, <1>3, <1>4, <1>5, <1>6, <1>7, <1>8, <1>9, <1>10, <1>11 DEF WorkerStep, WorkerFault

\* The steps of Next that are no worker's.
EnvironmentStep ==
    \/ \E m \in Markets : \/ Enqueue(m) \/ Age(m) \/ Skip(m)
                          \/ AbandonedClaimExpires(m) \/ LiveClaimExpires(m)
    \/ Reap
    \/ Chain
    \/ \E n \in Nodes : Crash(n)

LEMMA EnvironmentStepType ==
    ASSUME SettlerAssumption, PositionAssumption, TypeOK, EnvironmentStep
    PROVE  TypeOK'
<1>1. CASE \E m \in Markets : Enqueue(m) \/ Age(m)
  BY <1>1 DEF Enqueue, Age, Publish, auxVars, storeVars, chainVars, workerVars, StoreTypeOK, ChainTypeOK, WorkersTyped, TypeOK
<1>2. ASSUME NEW m \in Markets, Skip(m) PROVE TypeOK'
  <2>1. StoreTypeOK'
    BY <1>2, StoreType DEF Skip, MarkSkipped, TypeOK, WorkersTyped
  <2> QED
    BY <1>2, <2>1 DEF Skip, auxVars, chainVars, workerVars, ChainTypeOK, WorkersTyped, TypeOK
<1>3. ASSUME NEW m \in Markets, AbandonedClaimExpires(m) \/ LiveClaimExpires(m) PROVE TypeOK'
  <2>1. StoreTypeOK'
    BY <1>3, StoreType DEF AbandonedClaimExpires, LiveClaimExpires, TypeOK, WorkersTyped
  <2> QED
    BY <1>3, <2>1 DEF AbandonedClaimExpires, LiveClaimExpires, auxVars, chainVars, workerVars, ChainTypeOK, WorkersTyped, TypeOK
<1>4. CASE Reap
  <2>1. StoreTypeOK'
    BY <1>4 DEF Reap, ReclaimStale, StoreTypeOK, TypeOK, WorkersTyped
  <2>2. reaped' \subseteq Markets
    BY <1>4 DEF Reap, StaleClaims, TypeOK, WorkersTyped
  <2> QED
    BY <1>4, <2>1, <2>2 DEF Reap, chainVars, workerVars, ChainTypeOK, WorkersTyped, TypeOK
<1>5. ASSUME NEW m \in Markets, NEW q \in 1..Minted[m], RivalSettles(m, q) \/ OwnerTakes(m, q)
      PROVE TypeOK'
  <2>1. q \in Nat /\ Rival \in Keepers
    BY DEF PositionAssumption, SettlerAssumption
  <2>2. ChainTypeOK'
    BY <1>5, <2>1, ChainType DEF RivalSettles, OwnerTakes, TypeOK, WorkersTyped
  <2> QED
    BY <1>5, <2>2 DEF RivalSettles, OwnerTakes, auxVars, storeVars, workerVars, StoreTypeOK, WorkersTyped, TypeOK
<1>6. ASSUME NEW p \in pending, PendingExecutes(p) PROVE TypeOK'
  <2>1. p.market \in Markets /\ p.quantity \in Nat /\ p.keeper \in Keepers
    BY DEF TypeOK, ChainTypeOK, PTB, WorkersTyped
  <2>2. ChainTypeOK'
    BY <1>6, <2>1, ChainType DEF PendingExecutes, TypeOK, WorkersTyped
  <2>3. WorkersTyped'
    BY <1>6, OutdateType DEF PendingExecutes, TypeOK, WorkersTyped
  <2> QED
    BY <1>6, <2>2, <2>3 DEF PendingExecutes, auxVars, storeVars, StoreTypeOK, TypeOK, WorkersTyped
<1>7. ASSUME NEW p \in pending, PendingLost(p) PROVE TypeOK'
  BY <1>7 DEF PendingLost, PendingDropped, ChainTypeOK, auxVars, storeVars, workerVars, StoreTypeOK, WorkersTyped, TypeOK
<1>8. ASSUME NEW n \in Nodes, Crash(n) PROVE TypeOK'
  <2>1. WorkersTyped'
    BY <1>8, IdleType DEF Crash
  <2> QED
    BY <1>8, <2>1 DEF Crash, auxVars, storeVars, chainVars, StoreTypeOK, ChainTypeOK, TypeOK, WorkersTyped
<1> QED
  BY <1>1, <1>2, <1>3, <1>4, <1>5, <1>6, <1>7, <1>8 DEF EnvironmentStep, Chain

\* The state never leaves its type: quantities stay natural numbers, whatever
\* fails or comes late, and a worker that is not idle has a market.
THEOREM TypeCorrect == Spec => []TypeOK
<1>1. Init => TypeOK
  BY PositionAssumption DEF Init, StoreInit, ChainInit, TypeOK, StoreTypeOK, ChainTypeOK, WorkersTyped
<1>2. TypeOK /\ [Next]_vars => TypeOK'
  <2> SUFFICES ASSUME TypeOK, [Next]_vars PROVE TypeOK'
    OBVIOUS
  <2>2. CASE UNCHANGED vars
    <3>1. /\ UNCHANGED storeVars /\ UNCHANGED chainVars /\ UNCHANGED queued
          /\ UNCHANGED workerVars /\ UNCHANGED auxVars
      BY <2>2 DEF vars
    <3>2. StoreTypeOK' /\ ChainTypeOK'
      BY <3>1 DEF TypeOK, StoreTypeOK, ChainTypeOK, storeVars, chainVars
    <3>3. WorkersTyped'
      BY <3>1 DEF TypeOK, WorkersTyped, workerVars
    <3> QED
      BY <3>1, <3>2, <3>3 DEF TypeOK, auxVars
  <2>3. CASE Next
    <3>1. ASSUME NEW w \in Workers, WorkerStep(w) \/ WorkerFault(w) PROVE TypeOK'
      BY <3>1, WorkerStepType, SettlerAssumption, PositionAssumption
    <3>2. CASE EnvironmentStep
      BY <3>2, EnvironmentStepType, SettlerAssumption, PositionAssumption
    <3> QED
      BY <2>3, <3>1, <3>2 DEF Next, Normal, Fault, EnvironmentStep
  <2> QED
    BY <2>2, <2>3
<1> QED
  BY <1>1, <1>2, PTL DEF Spec

-----------------------------------------------------------------------------
(***************************************************************************)
(* The ledger.  A step of the chain is a step of the ledger because no     *)
(* block ever asks for a quantity of zero: Settle returns before the mutex *)
(* when the precheck says so, and a pending block keeps its quantity.      *)
(***************************************************************************)
Submitting == {"lock", "build", "execute"}

QuantityPositive ==
    /\ \A w \in Workers : pc[w] \in Submitting => qty[w] > 0
    /\ \A p \in pending : p.quantity > 0

LEMMA ExecuteIsLedgerStep ==
    ASSUME ChainTypeOK, NEW m \in Markets, NEW q \in Nat, q > 0, NEW k \in Keepers,
           ExecutePTB(m, q, k)
    PROVE  Ledger!KeeperSettles(m, k) \/ UNCHANGED <<remaining, recordedBy>>
<1>1. CASE Verdict(m, q) = "ok"
  <2>1. q \in 1..remaining[m] /\ recordedBy[m] = NoKeeper
    BY <1>1 DEF Verdict, ChainTypeOK
  <2> QED
    BY <1>1, <2>1 DEF ExecutePTB, Ledger!KeeperSettles, Ledger!Redeem
<1>2. CASE Verdict(m, q) # "ok"
  BY <1>2 DEF ExecutePTB
<1> QED
  BY <1>1, <1>2

LEMMA LedgerStep ==
    ASSUME SettlerAssumption, PositionAssumption, TypeOK, QuantityPositive, [Next]_vars
    PROVE  Ledger!Next \/ UNCHANGED <<remaining, recordedBy>>
<1>1. ASSUME NEW w \in Workers, Execute(w)
      PROVE  Ledger!Next \/ UNCHANGED <<remaining, recordedBy>>
  <2>1. job[w] \in Markets /\ qty[w] \in Nat /\ qty[w] > 0 /\ NodeOf[w] \in Keepers
    BY <1>1, JobType, NodeIsKeeper DEF Execute, TypeOK, WorkersTyped, QuantityPositive, Submitting
  <2>2. CASE ExecutePTB(job[w], qty[w], NodeOf[w])
    BY <2>1, <2>2, ExecuteIsLedgerStep DEF TypeOK, Ledger!Next
  <2> QED
    BY <1>1, <2>2 DEF Execute, chainVars
<1>2. ASSUME NEW p \in pending, PendingExecutes(p)
      PROVE  Ledger!Next \/ UNCHANGED <<remaining, recordedBy>>
  <2>1. p.market \in Markets /\ p.quantity \in Nat /\ p.quantity > 0 /\ p.keeper \in Keepers
    BY DEF TypeOK, ChainTypeOK, PTB, QuantityPositive
  <2> QED
    BY <1>2, <2>1, ExecuteIsLedgerStep DEF PendingExecutes, TypeOK, Ledger!Next
<1>3. ASSUME NEW m \in Markets, NEW q \in 1..Minted[m], RivalSettles(m, q)
      PROVE  Ledger!Next \/ UNCHANGED <<remaining, recordedBy>>
  <2>1. q \in Nat /\ q > 0 /\ Rival \in Keepers
    BY DEF PositionAssumption, SettlerAssumption
  <2> QED
    BY <1>3, <2>1, ExecuteIsLedgerStep DEF RivalSettles, TypeOK, Ledger!Next
<1>4. ASSUME NEW m \in Markets, NEW q \in 1..Minted[m], OwnerTakes(m, q)
      PROVE  Ledger!Next \/ UNCHANGED <<remaining, recordedBy>>
  BY <1>4 DEF OwnerTakes, OwnerRedeems, Ledger!Next, Ledger!OwnerRedeems, Ledger!Redeem
<1>5. ASSUME NEW w \in Workers,
             \/ CheckSettled(w) \/ Claim(w) \/ Precheck(w) \/ Lock(w) \/ Build(w)
             \/ Report(w) \/ \E m \in Markets : Deliver(w, m)
             \/ WorkerFault(w)
      PROVE  UNCHANGED <<remaining, recordedBy>>
  BY <1>5 DEF CheckSettled, Claim, Precheck, UseQuantity, Lock, Build, Report, Deliver,
              WorkerFault, DatabaseFails, PrecheckFails, NotSubmitted, NoAnswer,
              SubmitUnanswered, chainVars
<1>6. CASE \/ \E m \in Markets : \/ Enqueue(m) \/ Age(m) \/ Skip(m)
                                 \/ AbandonedClaimExpires(m) \/ LiveClaimExpires(m)
           \/ Reap
           \/ \E p \in pending : PendingLost(p)
           \/ \E n \in Nodes : Crash(n)
           \/ UNCHANGED vars
  BY <1>6 DEF Enqueue, Age, Skip, AbandonedClaimExpires, LiveClaimExpires, Reap, PendingLost,
              PendingDropped, Crash, chainVars, vars
<1> QED
  BY <1>1, <1>2, <1>3, <1>4, <1>5, <1>6 DEF Next, Normal, Fault, WorkerStep, Chain

\* What a worker has between precheck and answer stays as it is: only a precheck
\* brings in a quantity, and only an unanswered submission a pending block.
Kept ==
    /\ \A w \in Workers : pc'[w] \in Submitting =>
         pc[w] \in Submitting /\ qty'[w] = qty[w] /\ job'[w] = job[w]
    /\ pending' \subseteq pending

LEMMA StepKeeps ==
    ASSUME TypeOK, [Next]_vars
    PROVE  Kept \/ \E w \in Workers : Precheck(w) \/ PrecheckFails(w) \/ NoAnswer(w)
<1>1. ASSUME NEW w \in Workers, Execute(w) \/ NotSubmitted(w) PROVE Kept
  <2>1. pending' \subseteq pending
    BY <1>1 DEF Execute, NotSubmitted, ExecutePTB, chainVars
  <2> QED
    BY <1>1, <2>1 DEF Execute, NotSubmitted, Return, Kept, Submitting, TypeOK, WorkersTyped
<1>2. ASSUME NEW w \in Workers,
             \/ CheckSettled(w) \/ Claim(w) \/ Lock(w) \/ Build(w) \/ Report(w)
             \/ DatabaseFails(w) \/ \E m \in Markets : Deliver(w, m)
      PROVE  Kept
  <2>1. pending' = pending
    BY <1>2 DEF CheckSettled, Claim, Lock, Build, Report, DatabaseFails, Deliver, chainVars
  <2>2. CASE CheckSettled(w) \/ Claim(w) \/ Lock(w)
    BY <2>1, <2>2 DEF CheckSettled, Claim, Lock, GoTo, Idle, Kept, Submitting, TypeOK, WorkersTyped
  <2>3. CASE Build(w) \/ Report(w) \/ DatabaseFails(w)
    BY <2>1, <2>3 DEF Build, Report, DatabaseFails, Idle, Kept, Submitting, TypeOK, WorkersTyped
  <2>4. CASE \E m \in Markets : Deliver(w, m)
    BY <2>1, <2>4 DEF Deliver, Kept, Submitting, TypeOK, WorkersTyped
  <2> QED
    BY <1>2, <2>2, <2>3, <2>4
<1>3. CASE EnvironmentStep \/ UNCHANGED vars
  <2>1. CASE \E n \in Nodes : Crash(n)
    BY <2>1 DEF Crash, Idle, Kept, Submitting, TypeOK, WorkersTyped, chainVars
  <2>2. CASE Chain
    <3>1. pc' = pc /\ qty' = qty /\ job' = job
      BY <2>2 DEF Chain, RivalSettles, OwnerTakes, PendingExecutes, PendingLost, workerVars
    <3>2. pending' \subseteq pending
      BY <2>2 DEF Chain, RivalSettles, OwnerTakes, OwnerRedeems, PendingExecutes, PendingLost,
                  PendingDropped, ExecutePTB
    <3> QED
      BY <3>1, <3>2 DEF Kept
  <2>3. CASE \/ \E m \in Markets : \/ Enqueue(m) \/ Age(m) \/ Skip(m)
                                   \/ AbandonedClaimExpires(m) \/ LiveClaimExpires(m)
             \/ Reap
             \/ UNCHANGED vars
    <3>1. pc' = pc /\ qty' = qty /\ job' = job /\ pending' = pending
      BY <2>3 DEF Enqueue, Age, Skip, AbandonedClaimExpires, LiveClaimExpires, Reap, workerVars,
                  chainVars, vars
    <3> QED
      BY <3>1 DEF Kept
  <2> QED
    BY <1>3, <2>1, <2>2, <2>3 DEF EnvironmentStep
<1> QED
  BY <1>1, <1>2, <1>3 DEF Next, Normal, Fault, WorkerStep, WorkerFault, EnvironmentStep

LEMMA QuantityPositiveStep ==
    ASSUME SettlerAssumption, PositionAssumption, TypeOK, QuantityPositive, [Next]_vars
    PROVE  QuantityPositive'
<1>1. CASE Kept
  BY <1>1 DEF QuantityPositive, Kept
<1>2. ASSUME NEW w \in Workers, Precheck(w) \/ PrecheckFails(w) PROVE QuantityPositive'
  <2>1. job[w] \in Markets
    BY <1>2, JobType DEF Precheck, PrecheckFails, UseQuantity
  <2>2. PICK q \in Nat : UseQuantity(w, q)
    BY <1>2, <2>1 DEF Precheck, PrecheckFails, TypeOK, ChainTypeOK, PositionAssumption
  <2>3. pending' = pending
    BY <2>2 DEF UseQuantity, chainVars
  <2>4. CASE q = 0
    BY <2>2, <2>3, <2>4 DEF UseQuantity, Return, QuantityPositive, Submitting, TypeOK, WorkersTyped
  <2>5. CASE q # 0
    BY <2>2, <2>3, <2>5 DEF UseQuantity, TypeOK, WorkersTyped, QuantityPositive, Submitting
  <2> QED
    BY <2>4, <2>5
<1>3. ASSUME NEW w \in Workers, NoAnswer(w) PROVE QuantityPositive'
  <2>1. \A v \in Workers : pc'[v] \in Submitting => pc[v] \in Submitting /\ qty'[v] = qty[v]
    BY <1>3 DEF NoAnswer, Return, Submitting, TypeOK, WorkersTyped
  <2>2. qty[w] > 0
    BY <1>3 DEF NoAnswer, QuantityPositive, Submitting
  <2>3. \A p \in pending' : p \in pending \/ p.quantity = qty[w]
    BY <1>3 DEF NoAnswer, SubmitUnanswered
  <2> QED
    BY <2>1, <2>2, <2>3 DEF QuantityPositive
<1> QED
  BY <1>1, <1>2, <1>3, StepKeeps

LEMMA QuantitiesPositive == Spec => []QuantityPositive
<1>1. Init => QuantityPositive
  BY DEF Init, ChainInit, QuantityPositive, Submitting
<1>2. TypeOK /\ QuantityPositive /\ [Next]_vars => QuantityPositive'
  BY QuantityPositiveStep, SettlerAssumption, PositionAssumption
<1> QED
  BY <1>1, <1>2, TypeCorrect, PTL DEF Spec

\* The settlement path implements the ledger: with any interleaving of workers,
\* processes, rivals and owners, and with crashes, lost replies and late blocks,
\* one keeper at most is credited for a position, and never without a redemption.
THEOREM LedgerImplemented == Spec => ImplementsLedger
<1>1. Init => Ledger!Init
  BY DEF Init, ChainInit, Ledger!Init
<1>2. TypeOK /\ QuantityPositive /\ [Next]_vars => [Ledger!Next]_(Ledger!vars)
  BY LedgerStep, SettlerAssumption, PositionAssumption DEF Ledger!vars
<1> QED
  BY <1>1, <1>2, TypeCorrect, QuantitiesPositive, PTL DEF Spec, ImplementsLedger, Ledger!Spec

-----------------------------------------------------------------------------
(***************************************************************************)
(* The claim on a row of the markets table is a lock, and a settled row is *)
(* final.                                                                  *)
(***************************************************************************)
\* A step after which nobody holds a market who did not hold it before, and no row
\* leaves in_flight under a holder, keeps the lock.
NobodyNew ==
    /\ \A w \in Workers : pc'[w] \in Working => pc[w] \in Working /\ job'[w] = job[w]
    /\ reaped \subseteq reaped'
    /\ \A m \in Markets \ reaped' :
         status[m] = "in_flight" => status'[m] = "in_flight" \/ Holders(m)' = {}

LEMMA LockKept ==
    ASSUME ClaimExclusive, NobodyNew
    PROVE  ClaimExclusive'
<1> SUFFICES ASSUME NEW m \in Markets, m \notin reaped', NEW w \in Workers,
                    pc'[w] \in Working, job'[w] = m
             PROVE  Holders(m)' = {w} /\ status'[m] = "in_flight"
  BY DEF ClaimExclusive, Holders
<1>1. w \in Holders(m) /\ m \notin reaped
  BY DEF NobodyNew, Holders
<1>2. Holders(m) = {w} /\ status[m] = "in_flight"
  BY <1>1 DEF ClaimExclusive
<1>3. w \in Holders(m)'
  BY DEF Holders
<1>4. Holders(m)' \subseteq Holders(m)
  BY DEF NobodyNew, Holders
<1> QED
  BY <1>2, <1>3, <1>4 DEF NobodyNew

\* A won claim: the row was claimable, so nobody held the market.
LEMMA LockTaken ==
    ASSUME TypeOK, ClaimExclusive, NEW w \in Workers, Claim(w)
    PROVE  ClaimExclusive'
<1>0. PICK m \in Markets : m = job[w]
  BY JobType DEF Claim
<1>1. pc[w] = "claim" /\ reaped' = reaped
  BY DEF Claim, auxVars
<1>2. CASE Claimable(m)
  <2>1. /\ status' = [status EXCEPT ![m] = "in_flight"]
        /\ pc' = [pc EXCEPT ![w] = "precheck"] /\ job' = job
    BY <1>0, <1>2 DEF Claim, MarkInFlight, GoTo
  <2>2. m \notin reaped => Holders(m) = {}
    BY <1>2 DEF ClaimExclusive, Claimable
  <2>3. Holders(m)' = Holders(m) \cup {w}
    BY <1>0, <1>1, <2>1 DEF Holders, Working, TypeOK, WorkersTyped
  <2>4. \A n \in Markets : n # m => Holders(n)' = Holders(n) /\ status'[n] = status[n]
    BY <1>0, <1>1, <2>1 DEF Holders, Working, TypeOK, WorkersTyped, StoreTypeOK
  <2>5. status'[m] = "in_flight"
    BY <2>1 DEF TypeOK, StoreTypeOK
  <2>6. ASSUME NEW n \in Markets, n \notin reaped', NEW v \in Holders(n)'
        PROVE  Holders(n)' = {v} /\ status'[n] = "in_flight"
    <3>1. CASE n = m
      BY <1>1, <2>2, <2>3, <2>5, <2>6, <3>1
    <3>2. CASE n # m
      BY <1>1, <2>4, <2>6, <3>2 DEF ClaimExclusive
    <3> QED
      BY <3>1, <3>2
  <2> QED
    BY <2>6 DEF ClaimExclusive
<1>3. CASE ~Claimable(m)
  <2>1. NobodyNew
    BY <1>0, <1>1, <1>3 DEF Claim, Idle, NobodyNew, storeVars, Working, TypeOK, WorkersTyped
  <2> QED
    BY <2>1, LockKept
<1> QED
  BY <1>2, <1>3

LEMMA WorkerKeepsLock ==
    ASSUME TypeOK, ClaimExclusive, NEW w \in Workers, WorkerStep(w) \/ WorkerFault(w)
    PROVE  ClaimExclusive'
<1>1. CASE CheckSettled(w) \/ Lock(w)
  <2>1. NobodyNew
    BY <1>1 DEF CheckSettled, Lock, GoTo, Idle, NobodyNew, auxVars, storeVars, Working,
                TypeOK, WorkersTyped
  <2> QED
    BY <2>1, LockKept
<1>2. CASE Precheck(w) \/ PrecheckFails(w)
  <2>1. PICK q : UseQuantity(w, q)
    BY <1>2 DEF Precheck, PrecheckFails
  <2>2. NobodyNew
    BY <2>1 DEF UseQuantity, Return, NobodyNew, storeVars, Working, TypeOK, WorkersTyped
  <2> QED
    BY <2>2, LockKept
<1>3. CASE Build(w) \/ Execute(w) \/ NotSubmitted(w) \/ NoAnswer(w)
  <2>1. NobodyNew
    BY <1>3 DEF Build, Execute, NotSubmitted, NoAnswer, Return, NobodyNew, auxVars,
                storeVars, Working, TypeOK, WorkersTyped
  <2> QED
    BY <2>1, LockKept
<1>4. CASE Report(w)
  <2>0. PICK m \in Markets : m = job[w]
    BY <1>4, JobType DEF Report
  <2>1. pc[w] = "report" /\ reaped' = reaped
    BY <1>4 DEF Report, auxVars
  <2>2. Idle({w})
    BY <1>4 DEF Report
  <2>3. \A n \in Markets : n # m => status'[n] = status[n]
    BY <1>4, <2>0 DEF Report, MarkSettled, MarkFailed, storeVars, TypeOK, StoreTypeOK
  <2>4. m \notin reaped => Holders(m) = {w}
    BY <2>0, <2>1 DEF ClaimExclusive, Holders, Working
  <2>5. m \notin reaped => Holders(m)' = {}
    BY <2>2, <2>4 DEF Idle, Holders, Working, TypeOK, WorkersTyped
  <2>6. \A v \in Workers : pc'[v] \in Working => pc[v] \in Working /\ job'[v] = job[v]
    BY <2>2 DEF Idle, Working, TypeOK, WorkersTyped
  <2>7. NobodyNew
    BY <2>1, <2>3, <2>5, <2>6 DEF NobodyNew
  <2> QED
    BY <2>7, LockKept
<1>5. CASE \E m \in Markets : Deliver(w, m)
  <2>1. NobodyNew
    BY <1>5 DEF Deliver, NobodyNew, auxVars, storeVars, Working, TypeOK, WorkersTyped
  <2> QED
    BY <2>1, LockKept
<1>6. CASE DatabaseFails(w)
  <2>1. \A m \in Markets : status[m] = "in_flight" => status'[m] = "in_flight"
    BY <1>6 DEF DatabaseFails, MarkInFlight, storeVars, TypeOK, StoreTypeOK
  <2>2. NobodyNew
    BY <1>6, <2>1 DEF DatabaseFails, Idle, NobodyNew, auxVars, Working, TypeOK, WorkersTyped
  <2> QED
    BY <2>2, LockKept
<1> QED
  BY <1>1, <1>2, <1>3, <1>4, <1>5, <1>6, LockTaken DEF WorkerStep, WorkerFault

LEMMA EnvironmentKeepsLock ==
    ASSUME TypeOK, ClaimExclusive, EnvironmentStep \/ UNCHANGED vars
    PROVE  ClaimExclusive'
<1>1. CASE \/ UNCHANGED vars
           \/ \E m \in Markets : \/ Enqueue(m) \/ Age(m) \/ AbandonedClaimExpires(m) \/ LiveClaimExpires(m)
  <2>1. pc' = pc /\ job' = job /\ status' = status /\ reaped' = reaped
    BY <1>1 DEF Enqueue, Age, AbandonedClaimExpires, LiveClaimExpires, ClaimExpires, vars, storeVars,
                workerVars, auxVars
  <2> QED
    BY <2>1, LockKept DEF NobodyNew
<1>2. CASE Chain
  <2>1. pc' = pc /\ job' = job /\ status' = status /\ reaped' = reaped
    BY <1>2 DEF Chain, RivalSettles, OwnerTakes, PendingExecutes, PendingLost, storeVars,
                workerVars, auxVars
  <2> QED
    BY <2>1, LockKept DEF NobodyNew
<1>3. ASSUME NEW m \in Markets, Skip(m) PROVE ClaimExclusive'
  <2>1. pc' = pc /\ job' = job /\ reaped' = reaped
    BY <1>3 DEF Skip, workerVars, auxVars
  <2>2. \A n \in Markets : status[n] = "in_flight" => status'[n] = "in_flight"
    BY <1>3 DEF Skip, MarkSkipped, MarkSettled, storeVars, TypeOK, StoreTypeOK
  <2> QED
    BY <2>1, <2>2, LockKept DEF NobodyNew
<1>4. CASE Reap
  <2>1. pc' = pc /\ job' = job
    BY <1>4 DEF Reap, workerVars
  <2>2. reaped' = reaped \cup {m \in StaleClaims : Holders(m) # {}}
    BY <1>4 DEF Reap
  <2>3. \A m \in Markets : m \notin StaleClaims => status'[m] = status[m]
    BY <1>4 DEF Reap, ReclaimStale
  <2>4. \A m \in StaleClaims : m \notin reaped' => Holders(m)' = {}
    BY <2>1, <2>2 DEF Holders
  <2> QED
    BY <2>1, <2>2, <2>3, <2>4, LockKept DEF NobodyNew
<1>5. ASSUME NEW n \in Nodes, Crash(n) PROVE ClaimExclusive'
  <2>1. NobodyNew
    BY <1>5 DEF Crash, Idle, NobodyNew, storeVars, auxVars, Working, TypeOK, WorkersTyped
  <2> QED
    BY <2>1, LockKept
<1> QED
  BY <1>1, <1>2, <1>3, <1>4, <1>5 DEF EnvironmentStep

LEMMA NextKeepsLock ==
    ASSUME TypeOK, ClaimExclusive, [Next]_vars
    PROVE  ClaimExclusive'
BY WorkerKeepsLock, EnvironmentKeepsLock DEF Next, Normal, Fault, EnvironmentStep

\* Unless the reaper took a claim from a worker still at work, at most one worker of
\* all processes works on a market, and its row is in_flight until it reports: the
\* condition in MarkInFlight makes the row a lock (store.go:264-278).
THEOREM ClaimIsLock == Spec => []ClaimExclusive
<1>1. Init => ClaimExclusive
  BY DEF Init, ClaimExclusive, Holders, Working
<1>2. TypeOK /\ ClaimExclusive /\ [Next]_vars => ClaimExclusive'
  BY NextKeepsLock
<1> QED
  BY <1>1, <1>2, TypeCorrect, PTL DEF Spec

-----------------------------------------------------------------------------
Final == \A m \in Markets \ reaped : status[m] = "settled" => status'[m] = "settled"

LEMMA ReportIsFinal ==
    ASSUME TypeOK, ClaimExclusive, NEW w \in Workers, Report(w)
    PROVE  Final
<1>1. job[w] \in Markets /\ w \in Holders(job[w])
  BY JobType DEF Report, Holders, Working
<1>2. \A m \in Markets : m # job[w] => status'[m] = status[m]
  BY <1>1 DEF Report, MarkSettled, MarkFailed, storeVars, TypeOK, StoreTypeOK
<1>3. job[w] \notin reaped => status[job[w]] = "in_flight"
  BY <1>1 DEF ClaimExclusive
<1> QED
  BY <1>2, <1>3 DEF Final

LEMMA StepIsFinal ==
    ASSUME TypeOK, ClaimExclusive, [Next]_vars
    PROVE  Final
<1>1. ASSUME NEW w \in Workers, Claim(w) \/ DatabaseFails(w) PROVE Final
  BY <1>1 DEF Claim, DatabaseFails, Claimable, MarkInFlight, storeVars, Final, TypeOK, StoreTypeOK
<1>2. ASSUME NEW w \in Workers,
             \/ CheckSettled(w) \/ Precheck(w) \/ Lock(w) \/ Build(w) \/ Execute(w)
             \/ \E m \in Markets : Deliver(w, m)
             \/ PrecheckFails(w) \/ NotSubmitted(w) \/ NoAnswer(w)
      PROVE  Final
  BY <1>2 DEF CheckSettled, Precheck, UseQuantity, Lock, Build, Execute, Deliver, PrecheckFails,
              NotSubmitted, NoAnswer, storeVars, Final
<1>3. CASE \E m \in Markets : Skip(m)
  BY <1>3 DEF Skip, MarkSkipped, MarkSettled, storeVars, Final, TypeOK, StoreTypeOK
<1>4. CASE \/ \E m \in Markets : Enqueue(m) \/ Age(m) \/ AbandonedClaimExpires(m) \/ LiveClaimExpires(m)
           \/ Chain
           \/ \E n \in Nodes : Crash(n)
           \/ UNCHANGED vars
  <2>1. status' = status
    BY <1>4 DEF Enqueue, Age, AbandonedClaimExpires, LiveClaimExpires, ClaimExpires, Chain,
                RivalSettles, OwnerTakes, PendingExecutes, PendingLost, Crash, storeVars, vars
  <2> QED
    BY <2>1 DEF Final
<1>5. CASE Reap
  BY <1>5 DEF Reap, ReclaimStale, StaleClaims, Final
<1> QED
  BY <1>1, <1>2, <1>3, <1>4, <1>5, ReportIsFinal
     DEF Next, Normal, Fault, WorkerStep, WorkerFault

\* A settled row stays settled, with the same exception: MarkFailed has no condition
\* on the status it overwrites, and the claim is what protects a settled row from it
\* (store.go:288-294).
THEOREM SettledStays == Spec => SettledIsFinal
<1>1. TypeOK /\ ClaimExclusive /\ [Next]_vars => [Final]_vars
  BY StepIsFinal
<1> QED
  BY <1>1, TypeCorrect, ClaimIsLock, PTL DEF Spec, SettledIsFinal, Final

-----------------------------------------------------------------------------
(***************************************************************************)
(* What the markets table says of the chain is true, and what a keeper of  *)
(* this network settles is settled whole.  Both rest on quantities that    *)
(* only shrink: what a worker read is at least what remains later.         *)
(***************************************************************************)
\* What only goes one way.
OneWay ==
    /\ \A m \in Markets : remaining[m] \in Nat /\ remaining'[m] \in Nat
    /\ \A m \in Markets : remaining'[m] <= remaining[m]
    /\ \A m \in Markets : recordedBy[m] # NoKeeper => recordedBy'[m] = recordedBy[m]
    /\ failedOpen \subseteq failedOpen'

LEMMA RedeemShrinks ==
    ASSUME ChainTypeOK, NEW m \in Markets, Ledger!Redeem(m)
    PROVE  \A n \in Markets : remaining'[n] \in Nat /\ remaining'[n] <= remaining[n]
<1>1. PICK q \in 1..remaining[m] : remaining' = [remaining EXCEPT ![m] = @ - q]
  BY DEF Ledger!Redeem
<1>2. remaining \in [Markets -> Nat]
  BY DEF ChainTypeOK
<1>3. remaining[m] \in Nat /\ q \in Nat /\ q <= remaining[m]
  BY <1>1, <1>2
<1>4. remaining[m] - q \in Nat /\ remaining[m] - q <= remaining[m]
  BY <1>3
<1> QED
  BY <1>1, <1>2, <1>4

LEMMA FailedOpenGrows ==
    ASSUME [Next]_vars
    PROVE  failedOpen \subseteq failedOpen'
<1>1. ASSUME NEW w \in Workers, WorkerStep(w) \/ WorkerFault(w)
      PROVE  failedOpen \subseteq failedOpen'
  BY <1>1 DEF WorkerStep, WorkerFault, CheckSettled, Claim, Precheck, Lock, Build, Execute,
              Report, Deliver, DatabaseFails, PrecheckFails, NotSubmitted, NoAnswer, auxVars
<1>2. CASE EnvironmentStep \/ UNCHANGED vars
  BY <1>2 DEF EnvironmentStep, Enqueue, Age, Skip, AbandonedClaimExpires, LiveClaimExpires, Reap,
              Chain, RivalSettles, OwnerTakes, PendingExecutes, PendingLost, Crash,
              auxVars, vars
<1> QED
  BY <1>1, <1>2 DEF Next, Normal, Fault, EnvironmentStep

LEMMA StepIsOneWay ==
    ASSUME SettlerAssumption, PositionAssumption, TypeOK, QuantityPositive, [Next]_vars
    PROVE  OneWay
<1>1. ChainTypeOK /\ \A m \in Markets : remaining[m] \in Nat
  BY DEF TypeOK, ChainTypeOK
<1>2. CASE UNCHANGED <<remaining, recordedBy>>
  BY <1>1, <1>2, FailedOpenGrows DEF OneWay
<1>3. ASSUME NEW m \in Markets, Ledger!OwnerRedeems(m) \/ \E k \in Keepers : Ledger!KeeperSettles(m, k)
      PROVE  OneWay
  <2>1. \A n \in Markets : remaining'[n] \in Nat /\ remaining'[n] <= remaining[n]
    BY <1>1, <1>3, RedeemShrinks DEF Ledger!OwnerRedeems, Ledger!KeeperSettles
  <2>2. \A n \in Markets : recordedBy[n] # NoKeeper => recordedBy'[n] = recordedBy[n]
    BY <1>1, <1>3 DEF Ledger!OwnerRedeems, Ledger!KeeperSettles, ChainTypeOK
  <2> QED
    BY <1>1, <2>1, <2>2, FailedOpenGrows DEF OneWay
<1> QED
  BY <1>2, <1>3, LedgerStep DEF Ledger!Next

-----------------------------------------------------------------------------
(***************************************************************************)
(* Unless the precheck of the market failed open, the quantity a worker or *)
(* a pending block carries is at least what remains, and at most what was  *)
(* minted.                                                                 *)
(***************************************************************************)
Carries(m, q) == m \in failedOpen \/ (remaining[m] <= q /\ q <= Minted[m])

Carried ==
    /\ \A m \in Markets : remaining[m] <= Minted[m]
    /\ \A w \in Workers : pc[w] \in Submitting => Carries(job[w], qty[w])
    /\ \A p \in pending : Carries(p.market, p.quantity)

LEMMA StillCarries ==
    ASSUME PositionAssumption, OneWay, NEW m \in Markets, NEW q \in Nat, Carries(m, q)
    PROVE  m \in failedOpen' \/ (remaining'[m] <= q /\ q <= Minted[m])
<1>1. remaining[m] \in Nat /\ remaining'[m] \in Nat /\ remaining'[m] <= remaining[m]
  BY DEF OneWay
<1> QED
  BY <1>1 DEF OneWay, Carries

LEMMA SubmittingType ==
    ASSUME TypeOK, NEW w \in Workers, pc[w] \in Submitting
    PROVE  job[w] \in Markets /\ qty[w] \in Nat
BY DEF Submitting, TypeOK, WorkersTyped

LEMMA PendingType ==
    ASSUME TypeOK, NEW p \in pending
    PROVE  p.market \in Markets /\ p.quantity \in Nat /\ p.keeper \in Keepers
BY DEF TypeOK, ChainTypeOK, PTB

\* Workers other than w keep what they carry.
LEMMA CarriedBy ==
    ASSUME PositionAssumption, TypeOK, Carried, OneWay,
           \A p \in pending' : p \in pending \/ p.market \in failedOpen'
                                \/ (remaining'[p.market] <= p.quantity /\ p.quantity <= Minted[p.market]),
           \A w \in Workers : pc'[w] \in Submitting =>
               \/ pc[w] \in Submitting /\ qty'[w] = qty[w] /\ job'[w] = job[w]
               \/ job'[w] \in failedOpen'
               \/ remaining'[job'[w]] <= qty'[w] /\ qty'[w] <= Minted[job'[w]]
    PROVE  Carried'
<1>1. \A m \in Markets : remaining'[m] <= Minted[m]
  BY DEF PositionAssumption, OneWay, Carried
<1>2. ASSUME NEW w \in Workers, pc'[w] \in Submitting
      PROVE  job'[w] \in failedOpen' \/ (remaining'[job'[w]] <= qty'[w] /\ qty'[w] <= Minted[job'[w]])
  <2>1. CASE pc[w] \in Submitting /\ qty'[w] = qty[w] /\ job'[w] = job[w]
    BY <2>1, SubmittingType, StillCarries DEF Carried
  <2> QED
    BY <1>2, <2>1
<1>3. ASSUME NEW p \in pending'
      PROVE  \/ p.market \in failedOpen'
             \/ remaining'[p.market] <= p.quantity /\ p.quantity <= Minted[p.market]
  <2>1. CASE p \in pending
    BY <2>1, PendingType, StillCarries DEF Carried
  <2> QED
    BY <1>3, <2>1
<1> QED
  BY <1>1, <1>2, <1>3 DEF Carried, Carries

LEMMA CarriedStep ==
    ASSUME SettlerAssumption, PositionAssumption, TypeOK, QuantityPositive, Carried, [Next]_vars
    PROVE  Carried'
<1>0. OneWay
  BY StepIsOneWay
<1>1. CASE Kept
  BY <1>0, <1>1, CarriedBy DEF Kept
<1>2. ASSUME NEW w \in Workers, Precheck(w) PROVE Carried'
  <2>0. PICK m \in Markets : m = job[w]
    BY <1>2, JobType DEF Precheck, UseQuantity
  <2>1. UseQuantity(w, remaining[m])
    BY <1>2, <2>0 DEF Precheck
  <2>2. pending' = pending /\ remaining' = remaining /\ job' = job
    BY <2>1 DEF UseQuantity, Return, chainVars
  <2>3. \A v \in Workers : pc'[v] \in Submitting =>
          \/ pc[v] \in Submitting /\ qty'[v] = qty[v]
          \/ v = w /\ qty'[v] = remaining[m]
    BY <2>1 DEF UseQuantity, Return, Submitting, TypeOK, WorkersTyped
  <2>4. remaining[m] <= remaining[m] /\ remaining[m] <= Minted[m]
    BY DEF Carried, TypeOK, ChainTypeOK
  <2> QED
    BY <1>0, <2>0, <2>2, <2>3, <2>4, CarriedBy
<1>3. ASSUME NEW w \in Workers, PrecheckFails(w) PROVE Carried'
  <2>1. PICK q : UseQuantity(w, q)
    BY <1>3 DEF PrecheckFails
  <2>2. pending' = pending /\ job' = job /\ job[w] \in failedOpen'
    BY <1>3, <2>1 DEF PrecheckFails, UseQuantity, Return, chainVars
  <2>3. \A v \in Workers : pc'[v] \in Submitting =>
          v = w \/ (pc[v] \in Submitting /\ qty'[v] = qty[v])
    BY <2>1 DEF UseQuantity, Return, Submitting, TypeOK, WorkersTyped
  <2> QED
    BY <1>0, <2>2, <2>3, CarriedBy
<1>4. ASSUME NEW w \in Workers, NoAnswer(w) PROVE Carried'
  <2>1. \A v \in Workers : pc'[v] \in Submitting =>
          pc[v] \in Submitting /\ qty'[v] = qty[v] /\ job'[v] = job[v]
    BY <1>4 DEF NoAnswer, Return, Submitting, TypeOK, WorkersTyped
  <2>2. PICK m \in Markets, q \in Nat : m = job[w] /\ q = qty[w] /\ Carries(m, q)
    BY <1>4, SubmittingType DEF NoAnswer, Carried, Submitting
  <2>3. m \in failedOpen' \/ (remaining'[m] <= q /\ q <= Minted[m])
    BY <1>0, <2>2, StillCarries
  <2>4. \A p \in pending' : p \in pending \/ (p.market = m /\ p.quantity = q)
    BY <1>4, <2>2 DEF NoAnswer, SubmitUnanswered
  <2> QED
    BY <1>0, <2>1, <2>3, <2>4, CarriedBy
<1> QED
  BY <1>1, <1>2, <1>3, <1>4, StepKeeps

LEMMA AlwaysCarried == Spec => []Carried
<1>1. Init => Carried
  BY PositionAssumption DEF Init, ChainInit, Carried, Submitting, PositionAssumption
<1>2. TypeOK /\ QuantityPositive /\ Carried /\ [Next]_vars => Carried'
  BY CarriedStep, SettlerAssumption, PositionAssumption
<1> QED
  BY <1>1, <1>2, TypeCorrect, QuantitiesPositive, PTL DEF Spec

-----------------------------------------------------------------------------
\* Nobody of this network is newly credited but by a block that takes what is left.
LEMMA BlockEmpties ==
    ASSUME ChainTypeOK, NEW m \in Markets, NEW q \in Nat, NEW k, Carries(m, q),
           ExecutePTB(m, q, k), NEW n \in Markets
    PROVE  recordedBy'[n] = recordedBy[n] \/ n \in failedOpen \/ remaining'[n] = 0
<1>1. CASE Verdict(m, q) = "ok"
  <2>1. remaining[m] \in Nat /\ q <= remaining[m]
    BY <1>1 DEF Verdict, ChainTypeOK
  <2>2. CASE n = m /\ m \notin failedOpen
    <3>1. remaining[m] - q = 0
      BY <2>1, <2>2 DEF Carries
    <3> QED
      BY <1>1, <2>2, <3>1 DEF ExecutePTB, ChainTypeOK
  <2>3. CASE n # m
    BY <1>1, <2>3 DEF ExecutePTB, ChainTypeOK
  <2> QED
    BY <2>2, <2>3
<1>2. CASE Verdict(m, q) # "ok"
  BY <1>2 DEF ExecutePTB
<1> QED
  BY <1>1, <1>2

LEMMA CreditEmpties ==
    ASSUME SettlerAssumption, PositionAssumption, TypeOK, Carried, [Next]_vars, NEW n \in Markets
    PROVE  \/ recordedBy'[n] = recordedBy[n]
           \/ recordedBy'[n] \notin Nodes
           \/ n \in failedOpen
           \/ remaining'[n] = 0
<1>1. ASSUME NEW w \in Workers, Execute(w)
      PROVE  recordedBy'[n] = recordedBy[n] \/ n \in failedOpen \/ remaining'[n] = 0
  <2>1. PICK m \in Markets, q \in Nat : m = job[w] /\ q = qty[w] /\ Carries(m, q)
    BY <1>1, SubmittingType DEF Execute, Carried, Submitting
  <2>2. CASE ExecutePTB(m, q, NodeOf[w])
    BY <2>1, <2>2, BlockEmpties DEF TypeOK
  <2> QED
    BY <1>1, <2>1, <2>2 DEF Execute, chainVars
<1>2. ASSUME NEW p \in pending, PendingExecutes(p)
      PROVE  recordedBy'[n] = recordedBy[n] \/ n \in failedOpen \/ remaining'[n] = 0
  BY <1>2, PendingType, BlockEmpties DEF PendingExecutes, Carried, TypeOK
<1>3. ASSUME NEW m \in Markets, NEW q \in 1..Minted[m], RivalSettles(m, q)
      PROVE  recordedBy'[n] = recordedBy[n] \/ recordedBy'[n] \notin Nodes
  BY <1>3 DEF RivalSettles, ExecutePTB, TypeOK, ChainTypeOK, SettlerAssumption
<1>4. ASSUME NEW w \in Workers,
             \/ CheckSettled(w) \/ Claim(w) \/ Precheck(w) \/ Lock(w) \/ Build(w)
             \/ Report(w) \/ \E m \in Markets : Deliver(w, m)
             \/ WorkerFault(w)
      PROVE  recordedBy' = recordedBy
  BY <1>4 DEF CheckSettled, Claim, Precheck, UseQuantity, Lock, Build, Report, Deliver,
              WorkerFault, DatabaseFails, PrecheckFails, NotSubmitted, NoAnswer,
              SubmitUnanswered, chainVars
<1>5. CASE \/ \E m \in Markets : \/ Enqueue(m) \/ Age(m) \/ Skip(m)
                                 \/ AbandonedClaimExpires(m) \/ LiveClaimExpires(m)
                                 \/ \E q \in 1..Minted[m] : OwnerTakes(m, q)
           \/ Reap
           \/ \E p \in pending : PendingLost(p)
           \/ \E v \in Nodes : Crash(v)
           \/ UNCHANGED vars
  BY <1>5 DEF Enqueue, Age, Skip, AbandonedClaimExpires, LiveClaimExpires, Reap, PendingLost,
              PendingDropped, OwnerTakes, OwnerRedeems, Crash, chainVars, vars
<1> QED
  BY <1>1, <1>2, <1>3, <1>4, <1>5 DEF Next, Normal, Fault, WorkerStep, Chain

LEMMA EmptiesStep ==
    ASSUME SettlerAssumption, PositionAssumption, TypeOK, QuantityPositive, Carried,
           SettlementEmptiesPosition, [Next]_vars
    PROVE  SettlementEmptiesPosition'
<1> SUFFICES ASSUME NEW m \in Markets, m \notin failedOpen', recordedBy'[m] \in Nodes
             PROVE  remaining'[m] = 0
  BY DEF SettlementEmptiesPosition
<1>1. OneWay
  BY StepIsOneWay
<1>2. m \notin failedOpen
  BY <1>1 DEF OneWay
<1>3. CASE recordedBy'[m] = recordedBy[m]
  <2>1. remaining[m] = 0 /\ remaining'[m] <= remaining[m] /\ remaining'[m] \in Nat
    BY <1>1, <1>2, <1>3 DEF OneWay, SettlementEmptiesPosition
  <2> QED
    BY <2>1
<1> QED
  BY <1>2, <1>3, CreditEmpties

\* A position this network is credited for has nothing left, unless its precheck
\* failed open: the registry would pay nobody for the rest (deepbook.go:590-608).
THEOREM SettledWhole == Spec => []SettlementEmptiesPosition
<1>1. Init => SettlementEmptiesPosition
  BY ChainAssumption, SettlerAssumption
     DEF Init, ChainInit, SettlementEmptiesPosition, ChainAssumption, SettlerAssumption
<1>2. TypeOK /\ QuantityPositive /\ Carried /\ SettlementEmptiesPosition /\ [Next]_vars
         => SettlementEmptiesPosition'
  BY EmptiesStep, SettlerAssumption, PositionAssumption
<1> QED
  BY <1>1, <1>2, TypeCorrect, QuantitiesPositive, AlwaysCarried, PTL DEF Spec

-----------------------------------------------------------------------------
(***************************************************************************)
(* What a worker is about to report is true, and stays true until it does. *)
(***************************************************************************)
Redeemed(m) == m \in failedOpen \/ remaining[m] < Minted[m]

ResultTrue(m, r) ==
    /\ r = "ok" => recordedBy[m] \in Nodes
    /\ r = "already_settled" => recordedBy[m] # NoKeeper
    /\ r = "already_redeemed" => Redeemed(m)

HashTrue(m, h) ==
    /\ h # "null"
    /\ h = "digest" => recordedBy[m] \in Nodes
    /\ h = "external" => recordedBy[m] # NoKeeper
    /\ h = "already_redeemed" => Redeemed(m)
    /\ h = "out_of_range" => m \in OutOfRange

ResultsTrue == \A w \in Workers : pc[w] = "report" => ResultTrue(job[w], result[w])

LEMMA HashCases ==
    ASSUME TypeOK
    PROVE  HashTellsTruth <=> \A m \in Markets : status[m] = "settled" => HashTrue(m, txHash[m])
<1> DEFINE Branch(m) ==
             CASE txHash[m] = "digest" -> recordedBy[m] \in Nodes
               [] txHash[m] = "external" -> recordedBy[m] # NoKeeper
               [] txHash[m] = "already_redeemed" -> m \in failedOpen \/ remaining[m] < Minted[m]
               [] txHash[m] = "out_of_range" -> m \in OutOfRange
               [] OTHER -> FALSE
<1>1. ASSUME NEW m \in Markets PROVE HashTrue(m, txHash[m]) <=> Branch(m)
  <2>1. txHash[m] \in Hashes
    BY DEF TypeOK, StoreTypeOK
  <2>2. CASE txHash[m] = "digest"
    BY <2>2 DEF HashTrue
  <2>3. CASE txHash[m] = "external"
    BY <2>3 DEF HashTrue
  <2>4. CASE txHash[m] = "already_redeemed"
    BY <2>4 DEF HashTrue, Redeemed
  <2>5. CASE txHash[m] = "out_of_range"
    BY <2>5 DEF HashTrue
  <2>6. CASE txHash[m] = "null"
    BY <2>6 DEF HashTrue
  <2> QED
    BY <2>1, <2>2, <2>3, <2>4, <2>5, <2>6 DEF Hashes
<1> QED
  BY <1>1 DEF HashTellsTruth

LEMMA StillTrue ==
    ASSUME SettlerAssumption, ChainAssumption, PositionAssumption, OneWay, NEW m \in Markets
    PROVE  /\ \A r : ResultTrue(m, r) => ResultTrue(m, r)'
           /\ \A h : HashTrue(m, h) => HashTrue(m, h)'
<1>1. recordedBy[m] \in Nodes => recordedBy'[m] \in Nodes
  BY DEF OneWay, SettlerAssumption, ChainAssumption
<1>2. recordedBy[m] # NoKeeper => recordedBy'[m] # NoKeeper
  BY DEF OneWay
<1>3. Redeemed(m) => Redeemed(m)'
  <2>1. remaining[m] \in Nat /\ remaining'[m] \in Nat /\ Minted[m] \in Nat
    BY DEF OneWay, PositionAssumption
  <2> QED
    BY <2>1 DEF OneWay, Redeemed
<1> QED
  BY <1>1, <1>2, <1>3 DEF ResultTrue, HashTrue

\* A worker that does not change its result leaves all results true.
LEMMA ResultsKept ==
    ASSUME SettlerAssumption, ChainAssumption, PositionAssumption, TypeOK, OneWay, ResultsTrue,
           \A w \in Workers : pc'[w] = "report" =>
               \/ pc[w] = "report" /\ job'[w] = job[w] /\ result'[w] = result[w]
               \/ \E m \in Markets : \E r \in Results : job'[w] = m /\ result'[w] = r /\ ResultTrue(m, r)'
    PROVE  ResultsTrue'
<1>1. ASSUME NEW w \in Workers, pc[w] = "report", job'[w] = job[w], result'[w] = result[w]
      PROVE  \E m \in Markets : \E r \in Results : job'[w] = m /\ result'[w] = r /\ ResultTrue(m, r)'
  <2>1. PICK m \in Markets, r \in Results : m = job[w] /\ r = result[w]
    BY <1>1, JobType DEF TypeOK, WorkersTyped
  <2>2. ResultTrue(m, r)
    BY <1>1, <2>1 DEF ResultsTrue
  <2> QED
    BY <1>1, <2>1, <2>2, StillTrue
<1> QED
  BY <1>1 DEF ResultsTrue, ResultTrue, Redeemed

\* The one worker that gets a new result in a step gets a true one.
NewResult(w, r) ==
    /\ result'[w] = r
    /\ job' = job
    /\ \A v \in Workers : v # w /\ pc'[v] = "report" => pc[v] = "report" /\ result'[v] = result[v]

LEMMA OneResult ==
    ASSUME SettlerAssumption, ChainAssumption, PositionAssumption, TypeOK, OneWay, ResultsTrue,
           NEW w \in Workers, NEW m \in Markets, m = job[w], NEW r \in Results, NewResult(w, r),
           ResultTrue(m, r)'
    PROVE  ResultsTrue'
<1>1. ASSUME NEW v \in Workers, pc'[v] = "report"
      PROVE  \/ pc[v] = "report" /\ job'[v] = job[v] /\ result'[v] = result[v]
             \/ \E n \in Markets : \E s \in Results :
                    job'[v] = n /\ result'[v] = s /\ ResultTrue(n, s)'
  BY <1>1 DEF NewResult
<1> QED
  BY <1>1, ResultsKept

LEMMA VerdictTrue ==
    ASSUME SettlerAssumption, PositionAssumption, ChainTypeOK, OneWay, NEW m \in Markets,
           NEW q \in Nat, NEW k \in Nodes, Carries(m, q), ExecutePTB(m, q, k),
           NEW r, r = Verdict(m, q)
    PROVE  ResultTrue(m, r)'
<1>1. r = "ok" => recordedBy'[m] \in Nodes
  BY DEF ExecutePTB, ChainTypeOK
<1>2. r = "already_settled" => recordedBy'[m] # NoKeeper
  BY DEF Verdict, OneWay
<1>3. r = "already_redeemed" => m \in failedOpen' \/ remaining'[m] < Minted[m]
  <2>1. r = "already_redeemed" => q > remaining[m]
    BY DEF Verdict
  <2>2. remaining[m] \in Nat /\ remaining'[m] \in Nat /\ Minted[m] \in Nat
    BY DEF OneWay, PositionAssumption
  <2> QED
    BY <2>1, <2>2 DEF Carries, OneWay
<1> QED
  BY <1>1, <1>2, <1>3 DEF ResultTrue, Redeemed

LEMMA ResultsStep ==
    ASSUME SettlerAssumption, ChainAssumption, PositionAssumption, TypeOK, QuantityPositive,
           Carried, ResultsTrue, [Next]_vars
    PROVE  ResultsTrue'
<1>0. OneWay
  BY StepIsOneWay
<1>1. ASSUME NEW w \in Workers, Precheck(w) \/ PrecheckFails(w) PROVE ResultsTrue'
  <2>0. PICK m \in Markets : m = job[w]
    BY <1>1, JobType DEF Precheck, PrecheckFails, UseQuantity
  <2>1. PICK q : UseQuantity(w, q) /\ (q = remaining[m] \/ m \in failedOpen')
    BY <1>1, <2>0 DEF Precheck, PrecheckFails
  <2>2. CASE q = 0
    <3>1. NewResult(w, "already_redeemed")
      BY <2>1, <2>2 DEF UseQuantity, Return, NewResult, TypeOK, WorkersTyped
    <3>2. m \in failedOpen' \/ remaining'[m] < Minted[m]
      <4>1. remaining' = remaining /\ Minted[m] \in Nat /\ Minted[m] # 0
        BY <2>1 DEF UseQuantity, chainVars, PositionAssumption
      <4> QED
        BY <2>1, <2>2, <4>1
    <3> QED
      BY <1>0, <2>0, <3>1, <3>2, OneResult DEF ResultTrue, Redeemed, Results
  <2>3. CASE q # 0
    <3>1. \A v \in Workers : pc'[v] = "report" =>
            pc[v] = "report" /\ job'[v] = job[v] /\ result'[v] = result[v]
      BY <2>1, <2>3 DEF UseQuantity, TypeOK, WorkersTyped
    <3> QED
      BY <1>0, <3>1, ResultsKept
  <2> QED
    BY <2>2, <2>3
<1>2. ASSUME NEW w \in Workers, Execute(w) PROVE ResultsTrue'
  <2>1. PICK m \in Markets, q \in Nat : m = job[w] /\ q = qty[w] /\ Carries(m, q)
    BY <1>2, SubmittingType DEF Execute, Carried, Submitting
  <2>2. CASE w \in credFresh
    <3>1. ExecutePTB(m, q, NodeOf[w])
      BY <1>2, <2>1, <2>2 DEF Execute
    <3>2. PICK r \in Results : r = Verdict(m, q)
      BY VerdictType DEF Results
    <3>3. ResultTrue(m, r)'
      BY <1>0, <2>1, <3>1, <3>2, VerdictTrue, NodeIsKeeper DEF TypeOK
    <3>4. NewResult(w, r)
      BY <1>2, <2>1, <2>2, <3>2 DEF Execute, Return, NewResult, TypeOK, WorkersTyped
    <3> QED
      BY <1>0, <2>1, <3>2, <3>3, <3>4, OneResult
  <2>3. CASE w \notin credFresh
    <3>1. NewResult(w, "error")
      BY <1>2, <2>3 DEF Execute, Return, NewResult, TypeOK, WorkersTyped
    <3> QED
      BY <1>0, <2>1, <3>1, OneResult DEF ResultTrue, Results
  <2> QED
    BY <2>2, <2>3
<1>3. ASSUME NEW w \in Workers, NotSubmitted(w) \/ NoAnswer(w) PROVE ResultsTrue'
  <2>1. job[w] \in Markets
    BY <1>3, JobType DEF NotSubmitted, NoAnswer
  <2>2. NewResult(w, "error") \/ NewResult(w, "gas")
    BY <1>3 DEF NotSubmitted, NoAnswer, Return, NewResult, TypeOK, WorkersTyped
  <2> QED
    BY <1>0, <2>1, <2>2, OneResult DEF ResultTrue, Results
<1>4. ASSUME \/ \E w \in Workers :
                  \/ CheckSettled(w) \/ Claim(w) \/ Lock(w) \/ Build(w) \/ Report(w)
                  \/ DatabaseFails(w) \/ \E m \in Markets : Deliver(w, m)
             \/ EnvironmentStep
             \/ UNCHANGED vars
      PROVE  ResultsTrue'
  <2>1. \A v \in Workers : pc'[v] = "report" =>
          pc[v] = "report" /\ job'[v] = job[v] /\ result'[v] = result[v]
    <3>1. ASSUME NEW w \in Workers,
                 \/ CheckSettled(w) \/ Claim(w) \/ Lock(w) \/ Build(w) \/ Report(w)
                 \/ DatabaseFails(w) \/ \E m \in Markets : Deliver(w, m)
          PROVE  \A v \in Workers : pc'[v] = "report" =>
                   pc[v] = "report" /\ job'[v] = job[v] /\ result'[v] = result[v]
      BY <3>1 DEF CheckSettled, Claim, Lock, Build, Report, DatabaseFails, Deliver, GoTo, Idle,
                  TypeOK, WorkersTyped
    <3>2. CASE \E n \in Nodes : Crash(n)
      BY <3>2 DEF Crash, Idle, TypeOK, WorkersTyped
    <3>3. CASE \/ Chain
               \/ \E m \in Markets : \/ Enqueue(m) \/ Age(m) \/ Skip(m)
                                     \/ AbandonedClaimExpires(m) \/ LiveClaimExpires(m)
               \/ Reap
               \/ UNCHANGED vars
      BY <3>3 DEF Chain, RivalSettles, OwnerTakes, PendingExecutes, PendingLost, Enqueue, Age, Skip,
                  AbandonedClaimExpires, LiveClaimExpires, Reap, workerVars, vars
    <3> QED
      BY <1>4, <3>1, <3>2, <3>3 DEF EnvironmentStep
  <2> QED
    BY <1>0, <2>1, ResultsKept
<1> QED
  BY <1>1, <1>2, <1>3, <1>4 DEF Next, Normal, Fault, WorkerStep, WorkerFault, EnvironmentStep

LEMMA AlwaysTrueResults == Spec => []ResultsTrue
<1>1. Init => ResultsTrue
  BY DEF Init, ResultsTrue
<1>2. TypeOK /\ QuantityPositive /\ Carried /\ ResultsTrue /\ [Next]_vars => ResultsTrue'
  BY ResultsStep, SettlerAssumption, ChainAssumption, PositionAssumption
<1> QED
  BY <1>1, <1>2, TypeCorrect, QuantitiesPositive, AlwaysCarried, PTL DEF Spec

-----------------------------------------------------------------------------
(***************************************************************************)
(* A row becomes settled by a report of a true result, or by a skip.       *)
(***************************************************************************)
HashesTrue == \A m \in Markets : status[m] = "settled" => HashTrue(m, txHash[m])

LEMMA HashesKept ==
    ASSUME SettlerAssumption, ChainAssumption, PositionAssumption, TypeOK, OneWay, HashesTrue,
           \A m \in Markets : status'[m] = "settled" =>
               \/ status[m] = "settled" /\ txHash'[m] = txHash[m]
               \/ \E h \in Hashes : txHash'[m] = h /\ HashTrue(m, h)
    PROVE  HashesTrue'
<1>1. ASSUME NEW m \in Markets, status'[m] = "settled"
      PROVE  \E h : txHash'[m] = h /\ HashTrue(m, h)'
  <2>1. PICK h : txHash'[m] = h /\ HashTrue(m, h)
    BY <1>1 DEF HashesTrue
  <2> QED
    BY <2>1, StillTrue
<1> QED
  BY <1>1 DEF HashesTrue, HashTrue, Redeemed

LEMMA HashesStep ==
    ASSUME SettlerAssumption, ChainAssumption, PositionAssumption, TypeOK, QuantityPositive,
           ResultsTrue, HashesTrue, [Next]_vars
    PROVE  HashesTrue'
<1>0. OneWay
  BY StepIsOneWay
<1>1. ASSUME NEW w \in Workers, Report(w) PROVE HashesTrue'
  <2>0. PICK m \in Markets, r \in Results : m = job[w] /\ r = result[w]
    BY <1>1, JobType DEF Report, TypeOK, WorkersTyped
  <2>1. ResultTrue(m, r)
    BY <1>1, <2>0 DEF Report, ResultsTrue
  <2>2. \/ r = "ok" /\ MarkSettled(m, "digest")
        \/ r = "already_settled" /\ MarkSettled(m, "external")
        \/ r = "already_redeemed" /\ MarkSettled(m, "already_redeemed")
        \/ UNCHANGED storeVars
        \/ MarkFailed(m)
    BY <1>1, <2>0 DEF Report, Results
  <2>3. CASE UNCHANGED storeVars \/ MarkFailed(m)
    <3>1. \A n \in Markets : status'[n] = "settled" =>
            status[n] = "settled" /\ txHash'[n] = txHash[n]
      BY <2>3 DEF MarkFailed, storeVars, TypeOK, StoreTypeOK
    <3> QED
      BY <1>0, <3>1, HashesKept
  <2>4. ASSUME NEW h \in Hashes, MarkSettled(m, h), HashTrue(m, h) PROVE HashesTrue'
    <3>1. \A n \in Markets : n # m => status'[n] = status[n] /\ txHash'[n] = txHash[n]
      BY <2>4 DEF MarkSettled, TypeOK, StoreTypeOK
    <3>2. txHash'[m] = h
      BY <2>4 DEF MarkSettled, TypeOK, StoreTypeOK
    <3> QED
      BY <1>0, <2>4, <3>1, <3>2, HashesKept
  <2> QED
    BY <2>1, <2>2, <2>3, <2>4 DEF ResultTrue, HashTrue, Hashes
<1>2. ASSUME NEW m \in Markets, Skip(m) PROVE HashesTrue'
  <2>1. HashTrue(m, "out_of_range")
    BY <1>2 DEF Skip, HashTrue
  <2>2. \A n \in Markets : status'[n] = "settled" =>
          \/ status[n] = "settled" /\ txHash'[n] = txHash[n]
          \/ n = m /\ txHash'[n] = "out_of_range"
    BY <1>2 DEF Skip, MarkSkipped, MarkSettled, storeVars, TypeOK, StoreTypeOK
  <2> QED
    BY <1>0, <2>1, <2>2, HashesKept DEF Hashes
<1>3. ASSUME \/ \E w \in Workers :
                  \/ CheckSettled(w) \/ Claim(w) \/ Precheck(w) \/ Lock(w) \/ Build(w) \/ Execute(w)
                  \/ \E m \in Markets : Deliver(w, m)
                  \/ WorkerFault(w)
             \/ \E m \in Markets : Enqueue(m) \/ Age(m) \/ AbandonedClaimExpires(m) \/ LiveClaimExpires(m)
             \/ Reap
             \/ Chain
             \/ \E n \in Nodes : Crash(n)
             \/ UNCHANGED vars
      PROVE  HashesTrue'
  <2>1. \/ \E m \in Markets : MarkInFlight(m) \/ ClaimExpires(m)
        \/ ReclaimStale
        \/ UNCHANGED storeVars
    <3>1. ASSUME NEW w \in Workers, Claim(w) \/ DatabaseFails(w)
          PROVE  UNCHANGED storeVars \/ \E m \in Markets : MarkInFlight(m)
      BY <3>1, JobType DEF Claim, DatabaseFails
    <3>2. ASSUME NEW w \in Workers,
                 \/ CheckSettled(w) \/ Precheck(w) \/ Lock(w) \/ Build(w) \/ Execute(w)
                 \/ \E m \in Markets : Deliver(w, m)
                 \/ PrecheckFails(w) \/ NotSubmitted(w) \/ NoAnswer(w)
          PROVE  UNCHANGED storeVars
      BY <3>2 DEF CheckSettled, Precheck, UseQuantity, Lock, Build, Execute, Deliver,
                  PrecheckFails, NotSubmitted, NoAnswer
    <3>3. CASE \/ \E m \in Markets : Enqueue(m) \/ Age(m)
               \/ Chain
               \/ \E n \in Nodes : Crash(n)
               \/ UNCHANGED vars
      BY <3>3 DEF Enqueue, Age, Chain, RivalSettles, OwnerTakes, PendingExecutes, PendingLost, Crash,
                  vars
    <3> QED
      BY <1>3, <3>1, <3>2, <3>3 DEF WorkerFault, AbandonedClaimExpires, LiveClaimExpires, Reap
  <2>2. \A n \in Markets : status'[n] = "settled" =>
          status[n] = "settled" /\ txHash'[n] = txHash[n]
    BY <2>1 DEF MarkInFlight, ClaimExpires, ReclaimStale, storeVars, TypeOK, StoreTypeOK
  <2> QED
    BY <1>0, <2>2, HashesKept
<1> QED
  BY <1>1, <1>2, <1>3 DEF Next, Normal, Fault, WorkerStep

LEMMA AlwaysTrueHashes == Spec => []HashesTrue
<1>1. Init => HashesTrue
  BY DEF Init, StoreInit, HashesTrue
<1>2. TypeOK /\ QuantityPositive /\ ResultsTrue /\ HashesTrue /\ [Next]_vars => HashesTrue'
  BY HashesStep, SettlerAssumption, ChainAssumption, PositionAssumption
<1> QED
  BY <1>1, <1>2, TypeCorrect, QuantitiesPositive, AlwaysTrueResults, PTL DEF Spec

\* The tx_hash of a settled row is true of the chain, whoever wrote it, and however
\* late: also a worker whose claim was reclaimed reports the truth (settler.go:84-107).
THEOREM HashesTellTruth == Spec => []HashTellsTruth
<1>1. TypeOK /\ HashesTrue => HashTellsTruth
  BY HashCases DEF HashesTrue
<1> QED
  BY <1>1, TypeCorrect, AlwaysTrueHashes, PTL

-----------------------------------------------------------------------------
(***************************************************************************)
(* settleMu: at most one worker of a process is between Lock and Unlock.   *)
(* Hence the references a worker fetched are outdated only by a block of   *)
(* the process that nobody waits for any more.                             *)
(***************************************************************************)
Locked(w) == pc[w] \in {"build", "execute"}

OneSubmits ==
    \A v, w \in Workers : Locked(v) /\ Locked(w) /\ NodeOf[v] = NodeOf[w] => v = w

\* Only Lock lets a worker in, and it sees nobody of the process inside.
LEMMA OnlyLockEnters ==
    ASSUME TypeOK, [Next]_vars
    PROVE  \/ \A w \in Workers : Locked(w)' => Locked(w)
           \/ \E w \in Workers : Lock(w)
<1>1. ASSUME NEW w \in Workers,
             \/ CheckSettled(w) \/ Claim(w) \/ Precheck(w) \/ Build(w) \/ Execute(w) \/ Report(w)
             \/ \E m \in Markets : Deliver(w, m)
      PROVE  \A v \in Workers : Locked(v)' => Locked(v)
  <2>1. CASE CheckSettled(w) \/ Claim(w) \/ Report(w)
    BY <2>1 DEF CheckSettled, Claim, Report, GoTo, Idle, Locked, TypeOK, WorkersTyped
  <2>2. CASE Precheck(w) \/ Build(w) \/ Execute(w)
    BY <2>2 DEF Precheck, UseQuantity, Build, Execute, Return, Locked, TypeOK, WorkersTyped
  <2>3. CASE \E m \in Markets : Deliver(w, m)
    BY <2>3 DEF Deliver, Locked, TypeOK, WorkersTyped
  <2> QED
    BY <1>1, <2>1, <2>2, <2>3
<1>2. ASSUME NEW w \in Workers, WorkerFault(w)
      PROVE  \A v \in Workers : Locked(v)' => Locked(v)
  <2>1. CASE DatabaseFails(w)
    BY <2>1 DEF DatabaseFails, Idle, Locked
  <2>2. CASE PrecheckFails(w)
    BY <2>2 DEF PrecheckFails, UseQuantity, Return, Locked, TypeOK, WorkersTyped
  <2>3. CASE NotSubmitted(w) \/ NoAnswer(w)
    BY <2>3 DEF NotSubmitted, NoAnswer, Return, Locked, TypeOK, WorkersTyped
  <2> QED
    BY <1>2, <2>1, <2>2, <2>3 DEF WorkerFault
<1>3. CASE EnvironmentStep \/ UNCHANGED vars
  <2>1. CASE \E n \in Nodes : Crash(n)
    BY <2>1 DEF Crash, Idle, Locked
  <2>2. CASE ~ \E n \in Nodes : Crash(n)
    <3>1. pc' = pc
      BY <1>3, <2>2 DEF EnvironmentStep, Enqueue, Age, Skip, AbandonedClaimExpires,
                        LiveClaimExpires, Reap, Chain, RivalSettles, OwnerTakes, PendingExecutes,
                        PendingLost, workerVars, vars
    <3> QED
      BY <3>1 DEF Locked
  <2> QED
    BY <2>1, <2>2
<1> QED
  BY <1>1, <1>2, <1>3 DEF Next, Normal, Fault, WorkerStep, EnvironmentStep

LEMMA MutexStep ==
    ASSUME TypeOK, OneSubmits, [Next]_vars
    PROVE  OneSubmits'
<1>1. CASE \A w \in Workers : Locked(w)' => Locked(w)
  BY <1>1 DEF OneSubmits
<1>2. ASSUME NEW u \in Workers, Lock(u) PROVE OneSubmits'
  <2>1. /\ \A v \in Workers : Locked(v) => NodeOf[v] # NodeOf[u]
        /\ \A v \in Workers \ {u} : Locked(v)' => Locked(v)
    BY <1>2 DEF Lock, GoTo, Locked, TypeOK, WorkersTyped
  <2> QED
    BY <2>1 DEF OneSubmits
<1> QED
  BY <1>1, <1>2, OnlyLockEnters

LEMMA MutexHolds == Spec => []OneSubmits
<1>1. Init => OneSubmits
  BY DEF Init, OneSubmits, Locked
<1>2. TypeOK /\ OneSubmits /\ [Next]_vars => OneSubmits'
  BY MutexStep
<1> QED
  BY <1>1, <1>2, TypeCorrect, PTL DEF Spec

\* A worker about to execute whose references go stale.
GoesStale(w) ==
    pc[w] = "execute" /\ pc'[w] = "execute" /\ w \in credFresh /\ w \notin credFresh'

LEMMA StaleByPending ==
    ASSUME TypeOK, OneSubmits, [Next]_vars, NEW w \in Workers, GoesStale(w)
    PROVE  \E p \in pending \ pending' : p.keeper = NodeOf[w]
<1>1. ASSUME NEW v \in Workers, Execute(v) PROVE FALSE
  <2>1. pc[v] = "execute" /\ pc'[v] = "report"
    BY <1>1 DEF Execute, Return, TypeOK, WorkersTyped
  <2>2. v # w
    BY <2>1 DEF GoesStale
  <2>3. NodeOf[v] # NodeOf[w]
    BY <2>1, <2>2 DEF GoesStale, OneSubmits, Locked
  <2>4. credFresh' = credFresh \ {v} \/ credFresh' = Outdate(NodeOf[v]) \ {v}
    BY <1>1 DEF Execute, Return
  <2> QED
    BY <2>2, <2>3, <2>4 DEF GoesStale, Outdate
<1>2. ASSUME NEW p \in pending, PendingExecutes(p)
      PROVE  \E q \in pending \ pending' : q.keeper = NodeOf[w]
  <2>1. p.keeper = NodeOf[w]
    BY <1>2 DEF PendingExecutes, Outdate, GoesStale
  <2>2. p \notin pending'
    BY <1>2 DEF PendingExecutes, ExecutePTB
  <2> QED
    BY <2>1, <2>2
<1>3. ASSUME NEW v \in Workers,
             \/ CheckSettled(v) \/ Claim(v) \/ Precheck(v) \/ Lock(v) \/ Build(v) \/ Report(v)
             \/ WorkerFault(v) \/ \E m \in Markets : Deliver(v, m)
      PROVE  FALSE
  <2>1. CASE CheckSettled(v) \/ Claim(v) \/ Report(v) \/ DatabaseFails(v)
    BY <2>1 DEF CheckSettled, Claim, Report, DatabaseFails, GoTo, Idle, GoesStale
  <2>2. CASE Precheck(v) \/ PrecheckFails(v) \/ NotSubmitted(v) \/ NoAnswer(v)
    BY <2>2 DEF Precheck, PrecheckFails, UseQuantity, NotSubmitted, NoAnswer, Return, GoesStale,
                TypeOK, WorkersTyped
  <2>3. CASE Lock(v) \/ Build(v) \/ \E m \in Markets : Deliver(v, m)
    BY <2>3 DEF Lock, GoTo, Build, Deliver, GoesStale
  <2> QED
    BY <1>3, <2>1, <2>2, <2>3 DEF WorkerFault
<1>4. ASSUME EnvironmentStep \/ UNCHANGED vars, \A p \in pending : ~ PendingExecutes(p)
      PROVE  FALSE
  <2>1. CASE \E n \in Nodes : Crash(n)
    BY <2>1 DEF Crash, Idle, GoesStale
  <2>2. CASE ~ \E n \in Nodes : Crash(n)
    BY <1>4, <2>2 DEF EnvironmentStep, Enqueue, Age, Skip, AbandonedClaimExpires,
                      LiveClaimExpires, Reap, Chain, RivalSettles, OwnerTakes, PendingLost,
                      workerVars, vars, GoesStale
  <2> QED
    BY <2>1, <2>2
<1> QED
  BY <1>1, <1>2, <1>3, <1>4 DEF Next, Normal, Fault, WorkerStep, EnvironmentStep

\* The mutex does its work for any number of processes and workers: no worker of a
\* process outdates the references of another one that is about to execute; only a
\* block given up on can, when it executes late (deepbook.go:602-603, 654-655).
THEOREM ReferencesFresh == Spec => ReferencesStayFresh
<1>1. TypeOK /\ OneSubmits /\ [Next]_vars
        => [\A w \in Workers :
              pc[w] = "execute" /\ pc'[w] = "execute" /\ w \in credFresh /\ w \notin credFresh'
              => \E p \in pending \ pending' : p.keeper = NodeOf[w]]_vars
  BY StaleByPending DEF GoesStale
<1> QED
  BY <1>1, TypeCorrect, MutexHolds, PTL DEF Spec, ReferencesStayFresh
=============================================================================
