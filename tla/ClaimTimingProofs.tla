------------------------- MODULE ClaimTimingProofs --------------------------
(***************************************************************************)
(* How old a claim gets, for any number of workers and any time limits:    *)
(* not counting the time in the database, which has no deadline, no more   *)
(* than the precheck and one turn at the mutex for each worker and one     *)
(* more.  So the reaper takes a live claim only if the database kept its   *)
(* worker for longer than this bound leaves.                               *)
(***************************************************************************)
EXTENDS ClaimTiming, FiniteSetTheorems, SequenceTheorems, TLAPS

LEMMA InitType ==
    ASSUME TimingAssumption, Init
    PROVE  TypeOK
<1>1. phase \in [Workers -> Phases] /\ worked \in [Workers -> Nat] /\ spent \in [Workers -> Nat]
  BY DEF Init, Phases
<1>2. waiting \in Seq(Workers)
  BY DEF Init
<1>3. stalled \in [Workers -> 0..MaxStalled]
  BY DEF Init, TimingAssumption
<1>4. \A w \in Workers : phase[w] = "idle"
  BY DEF Init
<1> QED
  BY <1>1, <1>2, <1>3, <1>4 DEF Init, TypeOK

LEMMA EnterType ==
    ASSUME TimingAssumption, TypeOK, NEW w \in Workers, NEW p \in Phases, Enter(w, p)
    PROVE  /\ phase' \in [Workers -> Phases] /\ spent' \in [Workers -> Nat]
           /\ \A v \in Workers : phase'[v] = "precheck" => spent'[v] <= PrecheckLimit
           /\ \A v \in Workers : phase'[v] = "settle" => spent'[v] <= SettleLimit
BY DEF TimingAssumption, TypeOK, Enter

LEMMA OlderType ==
    ASSUME NEW clock \in [Workers -> Nat], NEW S
    PROVE  Older(clock, S) \in [Workers -> Nat]
BY DEF Older

LEMMA TypeStep ==
    ASSUME TimingAssumption, TypeOK, [Next]_vars
    PROVE  TypeOK'
<1>0. Phases = {"idle", "claim", "precheck", "waiting", "settle", "report"}
  BY DEF Phases
<1>1. ASSUME NEW w \in Workers, Claim(w) \/ Claimed(w) \/ NothingThere(w) PROVE TypeOK'
  <2>1. \E p \in Phases : Enter(w, p)
    BY <1>0, <1>1 DEF Claim, Claimed, NothingThere
  <2> QED
    BY <1>1, <2>1, EnterType DEF TypeOK, Claim, Claimed, NothingThere
<1>2. ASSUME NEW w \in Workers, LockNow(w) PROVE TypeOK'
  BY <1>0, <1>2, EnterType DEF TypeOK, LockNow, Take
<1>3. ASSUME NEW w \in Workers, Park(w) PROVE TypeOK'
  <2>1. waiting' \in Seq(Workers)
    BY <1>3, AppendProperties DEF TypeOK, Park
  <2> QED
    BY <1>0, <1>3, <2>1, EnterType DEF TypeOK, Park
<1>4. ASSUME NEW w \in Workers, HandOver(w) PROVE TypeOK'
  <2>1. waiting' \in Seq(Workers)
    BY <1>4, HeadTailProperties DEF TypeOK, HandOver
  <2>2. starving' \in BOOLEAN
    BY <1>4 DEF HandOver
  <2> QED
    BY <1>0, <1>4, <2>1, <2>2, EnterType DEF TypeOK, HandOver, Take
<1>5. ASSUME NEW w \in Workers, Returned(w) PROVE TypeOK'
  BY <1>0, <1>5, EnterType DEF TypeOK, Returned
<1>6. ASSUME NEW w \in Workers, OutOfGas(w) \/ Done(w) PROVE TypeOK'
  <2>1. /\ Enter(w, "idle")
        /\ worked' = [worked EXCEPT ![w] = 0] /\ stalled' = [stalled EXCEPT ![w] = 0]
        /\ lost' \subseteq lost /\ holder' \in {holder, NoWorker}
        /\ UNCHANGED <<waiting, starving>>
    BY <1>6 DEF OutOfGas, Done
  <2>2. worked' \in [Workers -> Nat] /\ stalled' \in [Workers -> 0..MaxStalled]
    BY <2>1 DEF TypeOK, TimingAssumption
  <2> QED
    BY <1>0, <2>1, <2>2, EnterType DEF TypeOK
<1>7. CASE Tick
  <2>1. spent' \in [Workers -> Nat] /\ worked' \in [Workers -> Nat]
    BY <1>7, OlderType DEF TypeOK, Tick, Advance
  <2>2. stalled' \in [Workers -> 0..MaxStalled]
    BY <1>7 DEF TimingAssumption, TypeOK, Tick, Advance, Older, Unlimited
  <2>3. \A w \in Workers : /\ phase'[w] = "precheck" => spent'[w] <= PrecheckLimit
                           /\ phase'[w] = "settle" => spent'[w] <= SettleLimit
    BY <1>7 DEF TimingAssumption, TypeOK, Tick, Advance, Older, Limited
  <2> QED
    BY <1>7, <2>1, <2>2, <2>3 DEF TypeOK, Tick, Advance, Older
<1>8. CASE Reap
  BY <1>8 DEF TypeOK, Reap, Stale
<1>9. CASE UNCHANGED vars
  BY <1>9 DEF vars, TypeOK
<1> QED
  BY <1>1, <1>2, <1>3, <1>4, <1>5, <1>6, <1>7, <1>8, <1>9 DEF Next

-----------------------------------------------------------------------------
(***************************************************************************)
(* The inductive invariant.  Queued: the phases agree with the mutex and   *)
(* its queue.  Aged: outside the database a claim is as old as its         *)
(* precheck, or was within the bound when its worker got the mutex; while  *)
(* the worker waits, its age and what is Ahead of it stay within the bound *)
(* together.  Ahead are the rest of the holder's turn, a turn for each     *)
(* waiter before it, and, as long as the mutex is not starving, one for a  *)
(* worker that overtakes.                                                  *)
(***************************************************************************)
Queued ==
    /\ \A w \in Workers : phase[w] = "settle" <=> holder = w
    /\ \A w \in Workers : phase[w] = "waiting" => \E i \in 1..Len(waiting) : waiting[i] = w
    /\ \A i \in 1..Len(waiting) : phase[waiting[i]] = "waiting"
    /\ \A i, j \in 1..Len(waiting) : waiting[i] = waiting[j] => i = j
    /\ starving => waiting # <<>>

Turns(n) == n * SettleLimit

Overtaking == IF starving THEN 0 ELSE SettleLimit
RestOfTurn == IF holder = NoWorker THEN 0 ELSE SettleLimit - spent[holder]
Ahead(i) == Turns(i - 1) + Overtaking + RestOfTurn

\* The age, outside the database, at which the last of the workers gets the mutex.
Bound == PrecheckLimit + Turns(Cardinality(Workers))

Aged ==
    /\ \A w \in Workers : phase[w] \in {"idle", "claim"} => worked[w] = 0 /\ spent[w] = 0
    /\ \A w \in Workers : phase[w] = "precheck" => worked[w] = spent[w]
    /\ \A i \in 1..Len(waiting) : worked[waiting[i]] + Ahead(i) <= Bound
    /\ \A w \in Workers : phase[w] = "settle" => worked[w] <= spent[w] + Bound
    /\ \A w \in Workers : phase[w] = "report" => worked[w] <= Bound + SettleLimit

IInv == TypeOK /\ Queued /\ Aged

LEMMA TurnsAdd ==
    ASSUME TimingAssumption
    PROVE  /\ \A n \in Nat : Turns(n) \in Nat /\ Turns(n + 1) = Turns(n) + SettleLimit
           /\ \A m, n \in Nat : m <= n => Turns(m) <= Turns(n)
           /\ Turns(0) = 0
           /\ Bound \in Nat /\ PrecheckLimit <= Bound
<1>1. SettleLimit \in Nat /\ PrecheckLimit \in Nat /\ Cardinality(Workers) \in Nat
  BY FS_CardinalityType DEF TimingAssumption
<1>2. \A n \in Nat : n * SettleLimit \in Nat /\ (n + 1) * SettleLimit = n * SettleLimit + SettleLimit
  BY <1>1
<1>3. \A m, n \in Nat : m <= n => m * SettleLimit <= n * SettleLimit
  BY <1>1
<1>4. 0 * SettleLimit = 0
  BY <1>1
<1> QED
  BY <1>1, <1>2, <1>3, <1>4 DEF Turns, Bound

LEMMA WaitingType ==
    ASSUME TypeOK
    PROVE  /\ Len(waiting) \in Nat
           /\ \A i \in 1..Len(waiting) : waiting[i] \in Workers
           /\ waiting = <<>> <=> Len(waiting) = 0
BY DEF TypeOK

LEMMA AheadType ==
    ASSUME TimingAssumption, TypeOK
    PROVE  /\ Overtaking \in Nat /\ Overtaking <= SettleLimit
           /\ Queued => RestOfTurn \in Nat /\ RestOfTurn <= SettleLimit
BY DEF TimingAssumption, TypeOK, Queued, Overtaking, RestOfTurn

\* The waiters are workers that neither hold the mutex nor are about to wait.
LEMMA WaitersFit ==
    ASSUME TimingAssumption, TypeOK, Queued, NEW out \in SUBSET Workers,
           \A w \in out : phase[w] # "waiting"
    PROVE  Len(waiting) + Cardinality(out) <= Cardinality(Workers)
<1> DEFINE rest == Workers \ out
<1>1. IsFiniteSet(Workers) /\ IsFiniteSet(out) /\ IsFiniteSet(rest)
  BY FS_Subset DEF TimingAssumption
<1>2. Cardinality(rest) = Cardinality(Workers) - Cardinality(out)
  <2>1. Workers \cap out = out
    OBVIOUS
  <2>2. Cardinality(rest) = Cardinality(Workers) - Cardinality(Workers \cap out)
    BY <1>1, FS_Difference
  <2> QED
    BY <2>1, <2>2
<1>3. Cardinality(rest) \in Nat /\ Cardinality(Workers) \in Nat /\ Cardinality(out) \in Nat
  BY <1>1, FS_CardinalityType
<1>4. waiting \in Injection(1..Len(waiting), rest)
  <2>1. waiting \in [1..Len(waiting) -> rest]
    <3>1. waiting \in [1..Len(waiting) -> Workers]
      BY DEF TypeOK
    <3>2. \A i \in 1..Len(waiting) : waiting[i] \in rest
      BY <3>1 DEF Queued
    <3> QED
      BY <3>1, <3>2
  <2>2. IsInjective(waiting)
    BY <2>1 DEF IsInjective, Queued
  <2> QED
    BY <2>1, <2>2 DEF Injection
<1>5. Cardinality(1..Len(waiting)) <= Cardinality(rest)
  BY <1>1, <1>4, FS_Injection
<1>6. Len(waiting) \in Nat /\ Cardinality(1..Len(waiting)) = Len(waiting)
  <2>1. Len(waiting) \in Nat /\ Len(waiting) \in Int /\ 1 \in Int
    BY WaitingType
  <2>2. Cardinality(1..Len(waiting)) = IF 1 > Len(waiting) THEN 0 ELSE Len(waiting) - 1 + 1
    BY <2>1, FS_Interval
  <2> QED
    BY <2>1, <2>2
<1> QED
  BY <1>2, <1>3, <1>5, <1>6

-----------------------------------------------------------------------------
(* One lemma per action that moves a worker. *)

\* Steps that leave the mutex and its queue alone.
LEMMA CallStep ==
    ASSUME TimingAssumption, IInv, NEW w \in Workers,
           Claim(w) \/ Claimed(w) \/ NothingThere(w) \/ Done(w)
    PROVE  Queued' /\ Aged'
<1>1. /\ phase[w] \notin {"waiting", "settle"} /\ phase'[w] \notin {"waiting", "settle"}
      /\ \A v \in Workers \ {w} : /\ phase'[v] = phase[v] /\ spent'[v] = spent[v]
                                  /\ worked'[v] = worked[v]
      /\ UNCHANGED <<holder, waiting, starving>>
  BY DEF Claim, Claimed, NothingThere, Done, Enter, Unlimited, IInv, TypeOK
<1>2. \A i \in 1..Len(waiting) : waiting[i] \in Workers /\ waiting[i] # w
  BY <1>1, WaitingType DEF IInv, Queued
<1>3. Queued'
  <2>1. \A v \in Workers : phase'[v] = "settle" <=> holder' = v
    BY <1>1 DEF IInv, Queued
  <2>2. \A v \in Workers : phase'[v] = "waiting" =>
                               \E i \in 1..Len(waiting) : waiting[i] = v
    BY <1>1 DEF IInv, Queued
  <2>3. \A i \in 1..Len(waiting) : phase'[waiting[i]] = "waiting"
    BY <1>1, <1>2 DEF IInv, Queued
  <2> QED
    BY <1>1, <2>1, <2>2, <2>3 DEF IInv, Queued
<1>4. \A i \in 1..Len(waiting) : Ahead(i)' = Ahead(i)
  <2>1. holder # NoWorker => spent'[holder] = spent[holder]
    BY <1>1 DEF IInv, TypeOK, Queued
  <2> QED
    BY <1>1, <2>1 DEF Ahead, Overtaking, RestOfTurn, Turns
<1>5. Bound' = Bound /\ Bound \in Nat /\ PrecheckLimit <= Bound
      /\ PrecheckLimit \in Nat /\ SettleLimit \in Nat
  BY TurnsAdd DEF Bound, Turns, TimingAssumption
<1>6. \A v \in Workers \ {w} :
         /\ phase'[v] \in {"idle", "claim"} => worked'[v] = 0 /\ spent'[v] = 0
         /\ phase'[v] = "precheck" => worked'[v] = spent'[v]
         /\ phase'[v] = "settle" => worked'[v] <= spent'[v] + Bound
         /\ phase'[v] = "report" => worked'[v] <= Bound + SettleLimit
  BY <1>1 DEF IInv, Aged
<1>7. /\ phase'[w] \in {"idle", "claim"} => worked'[w] = 0 /\ spent'[w] = 0
      /\ phase'[w] = "precheck" => worked'[w] = spent'[w]
      /\ phase'[w] = "report" => worked'[w] <= Bound + SettleLimit
  <2>1. CASE Claim(w) \/ Claimed(w) \/ Done(w)
    BY <2>1 DEF Claim, Claimed, Done, Enter, IInv, TypeOK, Aged
  <2>2. CASE NothingThere(w)
    <3>1. /\ phase'[w] = "report" /\ worked'[w] = spent[w] /\ spent[w] \in Nat
          /\ spent[w] <= PrecheckLimit
      BY <2>2 DEF NothingThere, Enter, IInv, TypeOK, Aged
    <3> QED
      BY <1>5, <3>1
  <2> QED
    BY <2>1, <2>2
<1>8. \A i \in 1..Len(waiting) : worked'[waiting[i]] + Ahead(i)' <= Bound
  BY <1>1, <1>2, <1>4 DEF IInv, Aged
<1> QED
  BY <1>1, <1>3, <1>5, <1>6, <1>7, <1>8 DEF Aged

LEMMA LockNowStep ==
    ASSUME TimingAssumption, IInv, NEW w \in Workers, LockNow(w)
    PROVE  Queued' /\ Aged'
<1>1. /\ phase[w] = "precheck" /\ holder = NoWorker /\ ~starving
      /\ holder' = w
      /\ \A v \in Workers : phase'[v] = IF v = w THEN "settle" ELSE phase[v]
      /\ \A v \in Workers : spent'[v] = IF v = w THEN 0 ELSE spent[v]
      /\ starving' = (waiting # <<>>)
      /\ worked' = worked /\ waiting' = waiting
  BY DEF LockNow, Take, Enter, IInv, TypeOK
<1>2. \A i \in 1..Len(waiting) : waiting[i] \in Workers /\ waiting[i] # w
  BY <1>1, WaitingType DEF IInv, Queued
<1>3. Queued'
  <2>1. \A v \in Workers : phase'[v] = "settle" <=> holder' = v
    BY <1>1 DEF IInv, Queued, TimingAssumption
  <2>2. \A v \in Workers : phase'[v] = "waiting" =>
                               \E i \in 1..Len(waiting) : waiting[i] = v
    BY <1>1 DEF IInv, Queued
  <2>3. \A i \in 1..Len(waiting) : phase'[waiting[i]] = "waiting"
    BY <1>1, <1>2 DEF IInv, Queued
  <2>4. \A i, j \in 1..Len(waiting) : waiting[i] = waiting[j] => i = j
    BY DEF IInv, Queued
  <2>5. starving' => waiting # <<>>
    BY <1>1
  <2> QED
    BY <1>1, <2>1, <2>2, <2>3, <2>4, <2>5 DEF Queued
<1>4. ASSUME NEW i \in 1..Len(waiting) PROVE Ahead(i)' = Ahead(i)
  <2>0. waiting # <<>>
    <3>1. Len(waiting) # 0
      BY <1>4, WaitingType DEF IInv
    <3> QED
      BY <3>1, WaitingType DEF IInv
  <2>1. starving'
    BY <1>1, <2>0
  <2>2. w # NoWorker /\ SettleLimit \in Nat
    BY DEF TimingAssumption
  <2>3. Overtaking' = 0 /\ RestOfTurn' = SettleLimit /\ Overtaking = SettleLimit /\ RestOfTurn = 0
    BY <1>1, <2>1, <2>2 DEF Overtaking, RestOfTurn
  <2>4. Turns(i - 1) \in Nat /\ Turns(i - 1)' = Turns(i - 1)
    <3>1. i - 1 \in Nat
      BY <1>4
    <3> QED
      BY <3>1, TurnsAdd DEF Turns
  <2> QED
    BY <2>2, <2>3, <2>4 DEF Ahead
<1>5. Bound' = Bound
  BY DEF Bound, Turns
<1>6. worked'[w] <= spent'[w] + Bound
  <2>1. /\ worked[w] \in Nat /\ spent[w] \in Nat /\ worked[w] = spent[w]
        /\ spent[w] <= PrecheckLimit /\ spent'[w] = 0 /\ worked'[w] = worked[w]
    BY <1>1 DEF IInv, TypeOK, Aged
  <2>2. Bound \in Nat /\ PrecheckLimit \in Nat /\ PrecheckLimit <= Bound
    BY TurnsAdd DEF TimingAssumption
  <2> QED
    BY <2>1, <2>2
<1>7. Aged'
  BY <1>1, <1>4, <1>5, <1>6 DEF IInv, Aged, Queued, TimingAssumption
<1> QED
  BY <1>3, <1>7

LEMMA ParkStep ==
    ASSUME TimingAssumption, IInv, NEW w \in Workers, Park(w)
    PROVE  Queued' /\ Aged'
<1> DEFINE n == Len(waiting)
<1>1. /\ phase[w] = "precheck" /\ (holder # NoWorker \/ starving)
      /\ \A v \in Workers : phase'[v] = IF v = w THEN "waiting" ELSE phase[v]
      /\ \A v \in Workers : spent'[v] = IF v = w THEN 0 ELSE spent[v]
      /\ waiting' = Append(waiting, w)
      /\ worked' = worked /\ holder' = holder /\ starving' = starving
  BY DEF Park, Enter, IInv, TypeOK
<1>2. /\ n \in Nat /\ Len(waiting') = n + 1
      /\ waiting'[n + 1] = w /\ \A i \in 1..n : waiting'[i] = waiting[i]
      /\ waiting' # <<>>
  BY <1>1, AppendProperties DEF IInv, TypeOK
<1>3. \A i \in 1..n : waiting[i] \in Workers /\ waiting[i] # w
  BY <1>1, WaitingType DEF IInv, Queued
<1>4. holder # w
  BY <1>1 DEF IInv, Queued
<1>5. Queued'
  <2>1. \A v \in Workers : phase'[v] = "settle" <=> holder' = v
    BY <1>1, <1>4 DEF IInv, Queued
  <2>2. \A v \in Workers : phase'[v] = "waiting" => \E i \in 1..(n + 1) : waiting'[i] = v
    <3> SUFFICES ASSUME NEW v \in Workers, phase'[v] = "waiting"
                 PROVE  \E i \in 1..(n + 1) : waiting'[i] = v
      OBVIOUS
    <3>1. CASE v = w
      BY <1>2, <3>1
    <3>2. CASE v # w
      <4>1. PICK i \in 1..n : waiting[i] = v
        BY <1>1, <3>2 DEF IInv, Queued
      <4> QED
        BY <1>2, <4>1
    <3> QED
      BY <3>1, <3>2
  <2>3. \A i \in 1..(n + 1) : phase'[waiting'[i]] = "waiting"
    BY <1>1, <1>2, <1>3 DEF IInv, Queued
  <2>4. \A i, j \in 1..(n + 1) : waiting'[i] = waiting'[j] => i = j
    BY <1>2, <1>3 DEF IInv, Queued
  <2> QED
    BY <1>2, <2>1, <2>2, <2>3, <2>4 DEF Queued
<1>6. Overtaking' = Overtaking /\ RestOfTurn' = RestOfTurn /\ Bound' = Bound
  <2>1. holder # NoWorker => spent'[holder] = spent[holder]
    BY <1>1, <1>4 DEF IInv, TypeOK
  <2> QED
    BY <1>1, <2>1 DEF Overtaking, RestOfTurn, Bound, Turns
<1>7. \A i \in 1..(n + 1) : Ahead(i)' = Ahead(i)
  BY <1>6 DEF Ahead, Turns
<1>8. worked[w] + Ahead(n + 1) <= Bound
  <2>1. worked[w] \in Nat /\ worked[w] <= PrecheckLimit /\ PrecheckLimit \in Nat /\ SettleLimit \in Nat
    BY <1>1 DEF IInv, TypeOK, Aged, TimingAssumption
  <2>2. Ahead(n + 1) = Turns(n) + Overtaking + RestOfTurn
    BY <1>2 DEF Ahead
  <2>3. Cardinality(Workers) \in Nat
    BY FS_CardinalityType DEF TimingAssumption
  <2>4. CASE holder # NoWorker
    <3>1. holder \in Workers /\ phase[holder] = "settle"
      BY <2>4 DEF IInv, TypeOK, Queued
    <3>2. Cardinality({holder, w}) = 2
      <4>1. {holder, w} = {holder} \cup {w} /\ IsFiniteSet({holder}) /\ Cardinality({holder}) = 1
        BY FS_Singleton
      <4>2. Cardinality({holder} \cup {w}) = Cardinality({holder}) + 1
        BY <1>4, <4>1, FS_AddElement
      <4> QED
        BY <4>1, <4>2
    <3>3. n + 2 <= Cardinality(Workers)
      <4>1. {holder, w} \in SUBSET Workers /\ \A v \in {holder, w} : phase[v] # "waiting"
        BY <1>1, <3>1
      <4> HIDE DEF n
      <4>2. n + Cardinality({holder, w}) <= Cardinality(Workers)
        BY <4>1, WaitersFit DEF IInv, n
      <4> QED
        BY <3>2, <4>2
    <3>4. Turns(n + 2) <= Turns(Cardinality(Workers))
      BY <1>2, <2>3, <3>3, TurnsAdd
    <3>5. Turns(n) \in Nat /\ Turns(n + 2) = Turns(n) + SettleLimit + SettleLimit
      <4>1. n + 1 \in Nat /\ (n + 1) + 1 = n + 2
        BY <1>2
      <4> QED
        BY <1>2, <4>1, TurnsAdd
    <3>6. /\ Overtaking \in Nat /\ Overtaking <= SettleLimit
          /\ RestOfTurn \in Nat /\ RestOfTurn <= SettleLimit
      BY AheadType DEF IInv
    <3>7. Turns(Cardinality(Workers)) \in Nat
      BY <2>3, TurnsAdd
    <3> HIDE DEF n
    <3> QED
      BY <2>1, <2>2, <3>4, <3>5, <3>6, <3>7 DEF Bound
  <2>5. CASE holder = NoWorker
    <3>1. starving /\ Overtaking = 0 /\ RestOfTurn = 0
      BY <1>1, <2>5 DEF Overtaking, RestOfTurn
    <3>2. n <= Cardinality(Workers)
      <4>1. n + Cardinality({}) <= Cardinality(Workers)
        BY WaitersFit DEF IInv
      <4> QED
        BY <1>2, <4>1, FS_EmptySet
    <3>3. Turns(n) <= Turns(Cardinality(Workers)) /\ Turns(n) \in Nat
      BY <1>2, <2>3, <3>2, TurnsAdd
    <3>4. Turns(Cardinality(Workers)) \in Nat
      BY <2>3, TurnsAdd
    <3> HIDE DEF n
    <3> QED
      BY <2>1, <2>2, <3>1, <3>3, <3>4 DEF Bound
  <2> QED
    BY <2>4, <2>5
<1>9. \A i \in 1..Len(waiting') : worked'[waiting'[i]] + Ahead(i)' <= Bound'
  BY <1>1, <1>2, <1>3, <1>6, <1>7, <1>8 DEF IInv, Aged
<1>10. Aged'
  BY <1>1, <1>6, <1>9 DEF IInv, Aged
<1> QED
  BY <1>5, <1>10

LEMMA HandOverStep ==
    ASSUME TimingAssumption, IInv, NEW w \in Workers, HandOver(w)
    PROVE  Queued' /\ Aged'
<1> DEFINE n == Len(waiting)
<1>1. /\ waiting # <<>> /\ w = waiting[1] /\ holder = NoWorker
      /\ holder' = w
      /\ \A v \in Workers : phase'[v] = IF v = w THEN "settle" ELSE phase[v]
      /\ \A v \in Workers : spent'[v] = IF v = w THEN 0 ELSE spent[v]
      /\ starving' = (starving /\ waiting' # <<>>)
      /\ worked' = worked
  BY DEF HandOver, Take, Enter, IInv, TypeOK
<1>2. /\ n \in Nat /\ n >= 1 /\ Len(waiting') = n - 1
      /\ \A i \in 1..(n - 1) : waiting'[i] = waiting[i + 1]
      /\ waiting' = <<>> <=> n = 1
  <2>1. waiting \in Seq(Workers) /\ waiting' = Tail(waiting)
    BY DEF HandOver, IInv, TypeOK
  <2>2. Len(waiting') = n - 1 /\ waiting' \in Seq(Workers)
        /\ \A i \in 1..Len(waiting') : waiting'[i] = waiting[i + 1]
    BY <1>1, <2>1, HeadTailProperties
  <2>3. n \in Nat /\ n >= 1
    BY <1>1, <2>1
  <2>4. waiting' = <<>> <=> Len(waiting') = 0
    BY <2>2
  <2> QED
    BY <2>2, <2>3, <2>4
<1>3. /\ \A i \in 1..n : waiting[i] \in Workers /\ phase[waiting[i]] = "waiting"
      /\ \A i \in 1..(n - 1) : i + 1 \in 1..n /\ i \in 1..n /\ waiting[i + 1] # w
      /\ 1 \in 1..n
  BY <1>1, <1>2, WaitingType DEF IInv, Queued
<1>4. Queued'
  <2>1. \A v \in Workers : phase'[v] = "settle" <=> holder' = v
    BY <1>1 DEF IInv, Queued, TimingAssumption
  <2>2. \A v \in Workers : phase'[v] = "waiting" => \E i \in 1..(n - 1) : waiting'[i] = v
    <3> SUFFICES ASSUME NEW v \in Workers, phase'[v] = "waiting"
                 PROVE  \E i \in 1..(n - 1) : waiting'[i] = v
      OBVIOUS
    <3>1. v # w /\ phase[v] = "waiting"
      BY <1>1
    <3>2. PICK i \in 1..n : waiting[i] = v
      BY <3>1 DEF IInv, Queued
    <3>3. i # 1
      BY <1>1, <3>1, <3>2
    <3>4. i - 1 \in 1..(n - 1) /\ (i - 1) + 1 = i
      BY <1>2, <3>2, <3>3
    <3> QED
      BY <1>2, <3>2, <3>4
  <2>3. \A i \in 1..(n - 1) : phase'[waiting'[i]] = "waiting"
    <3> SUFFICES ASSUME NEW i \in 1..(n - 1) PROVE phase'[waiting'[i]] = "waiting"
      OBVIOUS
    <3>1. waiting'[i] = waiting[i + 1] /\ i + 1 \in 1..n /\ waiting[i + 1] # w
      BY <1>2, <1>3
    <3> QED
      BY <1>1, <1>3, <3>1
  <2>4. \A i, j \in 1..(n - 1) : waiting'[i] = waiting'[j] => i = j
    <3> SUFFICES ASSUME NEW i \in 1..(n - 1), NEW j \in 1..(n - 1), waiting'[i] = waiting'[j]
                 PROVE  i = j
      OBVIOUS
    <3>1. waiting[i + 1] = waiting[j + 1] /\ i + 1 \in 1..n /\ j + 1 \in 1..n
      BY <1>2, <1>3
    <3>2. i + 1 = j + 1
      BY <3>1 DEF IInv, Queued
    <3> QED
      BY <3>2
  <2> QED
    <3>1. starving' => waiting' # <<>>
      BY <1>1
    <3>2. Len(waiting') = n - 1
      BY <1>2
    <3> HIDE DEF n
    <3> QED
      BY <2>1, <2>2, <2>3, <2>4, <3>1, <3>2 DEF Queued
<1>5. SettleLimit \in Nat /\ w # NoWorker /\ Bound' = Bound /\ Bound \in Nat
  BY TurnsAdd DEF TimingAssumption, Bound, Turns
<1>6. RestOfTurn = 0 /\ RestOfTurn' = SettleLimit
  BY <1>1, <1>5 DEF RestOfTurn
<1>7. ASSUME NEW i \in 1..(n - 1)
      PROVE  Ahead(i)' = Ahead(i + 1)
  <2>1. n # 1
    BY <1>2, <1>7
  <2>2. Overtaking' = Overtaking /\ Overtaking \in Nat
    BY <1>1, <1>2, <2>1, AheadType DEF Overtaking, IInv
  <2>3. i - 1 \in Nat /\ (i - 1) + 1 = i /\ (i + 1) - 1 = i
    BY <1>7
  <2>4. Turns(i - 1) \in Nat /\ Turns(i) = Turns(i - 1) + SettleLimit
    BY <2>3, TurnsAdd
  <2>5. Ahead(i)' = Turns(i - 1) + Overtaking + SettleLimit
    BY <1>6, <2>2 DEF Ahead, Turns
  <2>6. Ahead(i + 1) = Turns(i) + Overtaking + 0
    BY <1>6, <2>3 DEF Ahead
  <2> QED
    BY <1>5, <2>2, <2>4, <2>5, <2>6
<1>8. worked[w] <= Bound
  <2>1. worked[waiting[1]] + Ahead(1) <= Bound
    BY <1>3 DEF IInv, Aged
  <2>2. Ahead(1) = Overtaking /\ Overtaking \in Nat
    BY <1>6, TurnsAdd, AheadType DEF Ahead, IInv
  <2>3. worked[w] \in Nat
    BY DEF IInv, TypeOK
  <2> QED
    BY <1>1, <1>5, <2>1, <2>2, <2>3
<1>9. \A i \in 1..Len(waiting') : worked'[waiting'[i]] + Ahead(i)' <= Bound'
  <2> SUFFICES ASSUME NEW i \in 1..(n - 1)
               PROVE  worked'[waiting'[i]] + Ahead(i)' <= Bound'
    BY <1>2
  <2>1. worked[waiting[i + 1]] + Ahead(i + 1) <= Bound
    BY <1>3 DEF IInv, Aged
  <2> QED
    BY <1>1, <1>2, <1>5, <1>7, <2>1
<1>10. \A v \in Workers : phase'[v] = "settle" => worked'[v] <= spent'[v] + Bound'
  BY <1>1, <1>5, <1>8 DEF IInv, Queued, TimingAssumption
<1>11. Aged'
  BY <1>1, <1>9, <1>10 DEF IInv, Aged
<1> QED
  BY <1>4, <1>11

\* Settle returns and the mutex is free again.
LEMMA ReturnStep ==
    ASSUME TimingAssumption, IInv, NEW w \in Workers, Returned(w) \/ OutOfGas(w)
    PROVE  Queued' /\ Aged'
<1>1. /\ phase[w] = "settle" /\ holder = w /\ holder' = NoWorker
      /\ phase'[w] \in {"report", "idle"}
      /\ \A v \in Workers \ {w} : /\ phase'[v] = phase[v] /\ spent'[v] = spent[v]
                                  /\ worked'[v] = worked[v]
      /\ spent'[w] = 0 /\ worked'[w] \in {0, worked[w]}
      /\ phase'[w] = "idle" => worked'[w] = 0
      /\ waiting' = waiting /\ starving' = starving
  BY DEF Returned, OutOfGas, Enter, IInv, TypeOK, Queued
<1>2. \A i \in 1..Len(waiting) : waiting[i] \in Workers /\ waiting[i] # w
  BY <1>1, WaitingType DEF IInv, Queued
<1>3. Queued'
  <2>1. \A v \in Workers : phase'[v] = "settle" <=> holder' = v
    BY <1>1 DEF IInv, Queued, TimingAssumption
  <2>2. \A v \in Workers : phase'[v] = "waiting" =>
                               \E i \in 1..Len(waiting) : waiting[i] = v
    BY <1>1 DEF IInv, Queued
  <2>3. \A i \in 1..Len(waiting) : phase'[waiting[i]] = "waiting"
    BY <1>1, <1>2 DEF IInv, Queued
  <2> QED
    BY <1>1, <2>1, <2>2, <2>3 DEF IInv, Queued
<1>4. ASSUME NEW i \in 1..Len(waiting)
      PROVE  Ahead(i)' \in Nat /\ Ahead(i) \in Nat /\ Ahead(i)' <= Ahead(i)
  <2>1. RestOfTurn' = 0 /\ RestOfTurn \in Nat
    BY <1>1, AheadType DEF RestOfTurn, IInv
  <2>2. Overtaking' = Overtaking /\ Overtaking \in Nat
    BY <1>1, AheadType DEF Overtaking, IInv
  <2>3. Turns(i - 1) \in Nat /\ Turns(i - 1)' = Turns(i - 1)
    <3>1. i - 1 \in Nat
      BY <1>4
    <3> QED
      BY <3>1, TurnsAdd DEF Turns
  <2> QED
    BY <2>1, <2>2, <2>3 DEF Ahead
<1>5. Bound' = Bound /\ Bound \in Nat
  BY TurnsAdd DEF Bound, Turns
<1>6. \A i \in 1..Len(waiting) : worked'[waiting[i]] + Ahead(i)' <= Bound
  <2> SUFFICES ASSUME NEW i \in 1..Len(waiting) PROVE worked'[waiting[i]] + Ahead(i)' <= Bound
    OBVIOUS
  <2>1. worked[waiting[i]] + Ahead(i) <= Bound
    BY DEF IInv, Aged
  <2>2. worked'[waiting[i]] = worked[waiting[i]] /\ worked[waiting[i]] \in Nat
    BY <1>1, <1>2 DEF IInv, TypeOK
  <2> QED
    BY <1>4, <1>5, <2>1, <2>2
<1>7. phase'[w] = "report" => worked'[w] <= Bound + SettleLimit
  <2>1. /\ worked[w] \in Nat /\ spent[w] \in Nat /\ worked[w] <= spent[w] + Bound
        /\ spent[w] <= SettleLimit /\ SettleLimit \in Nat
    BY <1>1 DEF IInv, TypeOK, Aged, TimingAssumption
  <2> QED
    BY <1>1, <1>5, <2>1
<1>8. \A v \in Workers \ {w} :
         /\ phase'[v] \in {"idle", "claim"} => worked'[v] = 0 /\ spent'[v] = 0
         /\ phase'[v] = "precheck" => worked'[v] = spent'[v]
         /\ phase'[v] = "settle" => worked'[v] <= spent'[v] + Bound
         /\ phase'[v] = "report" => worked'[v] <= Bound + SettleLimit
  BY <1>1 DEF IInv, Aged
<1>9. Aged'
  BY <1>1, <1>5, <1>6, <1>7, <1>8 DEF Aged
<1> QED
  BY <1>3, <1>9

\* Time passes for the holder and for those who wait for it alike.
LEMMA TickStep ==
    ASSUME TimingAssumption, IInv, Tick
    PROVE  Queued' /\ Aged'
<1>1. /\ holder = NoWorker => waiting = <<>>
      /\ \A w \in Workers : /\ phase[w] \in {"precheck", "waiting", "settle"} =>
                                  worked'[w] = worked[w] + 1
                            /\ phase[w] \notin {"precheck", "waiting", "settle"} =>
                                  worked'[w] = worked[w]
                            /\ phase[w] \in {"precheck", "settle"} => spent'[w] = spent[w] + 1
                            /\ phase[w] \notin {"precheck", "settle"} => spent'[w] = spent[w]
      /\ UNCHANGED <<phase, holder, waiting, starving>>
  BY DEF Tick, Advance, Older, Limited
<1>2. Queued'
  BY <1>1 DEF IInv, Queued
<1>3. Bound' = Bound /\ Bound \in Nat
  BY TurnsAdd DEF Bound, Turns
<1>4. \A i \in 1..Len(waiting) : worked'[waiting[i]] + Ahead(i)' <= Bound
  <2> SUFFICES ASSUME NEW i \in 1..Len(waiting) PROVE worked'[waiting[i]] + Ahead(i)' <= Bound
    OBVIOUS
  <2>1. waiting[i] \in Workers /\ phase[waiting[i]] = "waiting" /\ holder # NoWorker
    BY <1>1, WaitingType DEF IInv, Queued
  <2>2. holder \in Workers /\ phase[holder] = "settle" /\ spent[holder] \in Nat
    BY <2>1 DEF IInv, TypeOK, Queued
  <2>3. RestOfTurn' = RestOfTurn - 1 /\ RestOfTurn \in Nat
    <3>1. spent'[holder] = spent[holder] + 1 /\ holder' = holder
      BY <1>1, <2>2
    <3>2. SettleLimit \in Nat /\ RestOfTurn \in Nat
      BY AheadType DEF IInv, TimingAssumption
    <3> QED
      BY <2>1, <2>2, <3>1, <3>2 DEF RestOfTurn
  <2>4. Overtaking' = Overtaking /\ Overtaking \in Nat
    BY <1>1, AheadType DEF Overtaking, IInv
  <2>5. Turns(i - 1) \in Nat /\ Turns(i - 1)' = Turns(i - 1)
    <3>1. i - 1 \in Nat
      OBVIOUS
    <3> QED
      BY <3>1, TurnsAdd DEF Turns
  <2>6. Ahead(i)' = Ahead(i) - 1 /\ Ahead(i) \in Nat
    BY <2>3, <2>4, <2>5 DEF Ahead
  <2>7. worked'[waiting[i]] = worked[waiting[i]] + 1 /\ worked[waiting[i]] \in Nat
    BY <1>1, <2>1 DEF IInv, TypeOK
  <2>8. worked[waiting[i]] + Ahead(i) <= Bound
    BY DEF IInv, Aged
  <2> QED
    BY <1>3, <2>6, <2>7, <2>8
<1>5. \A w \in Workers : phase[w] = "settle" => worked'[w] <= spent'[w] + Bound
  <2> SUFFICES ASSUME NEW w \in Workers, phase[w] = "settle"
               PROVE  worked'[w] <= spent'[w] + Bound
    OBVIOUS
  <2>1. worked'[w] = worked[w] + 1 /\ spent'[w] = spent[w] + 1
    BY <1>1
  <2>2. worked[w] \in Nat /\ spent[w] \in Nat /\ worked[w] <= spent[w] + Bound
    BY DEF IInv, TypeOK, Aged
  <2> QED
    BY <1>3, <2>1, <2>2
<1>6. Aged'
  BY <1>1, <1>3, <1>4, <1>5 DEF IInv, Aged
<1> QED
  BY <1>2, <1>6

LEMMA Inductive ==
    ASSUME TimingAssumption, IInv, [Next]_vars
    PROVE  IInv'
<1>1. TypeOK'
  BY TypeStep DEF IInv, Aged
<1>2. ASSUME NEW w \in Workers,
             \/ Claim(w) \/ Claimed(w) \/ NothingThere(w) \/ LockNow(w) \/ Park(w)
             \/ HandOver(w) \/ Returned(w) \/ OutOfGas(w) \/ Done(w)
      PROVE  Queued' /\ Aged'
  BY <1>2, CallStep, LockNowStep, ParkStep, HandOverStep, ReturnStep
<1>3. ASSUME Reap \/ UNCHANGED vars PROVE Queued' /\ Aged'
  <2>1. UNCHANGED <<phase, worked, spent, holder, waiting, starving>>
    BY <1>3 DEF Reap, vars
  <2> QED
    BY <2>1 DEF IInv, Queued, Aged, Ahead, Overtaking, RestOfTurn, Bound, Turns
<1>4. ASSUME Tick PROVE Queued' /\ Aged'
  BY <1>4, TickStep
<1>5. Queued' /\ Aged'
  BY <1>2, <1>3, <1>4 DEF Next
<1> QED
  BY <1>1, <1>5 DEF IInv

LEMMA AlwaysInv == Spec => []IInv
<1>1. Init => IInv
  <2> SUFFICES ASSUME Init PROVE IInv
    OBVIOUS
  <2>1. TypeOK
    BY InitType, TimingAssumption
  <2>2. Queued
    BY TimingAssumption DEF Init, Queued, TimingAssumption
  <2>3. Aged
    BY DEF Init, Aged
  <2> QED
    BY <2>1, <2>2, <2>3 DEF IInv
<1>2. IInv /\ [Next]_vars => IInv'
  BY Inductive, TimingAssumption
<1> QED
  BY <1>1, <1>2, PTL DEF Spec

\* The state keeps its types, and no call outlasts its context.
THEOREM TypeCorrect == Spec => []TypeOK
<1>1. IInv => TypeOK
  BY DEF IInv
<1> QED
  BY <1>1, AlwaysInv, PTL

-----------------------------------------------------------------------------
(* The age of a claim. *)

AgeBounded == \A w \in Workers : worked[w] <= Bound + SettleLimit

LEMMA InvBoundsAge ==
    ASSUME TimingAssumption, IInv
    PROVE  AgeBounded
<1> SUFFICES ASSUME NEW w \in Workers PROVE worked[w] <= Bound + SettleLimit
  BY DEF AgeBounded
<1>1. /\ SettleLimit \in Nat /\ Bound \in Nat /\ PrecheckLimit \in Nat /\ PrecheckLimit <= Bound
      /\ worked[w] \in Nat /\ spent[w] \in Nat /\ phase[w] \in Phases
  BY TurnsAdd DEF IInv, TypeOK, TimingAssumption
<1>2. CASE phase[w] \in {"idle", "claim"}
  BY <1>1, <1>2 DEF IInv, Aged
<1>3. CASE phase[w] = "precheck"
  BY <1>1, <1>3 DEF IInv, Aged, TypeOK
<1>4. CASE phase[w] = "settle"
  BY <1>1, <1>4 DEF IInv, Aged, TypeOK
<1>5. CASE phase[w] = "waiting"
  <2>1. PICK i \in 1..Len(waiting) : waiting[i] = w
    BY <1>5 DEF IInv, Queued
  <2>2. worked[w] + Ahead(i) <= Bound
    BY <2>1 DEF IInv, Aged
  <2>3. Ahead(i) \in Nat
    <3>1. i - 1 \in Nat
      OBVIOUS
    <3>2. Turns(i - 1) \in Nat
      BY <3>1, TurnsAdd
    <3> QED
      BY <3>2, AheadType DEF Ahead, IInv
  <2> QED
    BY <1>1, <2>2, <2>3
<1>6. CASE phase[w] = "report"
  BY <1>6 DEF IInv, Aged
<1> QED
  BY <1>1, <1>2, <1>3, <1>4, <1>5, <1>6 DEF Phases

\* Without the time in the database, a claim is never older than the precheck and one
\* turn at the mutex for each of the workers and one more, which is overtaking;
\* fairness of the Go mutex bounds it.
THEOREM ClaimAge == Spec => []AgeBounded
<1>1. IInv => AgeBounded
  BY InvBoundsAge, TimingAssumption
<1> QED
  BY <1>1, AlwaysInv, PTL

-----------------------------------------------------------------------------
(* What the reaper takes. *)

LEMMA SpareIsRest ==
    ASSUME TimingAssumption
    PROVE  Spare = StaleAfter - (Bound + SettleLimit) /\ Bound + SettleLimit \in Nat
<1>1. Cardinality(Workers) \in Nat /\ PrecheckLimit \in Nat /\ SettleLimit \in Nat
  BY FS_CardinalityType DEF TimingAssumption
<1>2. /\ Turns(Cardinality(Workers) + 1) = Turns(Cardinality(Workers)) + SettleLimit
      /\ Turns(Cardinality(Workers)) \in Nat
  BY <1>1, TurnsAdd
<1>3. (Cardinality(Workers) + 1) * SettleLimit = Turns(Cardinality(Workers)) + SettleLimit
  BY <1>2 DEF Turns
<1>4. PrecheckLimit + (Turns(Cardinality(Workers)) + SettleLimit) = Bound + SettleLimit
  BY <1>1, <1>2 DEF Bound
<1> QED
  BY <1>1, <1>2, <1>3, <1>4 DEF Spare, Bound

\* The time in the database of a claim that was taken only grows until it ends.
LEMMA LostStep ==
    ASSUME TimingAssumption, IInv, ReapedWereStalled, [Next]_vars
    PROVE  ReapedWereStalled'
<1>0. Spare \in Int /\ Spare' = Spare
  <2>1. StaleAfter \in Nat
    BY DEF TimingAssumption
  <2> QED
    BY <2>1, SpareIsRest DEF Spare
<1> SUFFICES ASSUME NEW w \in lost' PROVE stalled'[w] > Spare
  BY <1>0 DEF ReapedWereStalled
<1>1. CASE Reap
  <2>1. w \in lost \/ w \in Stale(StaleAfter)
    BY <1>1 DEF Reap
  <2>2. stalled' = stalled
    BY <1>1 DEF Reap
  <2>3. ASSUME w \in Stale(StaleAfter) PROVE stalled[w] > Spare
    <3>1. w \in Workers /\ worked[w] + stalled[w] > StaleAfter
      BY <2>3 DEF Stale
    <3>2. worked[w] <= Bound + SettleLimit
      BY <3>1, InvBoundsAge DEF AgeBounded
    <3>3. worked[w] \in Nat /\ stalled[w] \in Nat /\ StaleAfter \in Nat
      BY <3>1 DEF IInv, TypeOK, TimingAssumption
    <3> QED
      BY <3>1, <3>2, <3>3, SpareIsRest
  <2> QED
    BY <2>1, <2>2, <2>3 DEF ReapedWereStalled
<1>2. CASE Tick
  <2>1. w \in lost /\ w \in Workers
    BY <1>2 DEF Tick, Advance, Older, IInv, TypeOK
  <2>2. stalled[w] \in Nat /\ stalled[w] > Spare
    BY <2>1 DEF ReapedWereStalled, IInv, TypeOK, TimingAssumption
  <2>3. stalled'[w] \in {stalled[w], stalled[w] + 1}
    BY <1>2, <2>1 DEF Tick, Advance, Older
  <2> QED
    BY <1>0, <2>2, <2>3
<1>3. ASSUME NEW v \in Workers, Done(v) \/ OutOfGas(v) PROVE stalled'[w] > Spare
  <2>1. w \in lost /\ w # v /\ w \in Workers
    BY <1>3 DEF Done, OutOfGas, IInv, TypeOK
  <2>2. stalled'[w] = stalled[w]
    BY <1>3, <2>1 DEF Done, OutOfGas, IInv, TypeOK
  <2> QED
    BY <2>1, <2>2 DEF ReapedWereStalled
<1>4. ASSUME UNCHANGED <<stalled, lost>> PROVE stalled'[w] > Spare
  BY <1>4 DEF ReapedWereStalled
<1> QED
  BY <1>1, <1>2, <1>3, <1>4
  DEF Next, vars, Claim, Claimed, NothingThere, LockNow, Park, HandOver, Returned

\* The reaper takes the claim of a worker still at work only if the database kept that
\* worker for longer than the age limit leaves: 25 seconds for two workers with the
\* limits of the code.  For three workers and more the limits leave nothing.
THEOREM ReapedStalled == Spec => []ReapedWereStalled
<1>1. Init => ReapedWereStalled
  BY DEF Init, ReapedWereStalled
<1>2. IInv /\ ReapedWereStalled /\ [Next]_vars => ReapedWereStalled'
  BY LostStep, TimingAssumption
<1> QED
  BY <1>1, <1>2, AlwaysInv, PTL DEF Spec
=============================================================================
