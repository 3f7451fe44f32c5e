------------------------ MODULE KeeperRegistryProofs ------------------------
(***************************************************************************)
(* Theorems about KeeperRegistry for every set of keepers, credentials and *)
(* keys, and every bond, reward, delay and coin.                           *)
(***************************************************************************)
EXTENDS KeeperRegistry, SumTheorems

LEMMA RewardDueBounded ==
    ASSUME TypeOK
    PROVE  RewardDue \in Nat /\ RewardDue <= treasury
BY DEF TypeOK, RewardDue

\* Recording either kind of settlement keeps the types; the two entry functions
\* differ only in their table.
LEMMA CreditKeeperType ==
    ASSUME TypeOK, RegistryAssumption,
           NEW c \in CredentialIds, NEW a \in Addresses, NEW k \in Keys,
           CreditKeeper(c, a, k)
    PROVE  /\ credentials' \in [CredentialIds -> Credential]
           /\ wallet' \in [Addresses -> Nat]
           /\ clk' \in Nat
           /\ reward_per_settlement' \in Nat
           /\ treasury' \in Nat
           /\ events' \in Seq(Event)
<1>1. RewardDue \in Nat /\ RewardDue <= treasury
  BY RewardDueBounded
<1>2. credentials' \in [CredentialIds -> Credential]
  <2> DEFINE d == [credentials[c] EXCEPT !.jobs_completed = @ + 1]
  <2>1. credentials[c] \in Credential
    BY DEF TypeOK
  <2>2. d \in Credential
    BY <2>1 DEF Credential
  <2>3. credentials' = [credentials EXCEPT ![c] = d]
    BY DEF CreditKeeper, IncrementJobs
  <2> QED
    BY <2>2, <2>3 DEF TypeOK
<1>3. wallet' \in [Addresses -> Nat] /\ treasury' \in Nat
  BY <1>1 DEF TypeOK, CreditKeeper
<1>4. [keeper |-> a, key |-> k, reward_paid |-> RewardDue, at |-> clk] \in Event
  BY <1>1 DEF TypeOK, Event
<1>5. events' \in Seq(Event)
  BY <1>4 DEF TypeOK, CreditKeeper
<1> QED
  BY <1>2, <1>3, <1>5 DEF TypeOK, CreditKeeper

LEMMA TypeStep ==
    ASSUME CredentialAssumption, RegistryAssumption, TypeOK, [Next]_vars
    PROVE  TypeOK'
<1>1. CASE RegisterKeeper
  <2>1. PICK c \in CredentialIds, a \in Addresses, s \in Stakes : Register(c, a, s)
    BY <1>1 DEF RegisterKeeper
  <2>2. s \in Nat
    BY DEF CredentialAssumption
  <2>3. credentials' \in [CredentialIds -> Credential]
    BY <2>1, <2>2 DEF TypeOK, Register, Credential, CredentialAssumption
  <2>4. wallet' \in [Addresses -> Nat]
    BY <2>1, <2>2 DEF TypeOK, Register
  <2> QED
    BY <1>1, <2>1, <2>3, <2>4 DEF TypeOK, RegisterKeeper, Register, registryVars
<1>2. CASE UnbondKeeper
  <2>1. PICK c \in CredentialIds, a \in Addresses : Unbond(c, a)
    BY <1>2 DEF UnbondKeeper
  <2>2. credentials[c] \in Credential
    BY DEF TypeOK
  <2>3. wallet' \in [Addresses -> Nat]
    BY <2>1, <2>2 DEF TypeOK, Unbond, Credential
  <2>4. credentials' \in [CredentialIds -> Credential]
    <3> DEFINE d == [credentials[c] EXCEPT !.state = "deleted", !.bonded = 0]
    <3>1. d \in Credential
      BY <2>2 DEF Credential
    <3>2. credentials' = [credentials EXCEPT ![c] = d]
      BY <2>1 DEF Unbond
    <3> QED
      BY <3>1, <3>2 DEF TypeOK
  <2> QED
    BY <1>2, <2>1, <2>3, <2>4 DEF TypeOK, UnbondKeeper, Unbond, registryVars
<1>3. CASE AdvanceClock
  BY <1>3 DEF TypeOK, AdvanceClock, Tick, registryVars
<1>4. CASE \E c \in CredentialIds, a \in Addresses, k \in BinaryKeys : RecordSettlement(c, a, k)
  <2>1. PICK c \in CredentialIds, a \in Addresses, k \in BinaryKeys : RecordSettlement(c, a, k)
    BY <1>4
  <2>2. k \in Keys /\ CreditKeeper(c, a, k)
    BY <2>1 DEF Keys, RecordSettlement
  <2>3. settled_markets' \in [BinaryKeys -> Addresses \cup {Nobody}]
    BY <2>1 DEF TypeOK, RecordSettlement
  <2> QED
    BY <2>1, <2>2, <2>3, CreditKeeperType DEF TypeOK, RecordSettlement
<1>5. CASE \E c \in CredentialIds, a \in Addresses, k \in RangeKeys : RecordRangeSettlement(c, a, k)
  <2>1. PICK c \in CredentialIds, a \in Addresses, k \in RangeKeys : RecordRangeSettlement(c, a, k)
    BY <1>5
  <2>2. k \in Keys /\ CreditKeeper(c, a, k)
    BY <2>1 DEF Keys, RecordRangeSettlement
  <2>3. range_settled_markets' \in [RangeKeys -> Addresses \cup {Nobody}]
    BY <2>1 DEF TypeOK, RecordRangeSettlement
  <2> QED
    BY <2>1, <2>2, <2>3, CreditKeeperType DEF TypeOK, RecordRangeSettlement
<1>6. CASE \E a \in Addresses, n \in Coins : FundTreasury(a, n)
  BY <1>6 DEF TypeOK, FundTreasury, RegistryAssumption
<1>7. CASE \E n \in Coins : WithdrawTreasury(n)
  BY <1>7 DEF TypeOK, WithdrawTreasury, RegistryAssumption, Addresses
<1>8. CASE \E n \in Rewards : SetReward(n)
  BY <1>8 DEF TypeOK, SetReward, RegistryAssumption, credentialVars
<1>9. CASE UNCHANGED vars
  BY <1>9 DEF TypeOK, vars, credentialVars, registryVars
<1> QED
  BY <1>1, <1>2, <1>3, <1>4, <1>5, <1>6, <1>7, <1>8, <1>9 DEF Next

LEMMA InitType ==
    ASSUME CredentialAssumption, RegistryAssumption, Init
    PROVE  TypeOK
BY DEF Init, CredentialInit, TypeOK, CredentialAssumption, RegistryAssumption,
       Credential, Unused, Addresses

\* Every reachable state of the registry is well typed; in particular no wallet,
\* bond or treasury ever goes negative.
THEOREM TypeCorrect == Spec => []TypeOK
<1>1. Init => TypeOK
  BY InitType, CredentialAssumption, RegistryAssumption
<1>2. TypeOK /\ [Next]_vars => TypeOK'
  BY TypeStep, CredentialAssumption, RegistryAssumption
<1> QED
  BY <1>1, <1>2, PTL DEF Spec

-----------------------------------------------------------------------------
(***************************************************************************)
(* The steps that leave the tables and the event log alone, and the step   *)
(* that writes one entry.  Both are stated on SettledBy, so the binary and *)
(* the range table are handled once.                                       *)
(***************************************************************************)
TablesUnchanged == UNCHANGED <<settled_markets, range_settled_markets, events>>

Recorded(a, k, r, t) ==
    /\ SettledBy(k) = Nobody
    /\ \A q \in Keys : SettledBy(q)' = IF q = k THEN a ELSE SettledBy(q)
    /\ events' = Append(events, [keeper |-> a, key |-> k, reward_paid |-> r, at |-> t])

LEMMA RecordingStep ==
    ASSUME RegistryAssumption, TypeOK, [Next]_vars
    PROVE  \/ TablesUnchanged
           \/ \E c \in CredentialIds, a \in Addresses, k \in Keys :
                 /\ Recorded(a, k, RewardDue, clk)
                 /\ IsActive(c, a)
                 /\ IncrementJobs(c)
<1>1. ASSUME NEW c \in CredentialIds, NEW a \in Addresses, NEW k \in BinaryKeys,
             RecordSettlement(c, a, k)
      PROVE  k \in Keys /\ Recorded(a, k, RewardDue, clk) /\ IsActive(c, a) /\ IncrementJobs(c)
  <2>1. k \in Keys
    BY DEF Keys
  <2>2. SettledBy(k) = Nobody
    BY <1>1 DEF RecordSettlement, SettledBy
  <2>3. ASSUME NEW q \in Keys PROVE SettledBy(q)' = IF q = k THEN a ELSE SettledBy(q)
    BY <1>1 DEF RecordSettlement, SettledBy, TypeOK
  <2> QED
    BY <1>1, <2>1, <2>2, <2>3 DEF RecordSettlement, CreditKeeper, Recorded
<1>2. ASSUME NEW c \in CredentialIds, NEW a \in Addresses, NEW k \in RangeKeys,
             RecordRangeSettlement(c, a, k)
      PROVE  k \in Keys /\ Recorded(a, k, RewardDue, clk) /\ IsActive(c, a) /\ IncrementJobs(c)
  <2>1. k \in Keys /\ k \notin BinaryKeys
    BY DEF Keys, RegistryAssumption
  <2>2. SettledBy(k) = Nobody
    BY <1>2, <2>1 DEF RecordRangeSettlement, SettledBy
  <2>3. ASSUME NEW q \in Keys PROVE SettledBy(q)' = IF q = k THEN a ELSE SettledBy(q)
    BY <1>2, <2>1 DEF RecordRangeSettlement, SettledBy, TypeOK, Keys
  <2> QED
    BY <1>2, <2>1, <2>2, <2>3 DEF RecordRangeSettlement, CreditKeeper, Recorded
<1>3. CASE \E a \in Addresses, n \in Coins : FundTreasury(a, n)
  BY <1>3 DEF FundTreasury, TablesUnchanged
<1>4. CASE \E n \in Coins : WithdrawTreasury(n)
  BY <1>4 DEF WithdrawTreasury, TablesUnchanged
<1>5. CASE \E n \in Rewards : SetReward(n)
  BY <1>5 DEF SetReward, TablesUnchanged
<1>6. CASE RegisterKeeper \/ UnbondKeeper \/ AdvanceClock \/ UNCHANGED vars
  BY <1>6 DEF RegisterKeeper, UnbondKeeper, AdvanceClock, vars, registryVars, TablesUnchanged
<1> QED
  BY <1>1, <1>2, <1>3, <1>4, <1>5, <1>6 DEF Next

LEMMA EventsMatchTablesStep ==
    ASSUME CredentialAssumption, RegistryAssumption, TypeOK, EventsMatchTables, [Next]_vars
    PROVE  EventsMatchTables'
<1>1. CASE TablesUnchanged
  BY <1>1 DEF TablesUnchanged, EventsMatchTables, SettledBy
<1>2. ASSUME NEW a \in Addresses, NEW k \in Keys, Recorded(a, k, RewardDue, clk)
      PROVE  EventsMatchTables'
  <2> DEFINE n == Len(events)
             e == [keeper |-> a, key |-> k, reward_paid |-> RewardDue, at |-> clk]
  <2>1. /\ n \in Nat
        /\ DOMAIN events = 1..n
        /\ DOMAIN events' = 1..(n + 1)
        /\ \A i \in 1..n : events'[i] = events[i]
        /\ events'[n + 1] = e
    <3>1. events \in Seq(Event) /\ e \in Event
      BY RewardDueBounded DEF TypeOK, Event
    <3>2. events' = Append(events, e)
      BY <1>2 DEF Recorded
    <3> QED
      BY <3>1, <3>2
  <2>2. \A i \in 1..n : events[i].key \in Keys /\ events[i].keeper \in Addresses
    <3>1. \A i \in 1..n : events[i] \in Event
      BY <2>1 DEF TypeOK
    <3> QED
      BY <3>1 DEF Event
  <2>3. a # Nobody
    BY DEF CredentialAssumption
  <2>4. \A i \in 1..n : events[i].key # k
    <3>1. SUFFICES ASSUME NEW i \in 1..n, events[i].key = k PROVE FALSE
      OBVIOUS
    <3>2. events[i].keeper = Nobody
      BY <1>2, <2>1, <3>1 DEF Recorded, EventsMatchTables
    <3>3. events[i].keeper \in Addresses
      BY <2>2
    <3> QED
      BY <3>2, <3>3 DEF CredentialAssumption
  <2>5. e.key = k /\ e.keeper = a
    OBVIOUS
  <2> HIDE DEF e, n
  <2>6. (\A i \in DOMAIN events : SettledBy(events[i].key) = events[i].keeper)'
    <3>1. SUFFICES ASSUME NEW i \in 1..(n + 1)
                   PROVE  (SettledBy(events[i].key) = events[i].keeper)'
      BY <2>1
    <3>2. CASE i = n + 1
      BY <1>2, <2>1, <2>5, <3>2 DEF Recorded, SettledBy
    <3>3. CASE i \in 1..n
      BY <1>2, <2>1, <2>2, <2>4, <3>3 DEF EventsMatchTables, Recorded, SettledBy
    <3> QED
      BY <2>1, <3>2, <3>3
  <2>7. \A i, j \in DOMAIN events' : events'[i].key = events'[j].key => i = j
    BY <2>1, <2>4, <2>5 DEF EventsMatchTables
  <2>8. \A q \in Keys : SettledBy(q)' # Nobody => \E i \in DOMAIN events' : events'[i].key = q
    BY <1>2, <2>1, <2>5 DEF EventsMatchTables, Recorded
  <2> QED
    BY <2>6, <2>7, <2>8 DEF EventsMatchTables
<1> QED
  BY <1>1, <1>2, RecordingStep

\* Over the whole history, the event log and the two settlement tables name the
\* same keeper for the same keys, one event per key.
THEOREM EventsMatch == Spec => []EventsMatchTables
<1>1. Init => EventsMatchTables
  BY RegistryAssumption DEF Init, EventsMatchTables, SettledBy, Keys
<1>2. TypeOK /\ EventsMatchTables /\ [Next]_vars => EventsMatchTables'
  BY EventsMatchTablesStep, CredentialAssumption, RegistryAssumption
<1> QED
  BY <1>1, <1>2, TypeCorrect, PTL DEF Spec

-----------------------------------------------------------------------------
(***************************************************************************)
(* OnlyActivatedKeepersCredited needs to know that an id nobody registered *)
(* is blank, in particular has done no job: otherwise register could       *)
(* overwrite the credential that vouches for an event.                     *)
(***************************************************************************)
UnusedIsBlank ==
    \A c \in CredentialIds : credentials[c].state = "unused" => credentials[c] = Unused

CreditInv == UnusedIsBlank /\ OnlyActivatedKeepersCredited

\* A credential that has done a job keeps its owner, its activation time and its
\* job, whatever happens next.
CredentialKept(c) ==
    credentials[c].jobs_completed > 0 =>
        /\ credentials'[c].keeper = credentials[c].keeper
        /\ credentials'[c].activated_at = credentials[c].activated_at
        /\ credentials'[c].jobs_completed > 0

LEMMA IncrementKeeps ==
    ASSUME TypeOK, UnusedIsBlank, NEW c \in CredentialIds, NEW a \in Addresses,
           IsActive(c, a), IncrementJobs(c)
    PROVE  /\ UnusedIsBlank'
           /\ \A d \in CredentialIds : CredentialKept(d)
           /\ credentials'[c].keeper = a
           /\ credentials'[c].activated_at <= clk
           /\ credentials'[c].jobs_completed > 0
<1>1. /\ credentials[c] \in Credential
      /\ \A d \in CredentialIds :
            credentials'[d] = IF d = c
                              THEN [credentials[c] EXCEPT !.jobs_completed = @ + 1]
                              ELSE credentials[d]
  BY DEF TypeOK, IncrementJobs
<1>2. /\ credentials'[c].state = "live"
      /\ credentials'[c].keeper = a
      /\ credentials'[c].activated_at = credentials[c].activated_at
      /\ credentials'[c].jobs_completed > 0
      /\ credentials[c].activated_at \in Nat
      /\ credentials[c].keeper = a
  BY <1>1 DEF Credential, IsActive
<1>3. credentials'[c].activated_at <= clk
  BY <1>2 DEF IsActive, TypeOK
<1>4. UnusedIsBlank'
  BY <1>1, <1>2 DEF UnusedIsBlank
<1>5. \A d \in CredentialIds : CredentialKept(d)
  BY <1>1, <1>2 DEF CredentialKept
<1> QED
  BY <1>2, <1>3, <1>4, <1>5

LEMMA CredentialsKept ==
    ASSUME TypeOK, UnusedIsBlank, [Next]_vars
    PROVE  UnusedIsBlank' /\ \A d \in CredentialIds : CredentialKept(d)
<1>1. ASSUME NEW c \in CredentialIds, NEW a \in Addresses, NEW s \in Stakes, Register(c, a, s)
      PROVE  UnusedIsBlank' /\ \A d \in CredentialIds : CredentialKept(d)
  BY <1>1 DEF Register, TypeOK, UnusedIsBlank, Unused, CredentialKept
<1>2. ASSUME NEW c \in CredentialIds, NEW a \in Addresses, Unbond(c, a)
      PROVE  UnusedIsBlank' /\ \A d \in CredentialIds : CredentialKept(d)
  <2>1. \A d \in CredentialIds :
            credentials'[d] = IF d = c
                              THEN [credentials[c] EXCEPT !.state = "deleted", !.bonded = 0]
                              ELSE credentials[d]
    BY <1>2 DEF Unbond, TypeOK
  <2>2. credentials[c] \in Credential
    BY DEF TypeOK
  <2>3. /\ credentials'[c].state = "deleted"
        /\ credentials'[c].keeper = credentials[c].keeper
        /\ credentials'[c].activated_at = credentials[c].activated_at
        /\ credentials'[c].jobs_completed = credentials[c].jobs_completed
    BY <2>1, <2>2 DEF Credential
  <2> QED
    BY <2>1, <2>3 DEF UnusedIsBlank, CredentialKept
<1>3. ASSUME NEW c \in CredentialIds, NEW a \in Addresses, IsActive(c, a), IncrementJobs(c)
      PROVE  UnusedIsBlank' /\ \A d \in CredentialIds : CredentialKept(d)
  BY <1>3, IncrementKeeps
<1>4. ASSUME UNCHANGED credentials
      PROVE  UnusedIsBlank' /\ \A d \in CredentialIds : CredentialKept(d)
  BY <1>4 DEF UnusedIsBlank, CredentialKept
<1>5. CASE RegisterKeeper \/ UnbondKeeper
  BY <1>1, <1>2, <1>5 DEF RegisterKeeper, UnbondKeeper
<1>6. CASE \/ \E c \in CredentialIds, a \in Addresses, k \in BinaryKeys : RecordSettlement(c, a, k)
           \/ \E c \in CredentialIds, a \in Addresses, k \in RangeKeys : RecordRangeSettlement(c, a, k)
  BY <1>3, <1>6 DEF RecordSettlement, RecordRangeSettlement, CreditKeeper
<1>7. CASE \/ \E a \in Addresses, n \in Coins : FundTreasury(a, n)
           \/ \E n \in Coins : WithdrawTreasury(n)
           \/ \E n \in Rewards : SetReward(n)
           \/ AdvanceClock
           \/ UNCHANGED vars
  BY <1>4, <1>7 DEF FundTreasury, WithdrawTreasury, SetReward, AdvanceClock, Tick,
                    credentialVars, vars
<1> QED
  BY <1>5, <1>6, <1>7 DEF Next

LEMMA CreditInvStep ==
    ASSUME RegistryAssumption, TypeOK, CreditInv, [Next]_vars
    PROVE  CreditInv'
<1>1. UnusedIsBlank' /\ \A d \in CredentialIds : CredentialKept(d)
  BY CredentialsKept DEF CreditInv
<1>2. events \in Seq(Event)
  BY DEF TypeOK
<1>3. CASE TablesUnchanged
  BY <1>1, <1>3 DEF CreditInv, TablesUnchanged, OnlyActivatedKeepersCredited, CredentialKept
<1>4. ASSUME NEW c \in CredentialIds, NEW a \in Addresses, NEW k \in Keys,
             Recorded(a, k, RewardDue, clk), IsActive(c, a), IncrementJobs(c)
      PROVE  OnlyActivatedKeepersCredited'
  <2> DEFINE e == [keeper |-> a, key |-> k, reward_paid |-> RewardDue, at |-> clk]
  <2>1. e \in Event /\ events' = Append(events, e)
    BY <1>4, RewardDueBounded DEF TypeOK, Event, Recorded
  <2>2. /\ Len(events) \in Nat
        /\ DOMAIN events = 1..Len(events)
        /\ DOMAIN events' = 1..(Len(events) + 1)
        /\ \A i \in 1..Len(events) : events'[i] = events[i]
        /\ events'[Len(events) + 1] = e
    BY <1>2, <2>1
  <2>3. e.keeper = a /\ e.at = clk
    OBVIOUS
  <2>4. /\ credentials'[c].keeper = a
        /\ credentials'[c].activated_at <= clk
        /\ credentials'[c].jobs_completed > 0
    BY <1>4, IncrementKeeps DEF CreditInv
  <2> HIDE DEF e
  <2>5. ASSUME NEW i \in 1..(Len(events) + 1)
        PROVE  \E d \in CredentialIds :
                  /\ credentials'[d].keeper = events'[i].keeper
                  /\ credentials'[d].jobs_completed > 0
                  /\ credentials'[d].activated_at <= events'[i].at
    <3>1. CASE i = Len(events) + 1
      BY <2>2, <2>3, <2>4, <3>1
    <3>2. CASE i \in 1..Len(events)
      BY <1>1, <2>2, <3>2 DEF CreditInv, OnlyActivatedKeepersCredited, CredentialKept
    <3> QED
      BY <2>2, <3>1, <3>2
  <2> QED
    BY <2>2, <2>5 DEF OnlyActivatedKeepersCredited
<1> QED
  BY <1>1, <1>3, <1>4, RecordingStep DEF CreditInv

\* Nobody is ever credited with a settlement before a credential of theirs was
\* bonded and past its activation delay, and unbonding does not erase the trace.
THEOREM CreditedAfterActivation == Spec => []OnlyActivatedKeepersCredited
<1>1. Init => CreditInv
  BY DEF Init, CredentialInit, CreditInv, UnusedIsBlank, OnlyActivatedKeepersCredited, Unused
<1>2. TypeOK /\ CreditInv /\ [Next]_vars => CreditInv'
  BY CreditInvStep, RegistryAssumption
<1>3. CreditInv => OnlyActivatedKeepersCredited
  BY DEF CreditInv
<1> QED
  BY <1>1, <1>2, <1>3, TypeCorrect, PTL DEF Spec

-----------------------------------------------------------------------------
\* First writer wins: the two settlement tables, read as one, are a table whose
\* entries are written once and for ever.
THEOREM WriteOnce == Spec => TablesAreWriteOnce
<1> DEFINE table == [k \in Keys |-> SettledBy(k)]
<1>1. Init => FirstWriterWins!Init
  BY DEF Init, FirstWriterWins!Init, SettledBy, Keys
<1>2. TypeOK /\ [Next]_vars => [FirstWriterWins!Next]_table
  <2>1. SUFFICES ASSUME TypeOK, [Next]_vars
                 PROVE  FirstWriterWins!Next \/ UNCHANGED table
    OBVIOUS
  <2>2. CASE TablesUnchanged
    BY <2>2 DEF TablesUnchanged, SettledBy
  <2>3. ASSUME NEW a \in Addresses, NEW k \in Keys, Recorded(a, k, RewardDue, clk)
        PROVE  FirstWriterWins!Record(k, a)
    BY <2>3 DEF Recorded, FirstWriterWins!Record
  <2> QED
    BY <2>1, <2>2, <2>3, RecordingStep, RegistryAssumption DEF FirstWriterWins!Next
<1> QED
  BY <1>1, <1>2, TypeCorrect, PTL DEF Spec, TablesAreWriteOnce, FirstWriterWins!Spec

-----------------------------------------------------------------------------
(***************************************************************************)
(* SUI is conserved.  A step moves an amount between one wallet, the       *)
(* treasury and one bond; MoveConserves says that such a step keeps the    *)
(* total.  A bond is only put where none is: ids are blank until used.     *)
(***************************************************************************)
Bonds == [c \in CredentialIds |-> credentials[c].bonded]

LEMMA SumTypes ==
    ASSUME CredentialAssumption, TypeOK
    PROVE  /\ IsFiniteSet(Addresses) /\ DOMAIN wallet = Addresses
           /\ DOMAIN Bonds = CredentialIds
           /\ \A a \in Addresses : wallet[a] \in Nat
           /\ \A c \in CredentialIds : Bonds[c] \in Nat
           /\ SumFunction(wallet) \in Nat /\ SumFunction(Bonds) \in Nat
<1>1. IsFiniteSet(Addresses) /\ IsFiniteSet(CredentialIds)
  BY FS_AddElement DEF CredentialAssumption, Addresses
<1>2. DOMAIN wallet = Addresses /\ \A a \in Addresses : wallet[a] \in Nat
  BY DEF TypeOK
<1>3. DOMAIN Bonds = CredentialIds /\ \A c \in CredentialIds : Bonds[c] \in Nat
  BY DEF TypeOK, Credential, Bonds
<1>4. SumFunctionOnSet(wallet, Addresses) \in Nat
  BY <1>1, <1>2, SumNat
<1>5. SumFunctionOnSet(Bonds, CredentialIds) \in Nat
  BY <1>1, <1>3, SumNat
<1> QED
  BY <1>1, <1>2, <1>3, <1>4, <1>5 DEF SumFunction

LEMMA WalletMoves ==
    ASSUME CredentialAssumption, TypeOK, TypeOK', NEW a \in Addresses,
           \A b \in Addresses \ {a} : wallet'[b] = wallet[b]
    PROVE  SumFunction(wallet)' = SumFunction(wallet) + wallet'[a] - wallet[a]
<1>1. IsFiniteSet(Addresses) /\ DOMAIN wallet = Addresses /\ DOMAIN wallet' = Addresses
  BY SumTypes DEF TypeOK
<1>2. \A b \in Addresses : wallet[b] \in Int /\ wallet'[b] \in Int
  BY DEF TypeOK
<1>3. SumFunctionOnSet(wallet', Addresses)
        = SumFunctionOnSet(wallet, Addresses) + wallet'[a] - wallet[a]
  BY <1>1, <1>2, SumChange
<1> QED
  BY <1>1, <1>3 DEF SumFunction

LEMMA BondMoves ==
    ASSUME CredentialAssumption, TypeOK, TypeOK', NEW c \in CredentialIds,
           \A d \in CredentialIds \ {c} : credentials'[d].bonded = credentials[d].bonded
    PROVE  SumFunction(Bonds)' = SumFunction(Bonds) + credentials'[c].bonded - credentials[c].bonded
<1>1. IsFiniteSet(CredentialIds) /\ DOMAIN Bonds = CredentialIds /\ DOMAIN Bonds' = CredentialIds
  BY DEF CredentialAssumption, Bonds
<1>2. \A d \in CredentialIds : Bonds[d] \in Int /\ Bonds'[d] \in Int
  BY DEF TypeOK, Bonds, Credential
<1>3. Bonds'[c] = credentials'[c].bonded /\ Bonds[c] = credentials[c].bonded
  BY DEF Bonds
<1>4. \A d \in CredentialIds \ {c} : Bonds[d] = Bonds'[d]
  BY DEF Bonds
<1>5. SumFunctionOnSet(Bonds', CredentialIds)
        = SumFunctionOnSet(Bonds, CredentialIds) + Bonds'[c] - Bonds[c]
  BY <1>1, <1>2, <1>4, SumChange
<1> QED
  BY <1>1, <1>3, <1>5 DEF SumFunction

LEMMA BondsStay ==
    ASSUME CredentialAssumption, TypeOK,
           \A d \in CredentialIds : credentials'[d].bonded = credentials[d].bonded
    PROVE  SumFunction(Bonds)' = SumFunction(Bonds)
<1>1. Bonds' = Bonds
  BY DEF Bonds
<1> QED
  BY <1>1

Supply == SumFunction(wallet) + treasury + SumFunction(Bonds)

LEMMA SupplyStep ==
    ASSUME CredentialAssumption, RegistryAssumption, TypeOK, TypeOK', UnusedIsBlank, [Next]_vars
    PROVE  Supply' = Supply
<1> USE CredentialAssumption, RegistryAssumption
<1>1. /\ SumFunction(wallet) \in Nat /\ SumFunction(wallet)' \in Nat
      /\ SumFunction(Bonds) \in Nat /\ SumFunction(Bonds)' \in Nat
      /\ treasury \in Nat /\ treasury' \in Nat
  <2>1. SumFunction(wallet)' \in Nat /\ SumFunction(Bonds)' \in Nat
    <3>1. DOMAIN wallet' = Addresses /\ \A a \in Addresses : wallet'[a] \in Nat
      BY DEF TypeOK
    <3>2. DOMAIN Bonds' = CredentialIds /\ \A c \in CredentialIds : Bonds'[c] \in Nat
      BY DEF TypeOK, Credential, Bonds
    <3>3. IsFiniteSet(Addresses) /\ IsFiniteSet(CredentialIds)
      BY SumTypes DEF CredentialAssumption
    <3> QED
      BY <3>1, <3>2, <3>3, SumNat DEF SumFunction
  <2> QED
    BY <2>1, SumTypes DEF TypeOK
<1>2. ASSUME NEW c \in CredentialIds, NEW a \in Addresses, NEW s \in Stakes,
             Register(c, a, s), treasury' = treasury
      PROVE  Supply' = Supply
  <2>1. s \in Nat /\ wallet[a] \in Nat
    BY DEF TypeOK, CredentialAssumption
  <2>2. wallet'[a] = wallet[a] - s /\ \A b \in Addresses \ {a} : wallet'[b] = wallet[b]
    BY <1>2 DEF Register, TypeOK
  <2>3. /\ credentials[c].bonded = 0 /\ credentials'[c].bonded = s
        /\ \A d \in CredentialIds \ {c} : credentials'[d].bonded = credentials[d].bonded
    BY <1>2 DEF Register, TypeOK, UnusedIsBlank, Unused
  <2>4. SumFunction(wallet)' = SumFunction(wallet) + wallet'[a] - wallet[a]
    BY <2>2, WalletMoves
  <2>5. SumFunction(Bonds)' = SumFunction(Bonds) + credentials'[c].bonded - credentials[c].bonded
    BY <2>3, BondMoves
  <2> QED
    BY <1>1, <1>2, <2>1, <2>2, <2>3, <2>4, <2>5 DEF Supply
<1>3. ASSUME NEW c \in CredentialIds, NEW a \in Addresses, Unbond(c, a), treasury' = treasury
      PROVE  Supply' = Supply
  <2>1. credentials[c] \in Credential /\ credentials[c].bonded \in Nat /\ wallet[a] \in Nat
    BY DEF TypeOK, Credential
  <2>2. /\ wallet'[a] = wallet[a] + credentials[c].bonded
        /\ \A b \in Addresses \ {a} : wallet'[b] = wallet[b]
    BY <1>3 DEF Unbond, TypeOK
  <2>3. \A d \in CredentialIds :
            credentials'[d] = IF d = c
                              THEN [credentials[c] EXCEPT !.state = "deleted", !.bonded = 0]
                              ELSE credentials[d]
    BY <1>3 DEF Unbond, TypeOK
  <2>4. /\ credentials'[c].bonded = 0
        /\ \A d \in CredentialIds \ {c} : credentials'[d].bonded = credentials[d].bonded
    BY <2>1, <2>3 DEF Credential
  <2>5. SumFunction(wallet)' = SumFunction(wallet) + wallet'[a] - wallet[a]
    BY <2>2, WalletMoves
  <2>6. SumFunction(Bonds)' = SumFunction(Bonds) + credentials'[c].bonded - credentials[c].bonded
    BY <2>4, BondMoves
  <2> QED
    BY <1>1, <1>3, <2>1, <2>2, <2>4, <2>5, <2>6 DEF Supply
<1>4. ASSUME NEW c \in CredentialIds, NEW a \in Addresses, NEW k, CreditKeeper(c, a, k)
      PROVE  Supply' = Supply
  <2>1. RewardDue \in Nat /\ treasury' = treasury - RewardDue
    BY <1>4, RewardDueBounded DEF CreditKeeper
  <2>2. /\ wallet[a] \in Nat /\ wallet'[a] = wallet[a] + RewardDue
        /\ \A b \in Addresses \ {a} : wallet'[b] = wallet[b]
    BY <1>4, <2>1 DEF CreditKeeper, TypeOK
  <2>3. \A d \in CredentialIds : credentials'[d].bonded = credentials[d].bonded
    <3>1. credentials[c] \in Credential
      BY DEF TypeOK
    <3>2. \A d \in CredentialIds :
            credentials'[d] = IF d = c
                              THEN [credentials[c] EXCEPT !.jobs_completed = @ + 1]
                              ELSE credentials[d]
      BY <1>4 DEF CreditKeeper, IncrementJobs, TypeOK
    <3> QED
      BY <3>1, <3>2 DEF Credential
  <2>4. SumFunction(wallet)' = SumFunction(wallet) + wallet'[a] - wallet[a]
    BY <2>2, WalletMoves
  <2>5. SumFunction(Bonds)' = SumFunction(Bonds)
    BY <2>3, BondsStay
  <2> QED
    BY <1>1, <2>1, <2>2, <2>4, <2>5 DEF Supply
<1>5. ASSUME NEW a \in Addresses, NEW n \in Coins, FundTreasury(a, n)
      PROVE  Supply' = Supply
  <2>1. n \in Nat /\ treasury' = treasury + n /\ credentials' = credentials
    BY <1>5 DEF FundTreasury, RegistryAssumption
  <2>2. /\ wallet[a] \in Nat /\ wallet'[a] = wallet[a] - n
        /\ \A b \in Addresses \ {a} : wallet'[b] = wallet[b]
    BY <1>5 DEF FundTreasury, TypeOK
  <2>3. SumFunction(wallet)' = SumFunction(wallet) + wallet'[a] - wallet[a]
    BY <2>2, WalletMoves
  <2>4. SumFunction(Bonds)' = SumFunction(Bonds)
    BY <2>1, BondsStay
  <2> QED
    BY <1>1, <2>1, <2>2, <2>3, <2>4 DEF Supply
<1>6. ASSUME NEW n \in Coins, WithdrawTreasury(n)
      PROVE  Supply' = Supply
  <2>1. n \in Nat /\ treasury' = treasury - n /\ credentials' = credentials
    BY <1>6 DEF WithdrawTreasury, RegistryAssumption
  <2>2. Admin \in Addresses
    BY DEF Addresses
  <2>3. /\ wallet[Admin] \in Nat /\ wallet'[Admin] = wallet[Admin] + n
        /\ \A b \in Addresses \ {Admin} : wallet'[b] = wallet[b]
    BY <1>6, <2>2 DEF WithdrawTreasury, TypeOK
  <2>4. SumFunction(wallet)' = SumFunction(wallet) + wallet'[Admin] - wallet[Admin]
    BY <2>2, <2>3, WalletMoves
  <2>5. SumFunction(Bonds)' = SumFunction(Bonds)
    BY <2>1, BondsStay
  <2> QED
    BY <1>1, <2>1, <2>3, <2>4, <2>5 DEF Supply
<1>7. ASSUME UNCHANGED <<wallet, treasury, credentials>>
      PROVE  Supply' = Supply
  BY <1>7 DEF Supply, Bonds
<1>8. CASE RegisterKeeper \/ UnbondKeeper
  BY <1>2, <1>3, <1>8 DEF RegisterKeeper, UnbondKeeper, registryVars
<1>9. CASE \/ \E c \in CredentialIds, a \in Addresses, k \in BinaryKeys : RecordSettlement(c, a, k)
           \/ \E c \in CredentialIds, a \in Addresses, k \in RangeKeys : RecordRangeSettlement(c, a, k)
  BY <1>4, <1>9 DEF RecordSettlement, RecordRangeSettlement
<1>10. CASE \/ \E n \in Rewards : SetReward(n)
            \/ AdvanceClock
            \/ UNCHANGED vars
  BY <1>7, <1>10 DEF SetReward, AdvanceClock, Tick, credentialVars, registryVars, vars
<1> QED
  BY <1>5, <1>6, <1>8, <1>9, <1>10 DEF Next

ConservedInv == UnusedIsBlank /\ SuiConserved

\* The SUI of a registry is conserved for any number of keepers and credentials: it
\* is in the wallets, in the treasury or in the bonds, whatever is registered,
\* unbonded, rewarded, funded or withdrawn.
THEOREM SuiIsConserved == Spec => []SuiConserved
<1>1. SuiConserved <=> Supply = InitialWallet * Cardinality(Addresses)
  BY DEF SuiConserved, Supply, Bonds
<1>2. Init => ConservedInv
  <2> SUFFICES ASSUME Init PROVE ConservedInv
    OBVIOUS
  <2>1. TypeOK
    BY InitType, CredentialAssumption, RegistryAssumption
  <2>2. /\ IsFiniteSet(Addresses) /\ DOMAIN wallet = Addresses
        /\ \A a \in Addresses : wallet[a] = InitialWallet
        /\ IsFiniteSet(CredentialIds) /\ DOMAIN Bonds = CredentialIds
        /\ \A c \in CredentialIds : Bonds[c] = 0
        /\ treasury = 0
    BY <2>1, SumTypes, CredentialAssumption
       DEF Init, CredentialInit, Unused, Bonds, CredentialAssumption
  <2>3. SumFunctionOnSet(wallet, Addresses) = InitialWallet * Cardinality(Addresses)
    BY <2>2, SumConstant, CredentialAssumption DEF CredentialAssumption
  <2>4. SumFunctionOnSet(Bonds, CredentialIds) = 0
    <3>1. SumFunctionOnSet(Bonds, CredentialIds) = SumFunctionOnSet(Bonds, {})
      BY <2>2, SumNonzero
    <3> QED
      BY <3>1, SumEmpty
  <2>5. SumFunction(wallet) \in Nat
    BY <2>1, SumTypes, CredentialAssumption
  <2>6. Supply = InitialWallet * Cardinality(Addresses)
    BY <2>2, <2>3, <2>4, <2>5 DEF Supply, SumFunction
  <2>7. UnusedIsBlank
    BY DEF Init, CredentialInit, UnusedIsBlank
  <2> QED
    BY <1>1, <2>6, <2>7 DEF ConservedInv
<1>3. TypeOK /\ TypeOK' /\ ConservedInv /\ [Next]_vars => ConservedInv'
  <2> SUFFICES ASSUME TypeOK, TypeOK', ConservedInv, [Next]_vars PROVE ConservedInv'
    OBVIOUS
  <2>1. UnusedIsBlank'
    BY CredentialsKept DEF ConservedInv
  <2>2. Supply' = Supply
    BY SupplyStep, CredentialAssumption, RegistryAssumption DEF ConservedInv
  <2>3. SuiConserved'
    BY <2>2 DEF ConservedInv, SuiConserved, Supply, Bonds
  <2> QED
    BY <2>1, <2>3 DEF ConservedInv
<1>4. ConservedInv => SuiConserved
  BY DEF ConservedInv
<1> QED
  BY <1>2, <1>3, <1>4, TypeCorrect, PTL DEF Spec

-----------------------------------------------------------------------------
(***************************************************************************)
(* Jobs and settlements agree.  A recording adds one to both sides for the *)
(* sender; a registration adds a credential without jobs to the sender's;  *)
(* unbonding keeps owner and jobs of the deleted credential.               *)
(***************************************************************************)
Jobs == [c \in CredentialIds |-> credentials[c].jobs_completed]
CredentialsOf(a) == {c \in CredentialIds : credentials[c].keeper = a}
SettledKeys(a) == {k \in Keys : SettledBy(k) = a}

LEMMA JobTypes ==
    ASSUME CredentialAssumption, TypeOK, NEW a
    PROVE  /\ IsFiniteSet(CredentialsOf(a))
           /\ \A c \in CredentialIds : Jobs[c] \in Nat
           /\ SumFunctionOnSet(Jobs, CredentialsOf(a)) \in Nat
<1>1. IsFiniteSet(CredentialsOf(a)) /\ CredentialsOf(a) \subseteq CredentialIds
  BY FS_Subset DEF CredentialAssumption, CredentialsOf
<1>2. \A c \in CredentialIds : Jobs[c] \in Nat
  BY DEF TypeOK, Credential, Jobs
<1> QED
  BY <1>1, <1>2, SumNat

\* The credentials of an address and their jobs do not change.
LEMMA SameJobs ==
    ASSUME CredentialAssumption, TypeOK, NEW a,
           CredentialsOf(a)' = CredentialsOf(a),
           \A c \in CredentialsOf(a) : Jobs'[c] = Jobs[c]
    PROVE  SumFunctionOnSet(Jobs, CredentialsOf(a))' = SumFunctionOnSet(Jobs, CredentialsOf(a))
<1>1. IsFiniteSet(CredentialsOf(a))
  BY JobTypes
<1>2. SumFunctionOnSet(Jobs', CredentialsOf(a)) = SumFunctionOnSet(Jobs, CredentialsOf(a))
  BY <1>1, SumEqual
<1> QED
  BY <1>2

LEMMA RecordingCounts ==
    ASSUME CredentialAssumption, RegistryAssumption, TypeOK, TypeOK',
           NEW c \in CredentialIds, NEW s \in Addresses, NEW k \in Keys,
           IsActive(c, s), IncrementJobs(c), Recorded(s, k, RewardDue, clk),
           NEW a \in Addresses,
           SumFunctionOnSet(Jobs, CredentialsOf(a)) = Cardinality(SettledKeys(a))
    PROVE  SumFunctionOnSet(Jobs, CredentialsOf(a))' = Cardinality(SettledKeys(a))'
<1>1. credentials[c] \in Credential
  BY DEF TypeOK
<1>2. \A d \in CredentialIds :
          credentials'[d] = IF d = c THEN [credentials[c] EXCEPT !.jobs_completed = @ + 1]
                                     ELSE credentials[d]
  BY DEF TypeOK, IncrementJobs
<1>3. /\ \A d \in CredentialIds : credentials'[d].keeper = credentials[d].keeper
      /\ \A d \in CredentialIds \ {c} : Jobs'[d] = Jobs[d]
      /\ Jobs[c] \in Nat /\ Jobs'[c] = Jobs[c] + 1
  BY <1>1, <1>2 DEF Credential, Jobs
<1>4. CredentialsOf(a)' = CredentialsOf(a)
  BY <1>3 DEF CredentialsOf
<1>5. IsFiniteSet(CredentialsOf(a)) /\ SumFunctionOnSet(Jobs, CredentialsOf(a)) \in Nat
  BY JobTypes
<1>6. IsFiniteSet(SettledKeys(a)) /\ k \notin SettledKeys(a)
  BY FS_Subset DEF RegistryAssumption, SettledKeys, Recorded, CredentialAssumption
<1>7. CASE a = s
  <2>1. c \in CredentialsOf(a)
    BY <1>7 DEF IsActive, CredentialsOf
  <2>2. /\ \A d \in CredentialsOf(a) : Jobs[d] \in Int /\ Jobs'[d] \in Int
        /\ \A d \in CredentialsOf(a) \ {c} : Jobs[d] = Jobs'[d]
    <3>1. \A d \in CredentialsOf(a) : d \in CredentialIds
      BY DEF CredentialsOf
    <3>2. \A d \in CredentialIds : Jobs[d] \in Nat /\ Jobs'[d] \in Nat
      BY DEF TypeOK, Credential, Jobs
    <3> QED
      BY <1>3, <3>1, <3>2
  <2>3. SumFunctionOnSet(Jobs', CredentialsOf(a))
          = SumFunctionOnSet(Jobs, CredentialsOf(a)) + Jobs'[c] - Jobs[c]
    BY <1>5, <2>1, <2>2, SumChange
  <2>4. SettledKeys(a)' = SettledKeys(a) \cup {k}
    BY <1>7 DEF SettledKeys, Recorded
  <2>5. Cardinality(SettledKeys(a) \cup {k}) = Cardinality(SettledKeys(a)) + 1
    BY <1>6, FS_AddElement
  <2>6. SumFunctionOnSet(Jobs', CredentialsOf(a)) = SumFunctionOnSet(Jobs, CredentialsOf(a)) + 1
    BY <1>3, <1>5, <2>3
  <2> QED
    BY <1>4, <2>4, <2>5, <2>6
<1>8. CASE a # s
  <2>1. c \notin CredentialsOf(a)
    BY <1>8 DEF IsActive, CredentialsOf
  <2>2. \A d \in CredentialsOf(a) : Jobs'[d] = Jobs[d]
    BY <1>3, <2>1 DEF CredentialsOf
  <2>3. SettledKeys(a)' = SettledKeys(a)
    BY <1>8, <1>6 DEF SettledKeys, Recorded
  <2> QED
    BY <1>4, <2>2, <2>3, SameJobs
<1> QED
  BY <1>7, <1>8

LEMMA RegisteringCounts ==
    ASSUME CredentialAssumption, TypeOK, TypeOK', UnusedIsBlank,
           NEW c \in CredentialIds, NEW s \in Addresses, NEW n \in Stakes, Register(c, s, n),
           NEW a \in Addresses
    PROVE  SumFunctionOnSet(Jobs, CredentialsOf(a))' = SumFunctionOnSet(Jobs, CredentialsOf(a))
<1>1. /\ credentials[c].keeper = Nobody /\ credentials'[c].keeper = s /\ Jobs'[c] = 0
      /\ \A d \in CredentialIds \ {c} :
            credentials'[d].keeper = credentials[d].keeper /\ Jobs'[d] = Jobs[d]
  BY DEF Register, TypeOK, UnusedIsBlank, Unused, Jobs
<1>2. c \notin CredentialsOf(a)
  BY <1>1 DEF CredentialsOf, CredentialAssumption
<1>3. CASE a = s
  <2>1. CredentialsOf(a)' = CredentialsOf(a) \cup {c}
    BY <1>1, <1>3 DEF CredentialsOf
  <2>2. IsFiniteSet(CredentialsOf(a) \cup {c}) /\ IsFiniteSet(CredentialsOf(a))
    BY JobTypes, FS_AddElement
  <2>3. \A d \in CredentialsOf(a) \cup {c} : Jobs'[d] \in Int
    BY <1>1 DEF TypeOK, Credential, Jobs, CredentialsOf
  <2>4. \A d \in (CredentialsOf(a) \cup {c}) \ CredentialsOf(a) : Jobs'[d] = 0
    BY <1>1
  <2>5. SumFunctionOnSet(Jobs', CredentialsOf(a) \cup {c}) = SumFunctionOnSet(Jobs', CredentialsOf(a))
    BY <2>2, <2>3, <2>4, SumNonzero
  <2>6. \A d \in CredentialsOf(a) : Jobs'[d] = Jobs[d]
    BY <1>1, <1>2 DEF CredentialsOf
  <2>7. SumFunctionOnSet(Jobs', CredentialsOf(a)) = SumFunctionOnSet(Jobs, CredentialsOf(a))
    BY <2>2, <2>6, SumEqual
  <2> QED
    BY <2>1, <2>5, <2>7
<1>4. CASE a # s
  <2>1. CredentialsOf(a)' = CredentialsOf(a)
    BY <1>1, <1>2, <1>4 DEF CredentialsOf
  <2>2. \A d \in CredentialsOf(a) : Jobs'[d] = Jobs[d]
    BY <1>1, <1>2 DEF CredentialsOf
  <2> QED
    BY <2>1, <2>2, SameJobs
<1> QED
  BY <1>3, <1>4

LEMMA JobsMatchStep ==
    ASSUME CredentialAssumption, RegistryAssumption, TypeOK, TypeOK', UnusedIsBlank,
           NEW a \in Addresses,
           SumFunctionOnSet(Jobs, CredentialsOf(a)) = Cardinality(SettledKeys(a)), [Next]_vars
    PROVE  SumFunctionOnSet(Jobs, CredentialsOf(a))' = Cardinality(SettledKeys(a))'
<1>1. ASSUME NEW c \in CredentialIds, NEW s \in Addresses, NEW k \in Keys,
             Recorded(s, k, RewardDue, clk), IsActive(c, s), IncrementJobs(c)
      PROVE  SumFunctionOnSet(Jobs, CredentialsOf(a))' = Cardinality(SettledKeys(a))'
  BY <1>1, RecordingCounts
<1>2. CASE TablesUnchanged
  <2>1. SettledKeys(a)' = SettledKeys(a)
    BY <1>2 DEF TablesUnchanged, SettledKeys, SettledBy
  <2>2. ASSUME NEW c \in CredentialIds, NEW s \in Addresses, NEW n \in Stakes, Register(c, s, n)
        PROVE  SumFunctionOnSet(Jobs, CredentialsOf(a))' = SumFunctionOnSet(Jobs, CredentialsOf(a))
    BY <2>2, RegisteringCounts
  <2>3. ASSUME NEW c \in CredentialIds, NEW s \in Addresses, Unbond(c, s)
        PROVE  SumFunctionOnSet(Jobs, CredentialsOf(a))' = SumFunctionOnSet(Jobs, CredentialsOf(a))
    <3>1. credentials[c] \in Credential
      BY DEF TypeOK
    <3>2. \A d \in CredentialIds :
              credentials'[d] = IF d = c
                                THEN [credentials[c] EXCEPT !.state = "deleted", !.bonded = 0]
                                ELSE credentials[d]
      BY <2>3 DEF Unbond, TypeOK
    <3>3. /\ credentials'[c].keeper = credentials[c].keeper
          /\ credentials'[c].jobs_completed = credentials[c].jobs_completed
      BY <3>1, <3>2 DEF Credential
    <3>4. CredentialsOf(a)' = CredentialsOf(a) /\ \A d \in CredentialsOf(a) : Jobs'[d] = Jobs[d]
      BY <3>2, <3>3 DEF CredentialsOf, Jobs
    <3> QED
      BY <3>4, SameJobs
  <2>4. ASSUME UNCHANGED credentials
        PROVE  SumFunctionOnSet(Jobs, CredentialsOf(a))' = SumFunctionOnSet(Jobs, CredentialsOf(a))
    BY <2>4 DEF Jobs, CredentialsOf
  <2>5. CASE RegisterKeeper \/ UnbondKeeper
    BY <2>1, <2>2, <2>3, <2>5 DEF RegisterKeeper, UnbondKeeper
  <2>6. CASE \/ \E b \in Addresses, n \in Coins : FundTreasury(b, n)
             \/ \E n \in Coins : WithdrawTreasury(n)
             \/ \E n \in Rewards : SetReward(n)
             \/ AdvanceClock
             \/ UNCHANGED vars
    BY <2>1, <2>4, <2>6 DEF FundTreasury, WithdrawTreasury, SetReward, AdvanceClock, Tick,
                            credentialVars, vars
  <2>7. CASE \/ \E c \in CredentialIds, b \in Addresses, k \in BinaryKeys : RecordSettlement(c, b, k)
             \/ \E c \in CredentialIds, b \in Addresses, k \in RangeKeys : RecordRangeSettlement(c, b, k)
    <3>1. events \in Seq(Event)
      BY DEF TypeOK
    <3>2. PICK e : events' = Append(events, e)
      BY <2>7 DEF RecordSettlement, RecordRangeSettlement, CreditKeeper
    <3>3. events' = events
      BY <1>2 DEF TablesUnchanged
    <3>4. Len(Append(events, e)) = Len(events) + 1 /\ Len(events) \in Nat
      BY <3>1
    <3> QED
      BY <3>2, <3>3, <3>4
  <2> QED
    BY <2>5, <2>6, <2>7 DEF Next
<1> QED
  BY <1>1, <1>2, RecordingStep

JobsInv == UnusedIsBlank /\ JobsMatchSettlements

\* For any number of keepers, credentials and positions: the jobs counted over all
\* the credentials of a keeper are the settlements recorded in the keeper's name.
THEOREM JobsMatch == Spec => []JobsMatchSettlements
<1>1. JobsMatchSettlements <=>
          \A a \in Addresses :
              SumFunctionOnSet(Jobs, CredentialsOf(a)) = Cardinality(SettledKeys(a))
  BY DEF JobsMatchSettlements, Jobs, CredentialsOf, SettledKeys
<1>2. JobsMatchSettlements' <=>
          \A a \in Addresses :
              SumFunctionOnSet(Jobs, CredentialsOf(a))' = Cardinality(SettledKeys(a))'
  BY DEF JobsMatchSettlements, Jobs, CredentialsOf, SettledKeys
<1>3. Init => JobsInv
  <2> SUFFICES ASSUME Init PROVE JobsInv
    OBVIOUS
  <2>1. UnusedIsBlank
    BY DEF Init, CredentialInit, UnusedIsBlank
  <2>2. ASSUME NEW a \in Addresses PROVE CredentialsOf(a) = {} /\ SettledKeys(a) = {}
    BY CredentialAssumption
       DEF Init, CredentialInit, Unused, CredentialsOf, SettledKeys, SettledBy, Keys,
           CredentialAssumption
  <2>3. ASSUME NEW a \in Addresses
        PROVE  SumFunctionOnSet(Jobs, CredentialsOf(a)) = Cardinality(SettledKeys(a))
    BY <2>2, SumEmpty, FS_EmptySet
  <2> QED
    BY <1>1, <2>1, <2>3 DEF JobsInv
<1>4. TypeOK /\ TypeOK' /\ JobsInv /\ [Next]_vars => JobsInv'
  <2> SUFFICES ASSUME TypeOK, TypeOK', JobsInv, [Next]_vars PROVE JobsInv'
    OBVIOUS
  <2>1. UnusedIsBlank'
    BY CredentialsKept DEF JobsInv
  <2>2. ASSUME NEW a \in Addresses
        PROVE  SumFunctionOnSet(Jobs, CredentialsOf(a))' = Cardinality(SettledKeys(a))'
    BY <1>1, JobsMatchStep, CredentialAssumption, RegistryAssumption DEF JobsInv
  <2> QED
    BY <1>2, <2>1, <2>2 DEF JobsInv
<1>5. JobsInv => JobsMatchSettlements
  BY DEF JobsInv
<1> QED
  BY <1>3, <1>4, <1>5, TypeCorrect, PTL DEF Spec
=============================================================================
