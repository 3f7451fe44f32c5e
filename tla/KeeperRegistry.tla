--------------------------- MODULE KeeperRegistry ---------------------------
(***************************************************************************)
(* move/sources/registry.move: the shared Registry object that records who *)
(* settled each position, pays the reward from the treasury and counts the *)
(* job on the keeper's credential.  A Move call either commits as a whole  *)
(* or aborts without effect, so each entry function is one action and an   *)
(* abort is a disabled action.                                             *)
(***************************************************************************)
EXTENDS KeeperCredential, Sequences, FiniteSets, Functions

CONSTANTS
    BinaryKeys,     \* SettlementKey values
    RangeKeys,      \* RangeSettlementKey values
    InitialReward,  \* reward_per_settlement set by init
    Rewards,        \* values the admin passes to set_reward
    Coins           \* values of the coins that fund or leave the treasury

Keys == BinaryKeys \cup RangeKeys

\* Keys are made of object ids and 64-bit numbers.
ASSUME RegistryAssumption ==
    /\ IsFiniteSet(Keys)
    /\ BinaryKeys \cap RangeKeys = {}
    /\ InitialReward \in Nat
    /\ Rewards \subseteq Nat
    /\ Coins \subseteq Nat

VARIABLES
    settled_markets,        \* keeper that settled each binary position
    range_settled_markets,  \* keeper that settled each range position
    reward_per_settlement,
    treasury,
    events                  \* SettlementRecorded and RangeSettlementRecorded, in order

registryVars ==
    <<settled_markets, range_settled_markets, reward_per_settlement, treasury, events>>
vars == <<credentialVars, registryVars>>

Init ==
    /\ CredentialInit
    /\ settled_markets = [k \in BinaryKeys |-> Nobody]
    /\ range_settled_markets = [k \in RangeKeys |-> Nobody]
    /\ reward_per_settlement = InitialReward
    /\ treasury = 0
    /\ events = <<>>

RewardDue == IF treasury >= reward_per_settlement THEN reward_per_settlement ELSE 0

\* The part the two entry functions share: count the job, pay, emit.  `at` is
\* the timestamp Sui adds to an event.
CreditKeeper(c, sender, k) ==
    /\ IncrementJobs(c)
    /\ treasury' = treasury - RewardDue
    /\ wallet' = [wallet EXCEPT ![sender] = @ + RewardDue]
    /\ events' = Append(events,
           [keeper |-> sender, key |-> k, reward_paid |-> RewardDue, at |-> clk])
    /\ UNCHANGED <<clk, reward_per_settlement>>

\* Slips in the entry functions: the key is not looked up before it is added.
RecordSettlementUnchecked(c, sender, k) ==
    /\ IsActive(c, sender)
    /\ settled_markets' = [settled_markets EXCEPT ![k] = sender]
    /\ CreditKeeper(c, sender, k)
    /\ UNCHANGED range_settled_markets
RecordRangeUnchecked(c, sender, k) ==
    /\ IsActive(c, sender)
    /\ range_settled_markets' = [range_settled_markets EXCEPT ![k] = sender]
    /\ CreditKeeper(c, sender, k)
    /\ UNCHANGED settled_markets

RecordSettlement(c, sender, k) ==
    /\ IsActive(c, sender)
    /\ settled_markets[k] = Nobody
    /\ settled_markets' = [settled_markets EXCEPT ![k] = sender]
    /\ CreditKeeper(c, sender, k)
    /\ UNCHANGED range_settled_markets

RecordRangeSettlement(c, sender, k) ==
    /\ IsActive(c, sender)
    /\ range_settled_markets[k] = Nobody
    /\ range_settled_markets' = [range_settled_markets EXCEPT ![k] = sender]
    /\ CreditKeeper(c, sender, k)
    /\ UNCHANGED settled_markets

FundTreasury(sender, amount) ==
    /\ wallet[sender] >= amount
    /\ treasury' = treasury + amount
    /\ wallet' = [wallet EXCEPT ![sender] = @ - amount]
    /\ UNCHANGED <<credentials, clk, settled_markets, range_settled_markets,
                   reward_per_settlement, events>>

\* A slip in withdraw_treasury: the balance is not looked at.
WithdrawUnchecked(amount) ==
    /\ treasury' = treasury - amount
    /\ wallet' = [wallet EXCEPT ![Admin] = @ + amount]
    /\ UNCHANGED <<credentials, clk, settled_markets, range_settled_markets,
                   reward_per_settlement, events>>

WithdrawTreasury(amount) ==
    /\ treasury >= amount
    /\ treasury' = treasury - amount
    /\ wallet' = [wallet EXCEPT ![Admin] = @ + amount]
    /\ UNCHANGED <<credentials, clk, settled_markets, range_settled_markets,
                   reward_per_settlement, events>>

SetReward(amount) ==
    /\ reward_per_settlement' = amount
    /\ UNCHANGED <<credentialVars, settled_markets, range_settled_markets, treasury, events>>

RegisterKeeper ==
    /\ \E c \in CredentialIds, a \in Addresses, s \in Stakes : Register(c, a, s)
    /\ UNCHANGED registryVars

UnbondKeeper ==
    /\ \E c \in CredentialIds, a \in Addresses : Unbond(c, a)
    /\ UNCHANGED registryVars

AdvanceClock == Tick /\ UNCHANGED registryVars

Next ==
    \/ RegisterKeeper
    \/ UnbondKeeper
    \/ AdvanceClock
    \/ \E c \in CredentialIds, a \in Addresses, k \in BinaryKeys : RecordSettlement(c, a, k)
    \/ \E c \in CredentialIds, a \in Addresses, k \in RangeKeys : RecordRangeSettlement(c, a, k)
    \/ \E a \in Addresses, n \in Coins : FundTreasury(a, n)
    \/ \E n \in Coins : WithdrawTreasury(n)
    \/ \E n \in Rewards : SetReward(n)

Spec == Init /\ [][Next]_vars

-----------------------------------------------------------------------------
\* Both tables as one: what is_settled and is_range_settled read.
SettledBy(k) == IF k \in BinaryKeys THEN settled_markets[k] ELSE range_settled_markets[k]

Event == [keeper : Addresses, key : Keys, reward_paid : Nat, at : Nat]

\* Every variable has its type.
TypeOK ==
    /\ credentials \in [CredentialIds -> Credential]
    /\ wallet \in [Addresses -> Nat]
    /\ clk \in Nat
    /\ settled_markets \in [BinaryKeys -> Addresses \cup {Nobody}]
    /\ range_settled_markets \in [RangeKeys -> Addresses \cup {Nobody}]
    /\ reward_per_settlement \in Nat
    /\ treasury \in Nat
    /\ events \in Seq(Event)

\* The event log and the two tables tell the same story: each recorded key has
\* exactly one event, which names the keeper in the table, and no event names a
\* key that is not recorded.  Dashboards rebuild the leaderboard from the events
\* alone (registry.move:107-186).
EventsMatchTables ==
    /\ \A i \in DOMAIN events : SettledBy(events[i].key) = events[i].keeper
    /\ \A i, j \in DOMAIN events : events[i].key = events[j].key => i = j
    /\ \A k \in Keys : SettledBy(k) # Nobody => \E i \in DOMAIN events : events[i].key = k

\* Nobody is credited before a credential of theirs was active: for every event
\* there is a credential of that keeper, possibly unbonded since, whose
\* activation time had come when the event was emitted (credential.move:76-79).
OnlyActivatedKeepersCredited ==
    \A i \in DOMAIN events : \E c \in CredentialIds :
        /\ credentials[c].keeper = events[i].keeper
        /\ credentials[c].jobs_completed > 0
        /\ credentials[c].activated_at <= events[i].at

\* Jobs and settlements agree: over all the credentials a keeper ever held, the
\* jobs_completed add up to the settlements recorded in the keeper's name, so no
\* job is counted twice or on somebody else's credential (registry.move:123-124).
JobsMatchSettlements ==
    \A a \in Addresses :
        SumFunctionOnSet([c \in CredentialIds |-> credentials[c].jobs_completed],
                         {c \in CredentialIds : credentials[c].keeper = a})
        = Cardinality({k \in Keys : SettledBy(k) = a})

\* Coins move and are never created or lost: wallets, treasury and bonds add up to
\* the initial supply through registration, unbonding, rewards and admin
\* operations (registry.move:127-133, 191-204, credential.move:50-71).
SuiConserved ==
    SumFunction(wallet) + treasury
    + SumFunction([c \in CredentialIds |-> credentials[c].bonded])
    = InitialWallet * Cardinality(Addresses)

\* The registry implements the write-once table: both settlement tables taken
\* together never lose or change an entry (registry.move:121-123, 164-166).
FirstWriterWins == INSTANCE WriteOnceTable WITH
    Keepers <- Addresses, NoKeeper <- Nobody, table <- [k \in Keys |-> SettledBy(k)]

TablesAreWriteOnce == FirstWriterWins!Spec
=============================================================================
