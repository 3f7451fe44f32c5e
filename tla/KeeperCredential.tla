-------------------------- MODULE KeeperCredential --------------------------
(***************************************************************************)
(* move/sources/credential.move: the bonded identity of a keeper.          *)
(*                                                                         *)
(* A credential is an owned Sui object without the `store` ability: it can *)
(* be neither transferred nor shared, so its owner is always `keeper`.     *)
(* Coins are counted in units of one reward; `wallet` holds the SUI of     *)
(* every address, which makes the total supply a constant of the model.    *)
(***************************************************************************)
EXTENDS Integers, FiniteSets

CONSTANTS
    Keepers,            \* addresses that bond SUI and settle positions
    Admin,              \* the deployer, holder of the AdminCap
    Nobody,             \* no address
    CredentialIds,      \* object ids a register call may create
    MIN_BOND,           \* smallest bond accepted
    ACTIVATION_DELAY,   \* clock ticks from register to the first job
    Stakes,             \* values of the coins passed to register
    InitialWallet,      \* SUI every address starts with
    MaxClock            \* bound: the last value of the Clock object

Addresses == Keepers \cup {Admin}

\* Addresses and object ids are 32 bytes long, so there are finitely many.
ASSUME CredentialAssumption ==
    /\ IsFiniteSet(Keepers)
    /\ IsFiniteSet(CredentialIds)
    /\ Nobody \notin Addresses
    /\ MIN_BOND \in Nat \ {0}
    /\ ACTIVATION_DELAY \in Nat
    /\ Stakes \subseteq Nat
    /\ InitialWallet \in Nat
    /\ MaxClock \in Nat

VARIABLES
    credentials,    \* the KeeperCredential objects, by object id
    wallet,         \* SUI coins held by each address
    clk             \* sui::clock::Clock

credentialVars == <<credentials, wallet, clk>>

(***************************************************************************)
(* An id is unused, then live, then deleted; a deleted id never returns.   *)
(* The fields of a deleted credential are kept for the properties only: no *)
(* action reads them.                                                      *)
(***************************************************************************)
Credential ==
    [state : {"unused", "live", "deleted"}, keeper : Addresses \cup {Nobody},
     bonded : Nat, jobs_completed : Nat, activated_at : Nat]

Unused == [state |-> "unused", keeper |-> Nobody, bonded |-> 0,
           jobs_completed |-> 0, activated_at |-> 0]

CredentialInit ==
    /\ credentials = [c \in CredentialIds |-> Unused]
    /\ wallet = [a \in Addresses |-> InitialWallet]
    /\ clk = 0

Register(c, sender, stake) ==
    /\ credentials[c].state = "unused"
    /\ wallet[sender] >= stake
    /\ stake >= MIN_BOND
    /\ credentials' = [credentials EXCEPT ![c] =
           [state |-> "live", keeper |-> sender, bonded |-> stake,
            jobs_completed |-> 0, activated_at |-> clk + ACTIVATION_DELAY]]
    /\ wallet' = [wallet EXCEPT ![sender] = @ - stake]
    /\ UNCHANGED clk

\* Slips in assert_active: without the delay, without the owner.
IsActiveAtOnce(c, sender) ==
    credentials[c].state = "live" /\ credentials[c].keeper = sender
IsActiveForAnybody(c, sender) ==
    credentials[c].state = "live" /\ clk >= credentials[c].activated_at

\* assert_active
IsActive(c, sender) ==
    /\ credentials[c].state = "live"
    /\ credentials[c].keeper = sender
    /\ clk >= credentials[c].activated_at

IncrementJobs(c) ==
    credentials' = [credentials EXCEPT ![c].jobs_completed = @ + 1]

\* A slip in unbond: the bond is not paid back.
UnbondWithoutBond(c, sender) ==
    /\ IsActive(c, sender)
    /\ credentials' = [credentials EXCEPT ![c].state = "deleted", ![c].bonded = 0]
    /\ UNCHANGED <<wallet, clk>>

Unbond(c, sender) ==
    /\ IsActive(c, sender)
    /\ credentials' = [credentials EXCEPT ![c].state = "deleted", ![c].bonded = 0]
    /\ wallet' = [wallet EXCEPT ![sender] = @ + credentials[c].bonded]
    /\ UNCHANGED clk

Tick ==
    /\ clk < MaxClock
    /\ clk' = clk + 1
    /\ UNCHANGED <<credentials, wallet>>
=============================================================================
