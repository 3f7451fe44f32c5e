------------------------------ MODULE DemoMint ------------------------------
(***************************************************************************)
(* scripts/demo-mint.ts: a script that stages an UP, a DOWN and a range    *)
(* position, one transaction each, out of the DUSDC coins of an address.   *)
(* A transaction merges the coins the script listed before into the first  *)
(* of them, so that the list is outdated afterwards; the script stops at   *)
(* the first error.  It may be run again, and twice at a time with one key.*)
(* The full node that lists the coins may be behind at any time, so that a *)
(* script run again may count coins its predecessor has spent.             *)
(*                                                                         *)
(* A transaction names coins by id and fails when one of them is gone; an  *)
(* empty coin counts as gone.                                              *)
(* Managers are left out: MANAGER_ID may be reused or a new one created,   *)
(* which stays behind when the script fails.                               *)
(***************************************************************************)
EXTENDS Integers, Sequences, FiniteSets, Functions

CONSTANTS
    Runs,       \* runs of the script
    Coins,      \* ids of DUSDC coins, in the order getCoins lists them
    Balances,   \* balances of coins at the start
    QUANTITY,   \* balance a position takes
    CoinPage,   \* coins getCoins lists (50)
    Prices,     \* spot prices, in dollars
    MinStrike   \* lowest strike of the oracle, in dollars

ASSUME DemoMintAssumption ==
    /\ Coins \subseteq Nat /\ IsFiniteSet(Coins)
    /\ Balances \subseteq Nat
    /\ {QUANTITY, CoinPage} \subseteq Nat \ {0}
    /\ Prices \subseteq Nat
    /\ MinStrike \in Nat

Kinds == <<"up", "down", "range">>

VARIABLES
    wallet,     \* balance of each coin, 0 when there is none
    known,      \* the same, as the slowest full node knows it
    positions,  \* minted on the chain
    step,       \* where each run is
    next,       \* the kind it mints next
    listed,     \* balances of the coins it listed last
    spot,       \* the price it read
    minted,     \* what its transactions minted
    disturbed   \* its check counted coins already spent, or another run spent some since

runVars == <<step, next, listed, spot, minted, disturbed>>
vars == <<wallet, known, positions, runVars>>

Held(balances) == {c \in Coins : balances[c] > 0}
Total(balances) == SumFunctionOnSet(balances, Coins)

\* Every variable has its type.
TypeOK ==
    /\ wallet \in [Coins -> Nat]
    /\ known \in [Coins -> Nat]
    /\ positions \in Nat
    /\ step \in [Runs -> {"oracles", "balance", "manager", "mint", "list",
                          "staged", "poor", "failed"}]
    /\ next \in [Runs -> 1..3]
    /\ listed \in [Runs -> [Coins -> Nat]]
    /\ spot \in [Runs -> Prices]
    /\ minted \in [Runs -> Seq({"up", "down", "range"})]
    /\ disturbed \in [Runs -> BOOLEAN]

Init ==
    /\ wallet \in [Coins -> Balances]
    /\ known = wallet
    /\ positions = 0
    /\ step = [r \in Runs |-> "oracles"]
    /\ next = [r \in Runs |-> 1]
    /\ listed = [r \in Runs |-> [c \in Coins |-> 0]]
    /\ spot \in [Runs -> Prices]
    /\ minted = [r \in Runs |-> <<>>]
    /\ disturbed = [r \in Runs |-> FALSE]

-----------------------------------------------------------------------------
(* Strikes, in dollars. *)

\* A slip in main: the price is rounded down.
SpotUsdDown(price) == 1000 * (price \div 1000)

\* Math.round to the nearest thousand.
SpotUsd(price) == 1000 * ((price + 500) \div 1000)

LowerStrike(price) == SpotUsd(price) - 500
UpperStrike(price) == SpotUsd(price) + 500
Strike(price) == IF SpotUsd(price) > MinStrike THEN SpotUsd(price) ELSE MinStrike

\* The binary strike is kept above the lowest one, the band is not.
StrikeRefused(r) ==
    (IF Kinds[next[r]] = "range" THEN LowerStrike(spot[r]) ELSE Strike(spot[r])) < MinStrike

-----------------------------------------------------------------------------
Goto(r, s) == step' = [step EXCEPT ![r] = s]

FirstPage(balances) == [c \in Coins |->
    IF Cardinality({d \in Held(balances) : d < c}) < CoinPage THEN balances[c] ELSE 0]

Page == FirstPage(wallet)

\* getDusdc: the coins as they are, or as a node that is behind knows them.
Answers == {Page, FirstPage(known)}

\* The nearest live oracle and the price; without an oracle, or when a server does
\* not answer, the script ends.
FindOracle(r) ==
    /\ step[r] = "oracles"
    /\ \E price \in Prices : spot' = [spot EXCEPT ![r] = price]
    /\ Goto(r, "balance") \/ Goto(r, "failed")
    /\ UNCHANGED <<wallet, known, positions, next, listed, minted, disturbed>>

\* A slip in main: the check is that of a script with two positions.
CheckBalanceForTwo(r) ==
    /\ step[r] = "balance"
    /\ \E coins \in Answers :
         /\ listed' = [listed EXCEPT ![r] = coins]
         /\ Goto(r, IF Total(coins) < 2 * QUANTITY THEN "failed" ELSE "manager")
         /\ disturbed' = [disturbed EXCEPT ![r] = Total(Page) < Total(coins)]
    /\ UNCHANGED <<wallet, known, positions, next, spot, minted>>

\* The coins counted here are those UP is minted with.
CheckBalance(r) ==
    /\ step[r] = "balance"
    /\ \E coins \in Answers :
         /\ listed' = [listed EXCEPT ![r] = coins]
         /\ Goto(r, IF Total(coins) < 3 * QUANTITY THEN "failed" ELSE "manager")
         /\ disturbed' = [disturbed EXCEPT ![r] = Total(Page) < Total(coins)]
    /\ UNCHANGED <<wallet, known, positions, next, spot, minted>>

GetManager(r) ==
    /\ step[r] = "manager"
    /\ Goto(r, "mint") \/ Goto(r, "failed")
    /\ UNCHANGED <<wallet, known, positions, next, listed, spot, minted, disturbed>>

Insufficient(r) ==
    /\ step[r] = "mint"
    /\ Total(listed[r]) < QUANTITY
    /\ Goto(r, "poor")
    /\ UNCHANGED <<wallet, known, positions, next, listed, spot, minted, disturbed>>

\* A slip in mint: what is left is split off as the list has it, the rest deposited.
MergedAsListed(r) ==
    LET ids == Held(listed[r])
        first == CHOOSE c \in ids : \A d \in ids : c <= d
    IN [c \in Coins |-> IF c = first THEN SumFunctionOnSet(listed[r], ids) - QUANTITY
                        ELSE IF c \in ids THEN 0 ELSE wallet[c]]

\* The listed coins merged into the first, the deposit split off.
Merged(r) ==
    LET ids == Held(listed[r])
        first == CHOOSE c \in ids : \A d \in ids : c <= d
    IN [c \in Coins |-> IF c = first THEN SumFunctionOnSet(wallet, ids) - QUANTITY
                        ELSE IF c \in ids THEN 0 ELSE wallet[c]]

\* The transaction of mint or mintRange is executed.
Execute(r) ==
    /\ Held(listed[r]) \subseteq Held(wallet)
    /\ SumFunctionOnSet(wallet, Held(listed[r])) >= QUANTITY
    /\ ~StrikeRefused(r)
    /\ wallet' = Merged(r)
    /\ positions' = positions + 1
    /\ minted' = [minted EXCEPT ![r] = Append(@, Kinds[next[r]])]
    /\ disturbed' = [q \in Runs |-> q # r \/ disturbed[r]]

Submits(r) == step[r] = "mint" /\ Total(listed[r]) >= QUANTITY

\* A slip in main: it goes on after the range position.
MintOn(r) ==
    /\ Submits(r)
    /\ Execute(r)
    /\ Goto(r, "list")
    /\ next' = [next EXCEPT ![r] = @ + 1]
    /\ UNCHANGED <<known, listed, spot>>

Mint(r) ==
    /\ Submits(r)
    /\ Execute(r)
    /\ IF next[r] = 3
       THEN Goto(r, "staged") /\ UNCHANGED next
       ELSE Goto(r, "list") /\ next' = [next EXCEPT ![r] = @ + 1]
    /\ UNCHANGED <<known, listed, spot>>

\* A slip in mint: a call that fails is made again.
MintTriesAgain(r) ==
    /\ Submits(r)
    /\ Execute(r) \/ UNCHANGED <<wallet, positions, minted, disturbed>>
    /\ Goto(r, "list")
    /\ UNCHANGED <<known, next, listed, spot>>

\* The transaction is refused, or executed without an answer.
MintFails(r) ==
    /\ Submits(r)
    /\ Execute(r) \/ UNCHANGED <<wallet, positions, minted, disturbed>>
    /\ Goto(r, "failed")
    /\ UNCHANGED <<known, next, listed, spot>>

\* After a transaction the coins are listed anew, by any node.
ListAgain(r) ==
    /\ step[r] = "list"
    /\ \E coins \in Answers : listed' = [listed EXCEPT ![r] = coins]
    /\ Goto(r, "mint")
    /\ UNCHANGED <<wallet, known, positions, next, spot, minted, disturbed>>

ListFails(r) ==
    /\ step[r] = "list"
    /\ Goto(r, "failed")
    /\ UNCHANGED <<wallet, known, positions, next, listed, spot, minted, disturbed>>

\* npm run demo-mint, once more.
RunAgain(r) ==
    /\ step[r] \in {"staged", "poor", "failed"}
    /\ Goto(r, "oracles")
    /\ next' = [next EXCEPT ![r] = 1]
    /\ listed' = [listed EXCEPT ![r] = [c \in Coins |-> 0]]
    /\ minted' = [minted EXCEPT ![r] = <<>>]
    /\ disturbed' = [disturbed EXCEPT ![r] = FALSE]
    /\ UNCHANGED <<wallet, known, positions, spot>>

\* The slowest node sees the transactions executed so far.
NodeCatchesUp ==
    /\ known # wallet
    /\ known' = wallet
    /\ UNCHANGED <<wallet, positions, runVars>>

Next ==
    \/ \E r \in Runs :
          \/ FindOracle(r) \/ CheckBalance(r) \/ GetManager(r) \/ Insufficient(r)
          \/ Mint(r) \/ MintFails(r) \/ ListAgain(r) \/ ListFails(r) \/ RunAgain(r)
    \/ NodeCatchesUp

Spec == Init /\ [][Next]_vars

-----------------------------------------------------------------------------
\* A run whose check of the balance counted no more than there was does not stop for
\* want of DUSDC, in however many coins it is and however old the later lists are,
\* unless another run spent some (demo-mint.ts:242-274).
CheckedBalanceSuffices == \A r \in Runs : step[r] = "poor" => disturbed[r]

\* What a run minted is UP, DOWN and range in this order, each once: all of it when
\* it says so, at most one more than it knows of when it failed (demo-mint.ts:261-281).
StagedInOrder ==
    \A r \in Runs :
        \/ minted[r] = SubSeq(Kinds, 1, next[r] - 1) /\ step[r] # "staged"
        \/ minted[r] = SubSeq(Kinds, 1, next[r]) /\ step[r] \in {"failed", "staged"}

\* A position costs what it is minted for, and merging coins loses nothing, whether
\* or not the run gets an answer (demo-mint.ts:97-107).
PaidExactly ==
    [][Total(wallet) - Total(wallet') = QUANTITY * (positions' - positions)]_vars

\* demo-mint.ts:226: the price lies in the band of the range position.
SpotInBand ==
    \A r \in Runs : LowerStrike(spot[r]) <= spot[r] /\ spot[r] < UpperStrike(spot[r])
=============================================================================
