--------------------------- MODULE DemoMintProofs ---------------------------
(***************************************************************************)
(* What DemoMint.tla checks with two runs and three coins, for any: the    *)
(* positions of a run come in order and none comes twice, a position costs *)
(* what it is minted for, and a checked balance suffices for all three.    *)
(***************************************************************************)
EXTENDS DemoMint, SequenceTheorems, SumTheorems

Steps == {"oracles", "balance", "manager", "mint", "list", "staged", "poor", "failed"}

KindNames == {"up", "down", "range"}

\* The part of TypeOK the order depends on.
Progress ==
    /\ step \in [Runs -> Steps]
    /\ next \in [Runs -> 1..3]
    /\ minted \in [Runs -> Seq(KindNames)]

IInv == Progress /\ StagedInOrder

\* The kinds before n, and with n.
LEMMA Prefixes ==
    /\ \A n \in 1..3 :
          /\ SubSeq(Kinds, 1, n - 1) \in Seq(KindNames)
          /\ Append(SubSeq(Kinds, 1, n - 1), Kinds[n]) = SubSeq(Kinds, 1, n)
          /\ Append(SubSeq(Kinds, 1, n - 1), Kinds[n]) \in Seq(KindNames)
    /\ SubSeq(Kinds, 1, 0) = <<>>
<1>1. Kinds \in Seq(KindNames) /\ Len(Kinds) = 3 /\ \A n \in 1..3 : Kinds[n] \in KindNames
  BY DEF Kinds, KindNames
<1>2. SubSeq(Kinds, 1, 0) = <<>>
  BY SubSeqEmpty
<1>3. ASSUME NEW n \in 1..3
      PROVE  /\ SubSeq(Kinds, 1, n - 1) \in Seq(KindNames)
             /\ Append(SubSeq(Kinds, 1, n - 1), Kinds[n]) = SubSeq(Kinds, 1, n)
  <2>1. SubSeq(Kinds, 1, n - 1) \in Seq(KindNames)
    BY <1>1, SubSeqProperties
  <2>2. SubSeq(Kinds, 1, n) = Append(SubSeq(Kinds, 1, n - 1), Kinds[n])
    BY <1>1, SubSeqRecursiveSecond
  <2> QED
    BY <2>1, <2>2
<1> QED
  BY <1>1, <1>2, <1>3, AppendProperties

\* A step that mints nothing and leaves the next kind alone.
LEMMA NothingMinted ==
    ASSUME IInv, NEW r \in Runs, UNCHANGED <<next, minted>>, NEW s \in Steps \ {"staged"},
           step' = [step EXCEPT ![r] = s], step[r] \notin {"failed", "staged"}
    PROVE  IInv'
BY DEF IInv, Progress, StagedInOrder, Steps

\* A submitted transaction, executed or not, by the outcome the run sees.
LEMMA Submitted ==
    ASSUME IInv, NEW r \in Runs, Mint(r) \/ MintFails(r)
    PROVE  IInv'
<1>1. /\ step[r] = "mint" /\ next[r] \in 1..3
      /\ minted[r] = SubSeq(Kinds, 1, next[r] - 1)
  BY DEF Mint, MintFails, Submits, IInv, Progress, StagedInOrder
<1>2. \/ minted' = [minted EXCEPT ![r] = Append(@, Kinds[next[r]])]
      \/ minted' = minted /\ MintFails(r)
  BY DEF Mint, MintFails, Execute
<1>3. CASE minted' = [minted EXCEPT ![r] = Append(@, Kinds[next[r]])]
  <2>1. minted'[r] = SubSeq(Kinds, 1, next[r]) /\ \A q \in Runs \ {r} : minted'[q] = minted[q]
    BY <1>1, <1>3, Prefixes DEF IInv, Progress
  <2>2. minted' \in [Runs -> Seq(KindNames)]
    <3>1. Append(minted[r], Kinds[next[r]]) \in Seq(KindNames)
      BY <1>1, Prefixes
    <3> QED
      BY <1>3, <3>1 DEF IInv, Progress
  <2>3. \/ step' = [step EXCEPT ![r] = "failed"] /\ next' = next
        \/ step' = [step EXCEPT ![r] = "staged"] /\ next' = next
        \/ /\ step' = [step EXCEPT ![r] = "list"]
           /\ next' = [next EXCEPT ![r] = @ + 1] /\ next[r] # 3
    BY DEF Mint, MintFails, Goto
  <2>4. CASE step' = [step EXCEPT ![r] = "failed"] /\ next' = next
    BY <2>1, <2>2, <2>4 DEF IInv, Progress, StagedInOrder, Steps
  <2>5. CASE step' = [step EXCEPT ![r] = "staged"] /\ next' = next
    BY <2>1, <2>2, <2>5 DEF IInv, Progress, StagedInOrder, Steps
  <2>6. CASE /\ step' = [step EXCEPT ![r] = "list"]
             /\ next' = [next EXCEPT ![r] = @ + 1] /\ next[r] # 3
    <3>1. next'[r] = next[r] + 1 /\ next' \in [Runs -> 1..3]
      BY <1>1, <2>6 DEF IInv, Progress
    <3>2. minted'[r] = SubSeq(Kinds, 1, next'[r] - 1)
      BY <1>1, <2>1, <3>1
    <3> QED
      BY <2>1, <2>2, <2>6, <3>1, <3>2 DEF IInv, Progress, StagedInOrder, Steps
  <2> QED
    BY <2>3, <2>4, <2>5, <2>6
<1>4. CASE minted' = minted /\ MintFails(r)
  BY <1>1, <1>4, NothingMinted DEF MintFails, Goto, Steps
<1> QED
  BY <1>2, <1>3, <1>4

LEMMA OrderStep ==
    ASSUME IInv, [Next]_vars
    PROVE  IInv'
<1>1. CASE UNCHANGED vars
  BY <1>1 DEF vars, runVars, IInv, Progress, StagedInOrder
<1>2. ASSUME NEW r \in Runs, Mint(r) \/ MintFails(r) PROVE IInv'
  BY <1>2, Submitted
<1>3. ASSUME NEW r \in Runs, RunAgain(r) PROVE IInv'
  <2>1. /\ step' = [step EXCEPT ![r] = "oracles"]
        /\ next' = [next EXCEPT ![r] = 1]
        /\ minted' = [minted EXCEPT ![r] = <<>>]
    BY <1>3 DEF RunAgain, Goto
  <2> QED
    BY <2>1, Prefixes DEF IInv, Progress, StagedInOrder, Steps
<1>4. ASSUME NEW r \in Runs,
             \/ FindOracle(r) \/ CheckBalance(r) \/ GetManager(r)
             \/ Insufficient(r) \/ ListAgain(r) \/ ListFails(r)
      PROVE  IInv'
  <2>1. /\ UNCHANGED <<next, minted>> /\ step[r] \notin {"failed", "staged"}
        /\ \E s \in Steps \ {"staged"} : step' = [step EXCEPT ![r] = s]
    BY <1>4 DEF FindOracle, CheckBalance, GetManager, Insufficient, ListAgain, ListFails,
                Goto, Steps
  <2> QED
    BY <2>1, NothingMinted
<1>5. CASE NodeCatchesUp
  BY <1>5 DEF NodeCatchesUp, runVars, IInv, Progress, StagedInOrder
<1> QED
  BY <1>1, <1>2, <1>3, <1>4, <1>5 DEF Next

\* For any number of runs and coins, whatever fails: the positions a run minted are
\* UP, DOWN and range in this order, none twice (demo-mint.ts:261-281).
THEOREM NoneTwice == Spec => []StagedInOrder
<1>1. Init => IInv
  BY Prefixes DEF Init, IInv, Progress, StagedInOrder, Steps
<1>2. IInv /\ [Next]_vars => IInv'
  BY OrderStep
<1>3. IInv => StagedInOrder
  BY DEF IInv
<1> QED
  BY <1>1, <1>2, <1>3, PTL DEF Spec

-----------------------------------------------------------------------------
(* The band of the range position. *)

LEMMA BandAroundPrice ==
    ASSUME NEW p \in Nat
    PROVE  LowerStrike(p) <= p /\ p < UpperStrike(p)
<1>1. (p + 500) \div 1000 \in Int
      /\ 1000 * ((p + 500) \div 1000) <= p + 500
      /\ p + 500 < 1000 * ((p + 500) \div 1000) + 1000
  OBVIOUS
<1> QED
  BY <1>1 DEF LowerStrike, UpperStrike, SpotUsd

SpotTyped == spot \in [Runs -> Prices]

LEMMA AlwaysSpot == Spec => []SpotTyped
<1>1. Init => SpotTyped
  BY DEF Init, SpotTyped
<1>2. SpotTyped /\ [Next]_vars => SpotTyped'
  <2> SUFFICES ASSUME SpotTyped, [Next]_vars PROVE SpotTyped'
    OBVIOUS
  <2>1. ASSUME NEW r \in Runs, FindOracle(r) PROVE SpotTyped'
    BY <2>1 DEF FindOracle, SpotTyped
  <2>2. UNCHANGED spot \/ \E r \in Runs : FindOracle(r)
    BY DEF Next, CheckBalance, GetManager, Insufficient, Mint, MintFails, ListAgain, ListFails,
           RunAgain, NodeCatchesUp, vars, runVars
  <2> QED
    BY <2>1, <2>2 DEF SpotTyped
<1> QED
  BY <1>1, <1>2, PTL DEF Spec

\* Every price lies in the band of half a thousand around its rounded value, which
\* the script asks of the range position (demo-mint.ts:226).
THEOREM PriceInBand == Spec => []SpotInBand
<1>1. SpotTyped => SpotInBand
  BY BandAroundPrice, DemoMintAssumption DEF SpotTyped, SpotInBand, DemoMintAssumption
<1> QED
  BY <1>1, AlwaysSpot, PTL

-----------------------------------------------------------------------------
(***************************************************************************)
(* The transaction.  The coins it names are merged into the first of them; *)
(* what they held, less the quantity, is there afterwards.                 *)
(***************************************************************************)
WalletTyped ==
    /\ wallet \in [Coins -> Nat]
    /\ known \in [Coins -> Nat]
    /\ positions \in Nat
    /\ listed \in [Runs -> [Coins -> Nat]]

\* The coin the others are merged into.
FirstOf(ids) == CHOOSE c \in ids : \A d \in ids : c <= d

LEMMA FirstOfIsLeast ==
    ASSUME DemoMintAssumption, NEW ids \in SUBSET Coins, ids # {}
    PROVE  FirstOf(ids) \in ids /\ \A d \in ids : FirstOf(ids) <= d
<1>1. ids \subseteq Nat
  BY DEF DemoMintAssumption
<1>2. PICK c \in ids : \A d \in ids : ~ (<<d, c>> \in OpToRel(<, Nat))
  BY <1>1, NatLessThanWellFounded, WFMin
<1>3. \A d \in ids : c <= d
  <2>1. \A d \in ids : d < c => <<d, c>> \in OpToRel(<, Nat)
    BY <1>1 DEF OpToRel
  <2>2. c \in Nat /\ \A d \in ids : d \in Nat /\ ~ (d < c)
    BY <1>1, <1>2, <2>1
  <2> QED
    BY <2>2
<1> QED
  BY <1>3 DEF FirstOf

LEMMA SumOfOne ==
    ASSUME NEW c, NEW f, f[c] \in Int
    PROVE  SumFunctionOnSet(f, {c}) = f[c]
<1>1. IsFiniteSet({c}) /\ {c} \ {c} = {}
  BY FS_Singleton
<1>2. SumFunctionOnSet(f, {c}) = f[c] + SumFunctionOnSet(f, {c} \ {c})
  BY <1>1, SumRemove
<1> QED
  BY <1>1, <1>2, SumEmpty

\* What the transaction of a run does to the coins it names and to the others.
LEMMA MergedCoins ==
    ASSUME DemoMintAssumption, WalletTyped, NEW r \in Runs, Execute(r),
           NEW ids, ids = Held(listed[r])
    PROVE  /\ ids \in SUBSET Coins /\ IsFiniteSet(ids) /\ ids # {}
           /\ ids \subseteq Held(wallet)
           /\ FirstOf(ids) \in ids
           /\ SumFunctionOnSet(wallet, ids) \in Nat
           /\ SumFunctionOnSet(wallet, ids) >= QUANTITY
           /\ wallet' \in [Coins -> Nat]
           /\ wallet'[FirstOf(ids)] = SumFunctionOnSet(wallet, ids) - QUANTITY
           /\ \A c \in ids \ {FirstOf(ids)} : wallet'[c] = 0
           /\ \A c \in Coins \ ids : wallet'[c] = wallet[c]
<1>1. ids \in SUBSET Coins /\ IsFiniteSet(ids)
  <2>1. ids \in SUBSET Coins
    BY DEF Held
  <2> QED
    BY <2>1, FS_Subset DEF DemoMintAssumption
<1>2. QUANTITY \in Nat /\ QUANTITY > 0
  BY DEF DemoMintAssumption
<1>3. \A c \in ids : wallet[c] \in Nat
  BY <1>1 DEF WalletTyped
<1>4. SumFunctionOnSet(wallet, ids) \in Nat
  BY <1>1, <1>3, SumNat
<1>5. SumFunctionOnSet(wallet, ids) >= QUANTITY /\ ids \subseteq Held(wallet)
  BY DEF Execute
<1>6. ids # {}
  BY <1>2, <1>5, SumEmpty
<1>7. FirstOf(ids) \in ids
  BY <1>1, <1>6, FirstOfIsLeast
<1>8. wallet' = [c \in Coins |-> IF c = FirstOf(ids) THEN SumFunctionOnSet(wallet, ids) - QUANTITY
                                 ELSE IF c \in ids THEN 0 ELSE wallet[c]]
  BY DEF Execute, Merged, FirstOf
<1>9. SumFunctionOnSet(wallet, ids) - QUANTITY \in Nat
  BY <1>2, <1>4, <1>5
<1>10. wallet' \in [Coins -> Nat]
  BY <1>8, <1>9 DEF WalletTyped
<1> QED
  BY <1>1, <1>4, <1>5, <1>6, <1>7, <1>8, <1>10

LEMMA TransactionCosts ==
    ASSUME DemoMintAssumption, WalletTyped, NEW r \in Runs, Execute(r)
    PROVE  Total(wallet) - Total(wallet)' = QUANTITY
<1> DEFINE ids == Held(listed[r])
           first == FirstOf(ids)
<1>1. /\ ids \in SUBSET Coins /\ IsFiniteSet(ids) /\ first \in ids
      /\ SumFunctionOnSet(wallet, ids) \in Nat
      /\ wallet' \in [Coins -> Nat]
      /\ wallet'[first] = SumFunctionOnSet(wallet, ids) - QUANTITY
      /\ \A c \in ids \ {first} : wallet'[c] = 0
      /\ \A c \in Coins \ ids : wallet'[c] = wallet[c]
  BY MergedCoins
<1>2. wallet \in [Coins -> Nat] /\ IsFiniteSet(Coins) /\ QUANTITY \in Nat
  BY DEF WalletTyped, DemoMintAssumption
<1> HIDE DEF first, ids
<1>3. SumFunctionOnSet(wallet', ids) = SumFunctionOnSet(wallet, ids) - QUANTITY
  <2>1. {first} \in SUBSET ids /\ \A c \in ids : wallet'[c] \in Int
    BY <1>1
  <2>2. SumFunctionOnSet(wallet', ids) = SumFunctionOnSet(wallet', {first})
    BY <1>1, <2>1, SumNonzero
  <2>3. SumFunctionOnSet(wallet', {first}) = wallet'[first]
    BY <1>1, <2>1, SumOfOne
  <2> QED
    BY <1>1, <2>2, <2>3
<1>4. IsFiniteSet(Coins \ ids)
  BY <1>2, FS_Subset
<1>5. SumFunctionOnSet(wallet', Coins \ ids) = SumFunctionOnSet(wallet, Coins \ ids)
  BY <1>1, <1>4, SumEqual
<1>6. SumFunctionOnSet(wallet, Coins \ ids) \in Nat
  BY <1>2, <1>4, SumNat
<1>7. /\ Total(wallet) = SumFunctionOnSet(wallet, ids) + SumFunctionOnSet(wallet, Coins \ ids)
      /\ Total(wallet') = SumFunctionOnSet(wallet', ids) + SumFunctionOnSet(wallet', Coins \ ids)
  <2>1. (\A c \in Coins : wallet[c] \in Int) /\ (\A c \in Coins : wallet'[c] \in Int)
    BY <1>1, <1>2
  <2> QED
    BY <1>1, <1>2, <2>1, SumSplit DEF Total
<1>8. Total(wallet)' = Total(wallet')
  BY DEF Total
<1> QED
  BY <1>1, <1>2, <1>3, <1>5, <1>6, <1>7, <1>8

LEMMA PageTyped ==
    ASSUME WalletTyped
    PROVE  Page \in [Coins -> Nat] /\ \A coins \in Answers : coins \in [Coins -> Nat]
<1>1. \A b \in [Coins -> Nat] : FirstPage(b) \in [Coins -> Nat]
  BY DEF FirstPage
<1> QED
  BY <1>1 DEF WalletTyped, Page, Answers

LEMMA WalletStep ==
    ASSUME DemoMintAssumption, WalletTyped, [Next]_vars
    PROVE  WalletTyped'
<1>1. ASSUME NEW r \in Runs, Execute(r), UNCHANGED <<known, listed>> PROVE WalletTyped'
  <2>1. wallet' \in [Coins -> Nat]
    BY <1>1, MergedCoins
  <2>2. positions' \in Nat
    BY <1>1 DEF WalletTyped, Execute
  <2> QED
    BY <1>1, <2>1, <2>2 DEF WalletTyped
<1>2. ASSUME UNCHANGED <<wallet, known, positions, listed>> PROVE WalletTyped'
  BY <1>2, Zenon DEF WalletTyped
<1>3. ASSUME NEW r \in Runs, NEW p \in [Coins -> Nat], UNCHANGED <<wallet, known, positions>>,
             listed' = [listed EXCEPT ![r] = p]
      PROVE  WalletTyped'
  <2>1. listed' \in [Runs -> [Coins -> Nat]]
    BY <1>3, Zenon DEF WalletTyped
  <2> QED
    BY <1>3, <2>1 DEF WalletTyped
<1>4. ASSUME NEW r \in Runs, Mint(r) \/ MintFails(r) PROVE WalletTyped'
  BY <1>1, <1>2, <1>4 DEF Mint, MintFails
<1>5. ASSUME NEW r \in Runs, CheckBalance(r) \/ ListAgain(r) PROVE WalletTyped'
  <2>1. PICK coins \in Answers : listed' = [listed EXCEPT ![r] = coins]
    BY <1>5 DEF CheckBalance, ListAgain
  <2> QED
    BY <1>3, <1>5, <2>1, PageTyped DEF CheckBalance, ListAgain
<1>6. ASSUME NEW r \in Runs, RunAgain(r) PROVE WalletTyped'
  <2>1. [c \in Coins |-> 0] \in [Coins -> Nat]
    OBVIOUS
  <2> QED
    BY <1>3, <1>6, <2>1 DEF RunAgain
<1>7. ASSUME NEW r \in Runs, FindOracle(r) \/ GetManager(r) \/ Insufficient(r) \/ ListFails(r)
      PROVE  WalletTyped'
  BY <1>2, <1>7 DEF FindOracle, GetManager, Insufficient, ListFails
<1>8. CASE NodeCatchesUp
  BY <1>8 DEF NodeCatchesUp, runVars, WalletTyped
<1>9. CASE UNCHANGED vars
  BY <1>2, <1>9 DEF vars, runVars
<1> QED
  BY <1>4, <1>5, <1>6, <1>7, <1>8, <1>9 DEF Next

LEMMA AlwaysWallet == Spec => []WalletTyped
<1>1. Init => WalletTyped
  <2> SUFFICES ASSUME Init PROVE WalletTyped
    OBVIOUS
  <2>1. wallet \in [Coins -> Nat]
    BY DemoMintAssumption DEF Init, DemoMintAssumption
  <2>2. [c \in Coins |-> 0] \in [Coins -> Nat]
    OBVIOUS
  <2>3. listed \in [Runs -> [Coins -> Nat]]
    BY <2>2, Zenon DEF Init
  <2> QED
    BY <2>1, <2>3 DEF Init, WalletTyped
<1>2. WalletTyped /\ [Next]_vars => WalletTyped'
  BY WalletStep, DemoMintAssumption
<1> QED
  BY <1>1, <1>2, PTL DEF Spec

\* The balances of the wallet fall by QUANTITY for each position that is minted and
\* by nothing else, in however many coins they are and whichever run mints, with or
\* without an answer (demo-mint.ts:97-107).
THEOREM PositionsPaid == Spec => PaidExactly
<1>1. WalletTyped /\ [Next]_vars
        => [Total(wallet) - Total(wallet') = QUANTITY * (positions' - positions)]_vars
  <2> SUFFICES ASSUME WalletTyped, [Next]_vars
               PROVE  Total(wallet) - Total(wallet') = QUANTITY * (positions' - positions)
    OBVIOUS
  <2>0. Total(wallet)' = Total(wallet') /\ QUANTITY \in Nat
    BY DemoMintAssumption DEF Total, DemoMintAssumption
  <2>1. ASSUME NEW r \in Runs, Execute(r)
        PROVE  Total(wallet) - Total(wallet') = QUANTITY * (positions' - positions)
    <3>1. positions' - positions = 1
      BY <2>1 DEF Execute, WalletTyped
    <3>2. Total(wallet) - Total(wallet') = QUANTITY
      BY <2>0, <2>1, TransactionCosts, DemoMintAssumption
    <3> QED
      BY <2>0, <3>1, <3>2
  <2>2. ASSUME UNCHANGED <<wallet, positions>>
        PROVE  Total(wallet) - Total(wallet') = QUANTITY * (positions' - positions)
    <3>1. Total(wallet) \in Nat
      <4>1. IsFiniteSet(Coins) /\ \A c \in Coins : wallet[c] \in Nat
        BY DemoMintAssumption DEF WalletTyped, DemoMintAssumption
      <4> QED
        BY <4>1, SumNat DEF Total
    <3>2. Total(wallet') = Total(wallet) /\ positions' - positions = 0
      BY <2>2 DEF WalletTyped
    <3> QED
      BY <2>0, <3>1, <3>2
  <2>3. UNCHANGED <<wallet, positions>> \/ \E r \in Runs : Execute(r)
    BY DEF Next, FindOracle, CheckBalance, GetManager, Insufficient, Mint, MintFails, ListAgain,
           ListFails, RunAgain, NodeCatchesUp, vars
  <2> QED
    BY <2>1, <2>2, <2>3
<1> QED
  BY <1>1, AlwaysWallet, PTL DEF Spec, PaidExactly

-----------------------------------------------------------------------------
(***************************************************************************)
(* The check of the balance.  getCoins lists a page of the coins only, the *)
(* lowest ones here, and the list of a transaction may be outdated.  It    *)
(* suffices nevertheless, because merging takes the page at most the       *)
(* quantity: the merged coin is the lowest it names, so it is on the page  *)
(* if any of them was, and coins that are gone make room for others.  An   *)
(* old list never holds too little either: the coins of a transaction are  *)
(* on the page, so that the page held a quantity before each of them.      *)
(***************************************************************************)
Below(c) == {d \in Held(wallet) : d < c}
OnPage(c) == Cardinality(Below(c)) < CoinPage

\* Fewer coins below a coin keep it on the page.
LEMMA FewerBelow ==
    ASSUME DemoMintAssumption, NEW S, NEW T, S \subseteq T, T \subseteq Coins
    PROVE  Cardinality(S) \in Nat /\ Cardinality(T) \in Nat /\ Cardinality(S) <= Cardinality(T)
<1>1. IsFiniteSet(T)
  BY FS_Subset DEF DemoMintAssumption
<1>2. IsFiniteSet(S) /\ Cardinality(S) <= Cardinality(T)
  BY <1>1, FS_Subset
<1> QED
  BY <1>1, <1>2, FS_CardinalityType

LEMMA LowerIsOnPage ==
    ASSUME DemoMintAssumption, NEW d \in Coins, OnPage(d), NEW c \in Coins, c <= d
    PROVE  OnPage(c)
<1>1. Below(c) \subseteq Below(d) /\ Below(d) \subseteq Coins
  <2>1. Coins \subseteq Nat /\ Held(wallet) \subseteq Coins
    BY DEF DemoMintAssumption, Held
  <2>2. \A e \in Held(wallet) : e \in Nat /\ c \in Nat /\ d \in Nat
    BY <2>1
  <2>3. \A e \in Held(wallet) : e < c => e < d
    BY <2>2
  <2> QED
    BY <2>1, <2>3 DEF Below
<1>2. CoinPage \in Nat
  BY DEF DemoMintAssumption
<1>3. /\ Cardinality(Below(c)) \in Nat /\ Cardinality(Below(d)) \in Nat
      /\ Cardinality(Below(c)) <= Cardinality(Below(d))
  BY <1>1, FewerBelow
<1> QED
  BY <1>2, <1>3 DEF OnPage

\* A transaction takes no coin off the page but those that are gone.
LEMMA PageKept ==
    ASSUME DemoMintAssumption, WalletTyped, NEW r \in Runs, Execute(r)
    PROVE  /\ Held(wallet)' \subseteq Held(wallet)
           /\ \A c \in Coins : OnPage(c) => OnPage(c)'
<1> DEFINE ids == Held(listed[r])
<1>1. ids \subseteq Held(wallet) /\ \A c \in Coins \ ids : wallet'[c] = wallet[c]
  BY MergedCoins
<1>3. CoinPage \in Nat
  BY DEF DemoMintAssumption
<1> HIDE DEF ids
<1>6. Held(wallet)' \subseteq Held(wallet)
  <2>1. Held(wallet)' = {c \in Coins : wallet'[c] > 0} /\ Held(wallet) = {c \in Coins : wallet[c] > 0}
    BY DEF Held
  <2>2. ASSUME NEW c \in Coins, wallet'[c] > 0 PROVE c \in Held(wallet)
    <3>1. CASE c \in ids
      BY <1>1, <3>1
    <3>2. CASE c \notin ids
      BY <1>1, <2>1, <2>2, <3>2
    <3> QED
      BY <3>1, <3>2
  <2> QED
    BY <2>1, <2>2
<1>7. ASSUME NEW c \in Coins, OnPage(c) PROVE OnPage(c)'
  <2>1. Below(c)' \subseteq Below(c) /\ Below(c) \subseteq Coins
    BY <1>6 DEF Below, Held
  <2>2. /\ Cardinality(Below(c)') \in Nat /\ Cardinality(Below(c)) \in Nat
        /\ Cardinality(Below(c)') <= Cardinality(Below(c))
    BY <2>1, FewerBelow
  <2>3. Cardinality(Below(c))' = Cardinality(Below(c)')
    OBVIOUS
  <2> QED
    BY <1>3, <1>7, <2>2, <2>3 DEF OnPage
<1> QED
  BY <1>6, <1>7

LEMMA PageFalls ==
    ASSUME DemoMintAssumption, WalletTyped, NEW r \in Runs, Execute(r)
    PROVE  Total(Page)' >= Total(Page) - QUANTITY
<1> DEFINE ids == Held(listed[r])
           first == FirstOf(ids)
           p == Page
           q == Page'
<1>1. /\ ids \in SUBSET Coins /\ IsFiniteSet(ids) /\ first \in ids
      /\ ids \subseteq Held(wallet)
      /\ SumFunctionOnSet(wallet, ids) \in Nat
      /\ SumFunctionOnSet(wallet, ids) >= QUANTITY
      /\ wallet' \in [Coins -> Nat]
      /\ wallet'[first] = SumFunctionOnSet(wallet, ids) - QUANTITY
      /\ \A c \in ids \ {first} : wallet'[c] = 0
      /\ \A c \in Coins \ ids : wallet'[c] = wallet[c]
  BY MergedCoins
<1>2. \A c \in ids : first <= c
  BY <1>1, FirstOfIsLeast
<1>3. wallet \in [Coins -> Nat] /\ IsFiniteSet(Coins) /\ {QUANTITY, CoinPage} \subseteq Nat
  BY DEF WalletTyped, DemoMintAssumption
<1>4. /\ \A c \in Coins : p[c] = IF OnPage(c) THEN wallet[c] ELSE 0
      /\ \A c \in Coins : q[c] = IF OnPage(c)' THEN wallet'[c] ELSE 0
  BY DEF Page, FirstPage, OnPage, Below
<1>5. \A c \in Coins : p[c] \in Nat /\ q[c] \in Nat /\ p[c] <= wallet[c]
  BY <1>1, <1>3, <1>4
<1> HIDE DEF first, ids, p, q
<1>7. \A c \in Coins : OnPage(c) => OnPage(c)'
  BY PageKept
<1>8. SumFunctionOnSet(p, Coins \ ids) <= SumFunctionOnSet(q, Coins \ ids)
  <2>1. IsFiniteSet(Coins \ ids)
    BY <1>3, FS_Subset
  <2>2. \A c \in Coins \ ids : p[c] \in Int /\ q[c] \in Int /\ p[c] <= q[c]
    BY <1>1, <1>4, <1>5, <1>7
  <2> QED
    BY <2>1, <2>2, SumAtMost
<1>9. SumFunctionOnSet(q, ids) \in Nat /\ SumFunctionOnSet(p, ids) \in Nat
  BY <1>1, <1>5, SumNat
<1>10. SumFunctionOnSet(q, ids) >= SumFunctionOnSet(p, ids) - QUANTITY
  <2>1. CASE \E c \in ids : OnPage(c)
    <3>1. PICK f \in Coins : f = first
      BY <1>1
    <3>2. q[first] = SumFunctionOnSet(wallet, ids) - QUANTITY /\ q[first] \in Int
      <4>1. PICK c \in ids : OnPage(c)
        BY <2>1
      <4>2. c \in Coins /\ f <= c
        BY <1>1, <1>2, <3>1, <4>1
      <4>3. OnPage(f)
        BY <4>1, <4>2, LowerIsOnPage
      <4>4. OnPage(f)'
        BY <1>7, <4>3
      <4> QED
        BY <1>1, <1>4, <1>5, <3>1, <4>4
    <3>3. {first} \in SUBSET ids /\ \A c \in ids : q[c] \in Nat
      BY <1>1, <1>5
    <3>4. SumFunctionOnSet(q, {first}) <= SumFunctionOnSet(q, ids)
      BY <1>1, <3>3, SumPart
    <3>5. SumFunctionOnSet(q, {first}) = q[first]
      BY <3>2, SumOfOne
    <3>6. SumFunctionOnSet(p, ids) <= SumFunctionOnSet(wallet, ids)
      <4>1. \A c \in ids : p[c] \in Int /\ wallet[c] \in Int /\ p[c] <= wallet[c]
        BY <1>1, <1>3, <1>5
      <4> QED
        BY <1>1, <4>1, SumAtMost
    <3> QED
      BY <1>1, <1>3, <1>9, <3>2, <3>4, <3>5, <3>6
  <2>2. CASE \A c \in ids : ~ OnPage(c)
    <3>1. (\A c \in ids : p[c] = 0) /\ (\A c \in ids : p[c] \in Int)
      BY <1>1, <1>4, <1>5, <2>2
    <3>2. SumFunctionOnSet(p, ids) = SumFunctionOnSet(p, {})
      BY <1>1, <3>1, SumNonzero
    <3> QED
      BY <1>3, <1>9, <3>2, SumEmpty
  <2> QED
    BY <2>1, <2>2
<1>11. /\ Total(p) = SumFunctionOnSet(p, ids) + SumFunctionOnSet(p, Coins \ ids)
       /\ Total(q) = SumFunctionOnSet(q, ids) + SumFunctionOnSet(q, Coins \ ids)
  <2>1. (\A c \in Coins : p[c] \in Int) /\ (\A c \in Coins : q[c] \in Int)
    BY <1>5
  <2> QED
    BY <1>1, <1>3, <2>1, SumSplit DEF Total
<1>12. SumFunctionOnSet(p, Coins \ ids) \in Nat /\ SumFunctionOnSet(q, Coins \ ids) \in Nat
  <2>1. IsFiniteSet(Coins \ ids) /\ \A c \in Coins \ ids : p[c] \in Nat /\ q[c] \in Nat
    BY <1>3, <1>5, FS_Subset
  <2> QED
    BY <2>1, SumNat
<1>13. Total(q) >= Total(p) - QUANTITY
  BY <1>3, <1>8, <1>9, <1>10, <1>11, <1>12
<1> QED
  BY <1>13 DEF p, q, Total

-----------------------------------------------------------------------------
(***************************************************************************)
(* What a node that is behind knows: no coin that is there is unknown to   *)
(* it, listed coins are still on the page, and the page it knows, if it is *)
(* not the current one, holds a quantity.                                  *)
(***************************************************************************)
Seen ==
    /\ Held(wallet) \subseteq Held(known)
    /\ \A r \in Runs : \A c \in Held(listed[r]) : OnPage(c)
    /\ known = wallet \/ Total(FirstPage(known)) >= QUANTITY

LEMMA AnswersOnPage ==
    ASSUME DemoMintAssumption, WalletTyped, Seen, NEW coins \in Answers, NEW c \in Held(coins)
    PROVE  OnPage(c)
<1>1. PICK b \in {wallet, known} : coins = FirstPage(b)
  BY DEF Answers, Page
<1> DEFINE T == {d \in Held(b) : d < c}
<1>2. c \in Coins /\ coins[c] > 0
  BY DEF Held
<1>3. Cardinality(T) < CoinPage
  <2>1. coins[c] = IF Cardinality(T) < CoinPage THEN b[c] ELSE 0
    BY <1>1, <1>2 DEF FirstPage
  <2> QED
    BY <1>2, <2>1
<1>4. Below(c) \subseteq T /\ T \subseteq Coins
  BY <1>1 DEF Below, Seen, Held
<1>5. Cardinality(Below(c)) \in Nat /\ Cardinality(T) \in Nat /\ Cardinality(Below(c)) <= Cardinality(T)
  BY <1>4, FewerBelow
<1>6. CoinPage \in Nat
  BY DEF DemoMintAssumption
<1> HIDE DEF T
<1> QED
  BY <1>3, <1>5, <1>6 DEF OnPage

\* A transaction finds its quantity on the page.
LEMMA PageAffords ==
    ASSUME DemoMintAssumption, WalletTyped, Seen, NEW r \in Runs, Execute(r)
    PROVE  Total(Page) >= QUANTITY
<1> DEFINE ids == Held(listed[r])
           p == Page
<1>1. /\ ids \in SUBSET Coins /\ IsFiniteSet(ids)
      /\ SumFunctionOnSet(wallet, ids) \in Nat
      /\ SumFunctionOnSet(wallet, ids) >= QUANTITY
  BY MergedCoins
<1>2. IsFiniteSet(Coins) /\ QUANTITY \in Nat /\ \A c \in Coins : p[c] \in Nat
  BY PageTyped DEF DemoMintAssumption
<1>3. \A c \in ids : p[c] = wallet[c]
  <2>1. \A c \in ids : c \in Coins /\ OnPage(c)
    BY <1>1 DEF Seen
  <2> QED
    BY <2>1 DEF Page, FirstPage, OnPage, Below
<1> HIDE DEF ids, p
<1>4. SumFunctionOnSet(p, ids) = SumFunctionOnSet(wallet, ids)
  BY <1>1, <1>3, SumEqual
<1>5. SumFunctionOnSet(p, ids) <= SumFunctionOnSet(p, Coins)
  BY <1>1, <1>2, SumPart
<1>6. SumFunctionOnSet(p, Coins) \in Nat
  BY <1>2, SumNat
<1> QED
  BY <1>1, <1>2, <1>4, <1>5, <1>6 DEF p, Total

LEMMA SeenStep ==
    ASSUME DemoMintAssumption, WalletTyped, Seen, [Next]_vars
    PROVE  Seen'
<1>1. ASSUME NEW r \in Runs, Execute(r), UNCHANGED <<known, listed>> PROVE Seen'
  <2>1. Held(wallet)' \subseteq Held(known)'
    BY <1>1, PageKept DEF Seen, Held
  <2>2. \A q \in Runs : \A c \in Held(listed[q])' : OnPage(c)'
    BY <1>1, PageKept DEF Seen, Held
  <2>3. Total(FirstPage(known)) >= QUANTITY
    BY <1>1, PageAffords DEF Seen, Page
  <2>4. Total(FirstPage(known))' = Total(FirstPage(known))
    BY <1>1 DEF Total, FirstPage, Held
  <2> QED
    BY <2>1, <2>2, <2>3, <2>4 DEF Seen
<1>2. ASSUME UNCHANGED <<wallet, known>>,
             \A q \in Runs : \A c \in Held(listed'[q]) : OnPage(c)
      PROVE  Seen'
  BY <1>2 DEF Seen, OnPage, Below, Held, Total, FirstPage
<1>3. ASSUME UNCHANGED <<wallet, known, listed>> PROVE Seen'
  BY <1>2, <1>3 DEF Seen
<1>4. ASSUME NEW r \in Runs, NEW p, UNCHANGED <<wallet, known>>,
             listed' = [listed EXCEPT ![r] = p], \A c \in Held(p) : OnPage(c)
      PROVE  Seen'
  <2>1. \A q \in Runs : listed'[q] = IF q = r THEN p ELSE listed[q]
    BY <1>4 DEF WalletTyped
  <2> QED
    BY <1>2, <1>4, <2>1 DEF Seen
<1>5. ASSUME NEW r \in Runs, Mint(r) \/ MintFails(r) PROVE Seen'
  BY <1>1, <1>3, <1>5 DEF Mint, MintFails
<1>6. ASSUME NEW r \in Runs, CheckBalance(r) \/ ListAgain(r) PROVE Seen'
  <2>1. PICK coins \in Answers : listed' = [listed EXCEPT ![r] = coins]
    BY <1>6 DEF CheckBalance, ListAgain
  <2> QED
    BY <1>4, <1>6, <2>1, AnswersOnPage DEF CheckBalance, ListAgain
<1>7. ASSUME NEW r \in Runs, RunAgain(r) PROVE Seen'
  <2>1. Held([c \in Coins |-> 0]) = {}
    BY DEF Held
  <2> QED
    BY <1>4, <1>7, <2>1 DEF RunAgain
<1>8. ASSUME NEW r \in Runs, FindOracle(r) \/ GetManager(r) \/ Insufficient(r) \/ ListFails(r)
      PROVE  Seen'
  BY <1>3, <1>8 DEF FindOracle, GetManager, Insufficient, ListFails
<1>9. CASE NodeCatchesUp
  <2>1. UNCHANGED <<wallet, listed>> /\ known' = wallet'
    BY <1>9 DEF NodeCatchesUp, runVars
  <2>2. Held(wallet)' = Held(known)'
    BY <2>1 DEF Held
  <2>3. \A q \in Runs : \A c \in Held(listed[q])' : OnPage(c)'
    BY <2>1 DEF Seen, OnPage, Below, Held
  <2> QED
    BY <2>1, <2>2, <2>3 DEF Seen
<1>10. CASE UNCHANGED vars
  BY <1>3, <1>10 DEF vars, runVars
<1> QED
  BY <1>5, <1>6, <1>7, <1>8, <1>9, <1>10 DEF Next

LEMMA AlwaysSeen == Spec => []Seen
<1>1. Init => Seen
  <2> SUFFICES ASSUME Init PROVE Seen
    OBVIOUS
  <2>1. known = wallet /\ Held(wallet) \subseteq Held(known)
    BY DEF Init
  <2>2. \A r \in Runs : Held(listed[r]) = {}
    BY DEF Init, Held
  <2> QED
    BY <2>1, <2>2 DEF Seen
<1>2. WalletTyped /\ Seen /\ [Next]_vars => Seen'
  BY SeenStep, DemoMintAssumption
<1> QED
  BY <1>1, <1>2, AlwaysWallet, PTL DEF Spec

-----------------------------------------------------------------------------
(* What is left suffices for what is still to be minted. *)

Needed(n) == IF n = 1 THEN 3 * QUANTITY ELSE IF n = 2 THEN 2 * QUANTITY ELSE QUANTITY

EnoughLeft ==
    \A r \in Runs :
        /\ ~disturbed[r] /\ step[r] \in {"manager", "mint", "list"} =>
              Total(Page) >= Needed(next[r])
        /\ ~disturbed[r] /\ step[r] \in {"manager", "mint"} => Total(listed[r]) >= QUANTITY

DisturbedTyped == disturbed \in [Runs -> BOOLEAN]

BalanceInv == DisturbedTyped /\ CheckedBalanceSuffices /\ EnoughLeft

LEMMA TotalsTyped ==
    ASSUME DemoMintAssumption, WalletTyped
    PROVE  /\ Total(Page) \in Nat
           /\ \A coins \in Answers : Total(coins) \in Nat
           /\ \A r \in Runs : Total(listed[r]) \in Nat
<1>1. /\ IsFiniteSet(Coins) /\ \A c \in Coins : Page[c] \in Nat
      /\ \A coins \in Answers : \A c \in Coins : coins[c] \in Nat
  BY PageTyped DEF DemoMintAssumption
<1>2. \A r \in Runs : \A c \in Coins : listed[r][c] \in Nat
  BY DEF WalletTyped
<1> QED
  BY <1>1, <1>2, SumNat DEF Total

LEMMA NeededFalls ==
    ASSUME DemoMintAssumption
    PROVE  /\ QUANTITY \in Nat
           /\ \A n \in 1..3 : Needed(n) \in Nat /\ QUANTITY <= Needed(n) /\ Needed(n) <= 3 * QUANTITY
           /\ \A n \in 1..2 : Needed(n + 1) = Needed(n) - QUANTITY
BY DEF Needed, DemoMintAssumption

\* A run that executes a transaction disturbs the others.
LEMMA ExecuteBalance ==
    ASSUME DemoMintAssumption, WalletTyped, WalletTyped', Progress, BalanceInv,
           NEW r \in Runs, Mint(r) \/ MintFails(r), Execute(r)
    PROVE  BalanceInv'
<1>1. /\ step[r] = "mint" /\ listed' = listed
      /\ disturbed' = [q \in Runs |-> q # r \/ disturbed[r]]
      /\ \/ step' = [step EXCEPT ![r] = "failed"]
         \/ step' = [step EXCEPT ![r] = "staged"]
         \/ /\ step' = [step EXCEPT ![r] = "list"]
            /\ next' = [next EXCEPT ![r] = @ + 1] /\ next[r] # 3
  BY DEF Mint, MintFails, Submits, Execute, Goto
<1>2. DisturbedTyped' /\ \A q \in Runs \ {r} : disturbed'[q]
  BY <1>1 DEF DisturbedTyped, BalanceInv
<1>3. CheckedBalanceSuffices'
  BY <1>1, <1>2 DEF CheckedBalanceSuffices, Progress
<1>4. ASSUME ~disturbed'[r], step'[r] \in {"manager", "mint", "list"}
      PROVE  Total(Page)' >= Needed(next'[r])
  <2>1. ~disturbed[r]
    BY <1>1, <1>4
  <2>2. next[r] \in 1..2 /\ next'[r] = next[r] + 1
    BY <1>1, <1>4 DEF Progress
  <2>3. Total(Page) >= Needed(next[r])
    BY <1>1, <2>1 DEF BalanceInv, EnoughLeft
  <2>4. Total(Page)' >= Total(Page) - QUANTITY
    BY PageFalls
  <2>5. Total(Page) \in Nat /\ Total(Page)' \in Nat
    <3>1. IsFiniteSet(Coins) /\ \A c \in Coins : Page'[c] \in Nat
      BY DEF DemoMintAssumption, Page, FirstPage, WalletTyped
    <3>2. SumFunctionOnSet(Page', Coins) \in Nat
      BY <3>1, SumNat
    <3> QED
      BY <3>2, TotalsTyped DEF Total
  <2>6. Needed(next'[r]) = Needed(next[r]) - QUANTITY /\ Needed(next[r]) \in Nat /\ QUANTITY \in Nat
    BY <2>2, NeededFalls
  <2> QED
    BY <1>1, <2>3, <2>4, <2>5, <2>6
<1>5. step'[r] \notin {"manager", "mint"}
  BY <1>1 DEF Progress
<1>6. EnoughLeft'
  BY <1>2, <1>4, <1>5 DEF EnoughLeft
<1> QED
  BY <1>2, <1>3, <1>6 DEF BalanceInv

\* A step without a transaction.
LEMMA OtherBalance ==
    ASSUME DemoMintAssumption, WalletTyped, Seen, Progress, BalanceInv, UNCHANGED wallet,
           NEW r \in Runs,
           \/ FindOracle(r) \/ CheckBalance(r) \/ GetManager(r) \/ Insufficient(r)
           \/ Mint(r) \/ MintFails(r) \/ ListAgain(r) \/ ListFails(r) \/ RunAgain(r),
           ~ Execute(r)
    PROVE  BalanceInv'
<1>1. Total(Page)' = Total(Page)
  BY DEF Total, Page, FirstPage, Held
<1>2. \A q \in Runs \ {r} : /\ step'[q] = step[q] /\ next'[q] = next[q]
                            /\ listed'[q] = listed[q] /\ disturbed'[q] = disturbed[q]
  BY DEF FindOracle, CheckBalance, GetManager, Insufficient, Mint, MintFails, ListAgain,
         ListFails, RunAgain, Goto, Progress, WalletTyped, BalanceInv, DisturbedTyped
<1>3. DisturbedTyped'
  <2>1. CASE CheckBalance(r)
    <3>1. PICK coins \in Answers :
             disturbed' = [disturbed EXCEPT ![r] = Total(Page) < Total(coins)]
      BY <2>1 DEF CheckBalance
    <3>2. (Total(Page) < Total(coins)) \in BOOLEAN
      BY TotalsTyped
    <3> QED
      BY <3>1, <3>2, Zenon DEF BalanceInv, DisturbedTyped
  <2>2. CASE ~ CheckBalance(r)
    BY <2>2 DEF FindOracle, GetManager, Insufficient, Mint, MintFails, ListAgain, ListFails,
                RunAgain, BalanceInv, DisturbedTyped
  <2> QED
    BY <2>1, <2>2
<1>4. /\ step'[r] = "poor" => disturbed'[r]
      /\ ~disturbed'[r] /\ step'[r] \in {"manager", "mint", "list"} =>
            Total(Page)' >= Needed(next'[r])
      /\ ~disturbed'[r] /\ step'[r] \in {"manager", "mint"} => Total(listed'[r]) >= QUANTITY
  <2>1. next[r] \in 1..3 /\ QUANTITY \in Nat /\ Needed(next[r]) \in Nat
        /\ QUANTITY <= Needed(next[r]) /\ Needed(next[r]) <= 3 * QUANTITY
    BY NeededFalls DEF Progress
  <2>2. Total(Page) \in Nat /\ Total(listed[r]) \in Nat
    BY TotalsTyped
  <2>3. CASE Insufficient(r)
    BY <2>1, <2>2, <2>3 DEF Insufficient, Goto, Progress, BalanceInv, EnoughLeft
  <2>4. CASE CheckBalance(r)
    <3>1. PICK coins \in Answers :
             /\ listed' = [listed EXCEPT ![r] = coins]
             /\ step' = [step EXCEPT ![r] =
                           IF Total(coins) < 3 * QUANTITY THEN "failed" ELSE "manager"]
             /\ disturbed' = [disturbed EXCEPT ![r] = Total(Page) < Total(coins)]
      BY <2>4 DEF CheckBalance, Goto
    <3>2. next' = next
      BY <2>4 DEF CheckBalance
    <3>3. listed'[r] = coins /\ Total(coins) \in Nat
      BY <3>1, TotalsTyped DEF WalletTyped
    <3>4. disturbed'[r] = (Total(Page) < Total(coins))
      BY <3>1, Zenon DEF BalanceInv, DisturbedTyped
    <3>5. step'[r] = IF Total(coins) < 3 * QUANTITY THEN "failed" ELSE "manager"
      BY <3>1 DEF Progress
    <3>6. ~disturbed'[r] => Total(Page) >= Total(coins)
      <4>1. ~disturbed'[r] => ~ (Total(Page) < Total(coins))
        BY <3>4, Zenon
      <4> QED
        BY <2>2, <3>3, <4>1
    <3>7. step'[r] \in {"manager", "mint", "list"} => Total(coins) >= 3 * QUANTITY
      BY <2>1, <3>3, <3>5
    <3>8. step'[r] # "poor" /\ next'[r] = next[r] /\ Total(listed'[r]) = Total(coins)
      BY <3>2, <3>3, <3>5
    <3> QED
      BY <1>1, <2>1, <2>2, <3>3, <3>6, <3>7, <3>8
  <2>5. CASE GetManager(r)
    BY <1>1, <2>5 DEF GetManager, Goto, Progress, BalanceInv, EnoughLeft
  <2>6. CASE ListAgain(r)
    <3>1. step[r] = "list" /\ step'[r] = "mint" /\ next' = next /\ disturbed' = disturbed
      BY <2>6 DEF ListAgain, Goto, Progress
    <3>2. listed'[r] = Page \/ listed'[r] = FirstPage(known)
      BY <2>6 DEF ListAgain, Answers, WalletTyped
    <3>3. ~disturbed[r] => Total(Page) >= QUANTITY /\ Total(Page) >= Needed(next[r])
      BY <2>1, <2>2, <3>1 DEF BalanceInv, EnoughLeft
    <3>4. known = wallet \/ Total(FirstPage(known)) >= QUANTITY
      BY DEF Seen
    <3> QED
      BY <1>1, <3>1, <3>2, <3>3, <3>4 DEF Page
  <2>7. CASE FindOracle(r) \/ Mint(r) \/ MintFails(r) \/ ListFails(r) \/ RunAgain(r)
    BY <2>7 DEF FindOracle, Mint, MintFails, ListFails, RunAgain, Goto, Progress
  <2> QED
    BY <2>3, <2>4, <2>5, <2>6, <2>7
<1>5. CheckedBalanceSuffices' /\ EnoughLeft'
  BY <1>1, <1>2, <1>4 DEF BalanceInv, CheckedBalanceSuffices, EnoughLeft
<1> QED
  BY <1>3, <1>5 DEF BalanceInv

LEMMA BalanceStep ==
    ASSUME DemoMintAssumption, WalletTyped, WalletTyped', Seen, Progress, BalanceInv, [Next]_vars
    PROVE  BalanceInv'
<1>1. CASE NodeCatchesUp \/ UNCHANGED vars
  BY <1>1 DEF NodeCatchesUp, vars, runVars, BalanceInv, DisturbedTyped, CheckedBalanceSuffices,
              EnoughLeft, Total, Page, FirstPage, Held
<1>2. ASSUME NEW r \in Runs,
             \/ FindOracle(r) \/ CheckBalance(r) \/ GetManager(r) \/ Insufficient(r)
             \/ Mint(r) \/ MintFails(r) \/ ListAgain(r) \/ ListFails(r) \/ RunAgain(r)
      PROVE  BalanceInv'
  <2>1. CASE Execute(r)
    <3>1. positions' = positions + 1
      BY <2>1 DEF Execute
    <3>2. CASE Mint(r) \/ MintFails(r)
      BY <2>1, <3>2, ExecuteBalance
    <3>3. CASE ~ (Mint(r) \/ MintFails(r))
      <4>1. positions' = positions
        BY <1>2, <3>3 DEF FindOracle, CheckBalance, GetManager, Insufficient, ListAgain,
                          ListFails, RunAgain
      <4> QED
        BY <3>1, <4>1 DEF WalletTyped
    <3> QED
      BY <3>2, <3>3
  <2>2. CASE ~ Execute(r)
    <3>1. UNCHANGED wallet
      BY <1>2, <2>2 DEF FindOracle, CheckBalance, GetManager, Insufficient, Mint, MintFails,
                        ListAgain, ListFails, RunAgain
    <3> QED
      BY <1>2, <2>2, <3>1, OtherBalance
  <2> QED
    BY <2>1, <2>2
<1> QED
  BY <1>1, <1>2 DEF Next

LEMMA AlwaysBalance == Spec => []BalanceInv
<1>1. Init => BalanceInv
  BY DEF Init, BalanceInv, DisturbedTyped, CheckedBalanceSuffices, EnoughLeft
<1>2. WalletTyped /\ WalletTyped' /\ Seen /\ IInv /\ BalanceInv /\ [Next]_vars => BalanceInv'
  BY BalanceStep, DemoMintAssumption DEF IInv
<1>3. Init => IInv
  BY Prefixes DEF Init, IInv, Progress, StagedInOrder, Steps
<1>4. IInv /\ [Next]_vars => IInv'
  BY OrderStep
<1> QED
  BY <1>1, <1>2, <1>3, <1>4, AlwaysWallet, AlwaysSeen, PTL DEF Spec

\* A run that found three times QUANTITY on the page of coins it listed, where it was,
\* does not run out of DUSDC at any of its three positions, although each merges the
\* coins and the later lists may be outdated, unless another run spends
\* (demo-mint.ts:242-274).
THEOREM ThreeSuffice == Spec => []CheckedBalanceSuffices
<1>1. BalanceInv => CheckedBalanceSuffices
  BY DEF BalanceInv
<1> QED
  BY <1>1, AlwaysBalance, PTL

\* No balance is ever negative: a transaction takes what the coins it names hold.
THEOREM TypeCorrect == Spec => []TypeOK
<1>1. Init => IInv
  BY Prefixes DEF Init, IInv, Progress, StagedInOrder, Steps
<1>2. IInv /\ [Next]_vars => IInv'
  BY OrderStep
<1>3. IInv /\ WalletTyped /\ SpotTyped /\ BalanceInv => TypeOK
  BY DEF IInv, Progress, Steps, KindNames, WalletTyped, SpotTyped, BalanceInv, DisturbedTyped,
         TypeOK
<1> QED
  BY <1>1, <1>2, <1>3, AlwaysWallet, AlwaysSpot, AlwaysBalance, PTL DEF Spec
=============================================================================
