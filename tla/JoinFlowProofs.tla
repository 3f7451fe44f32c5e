--------------------------- MODULE JoinFlowProofs ---------------------------
(***************************************************************************)
(* Theorems about JoinFlow for any accounts, any number of bonds they can  *)
(* pay for and any number of transactions left behind.                     *)
(***************************************************************************)
EXTENDS JoinFlow, TLAPS

-----------------------------------------------------------------------------
(* The cache and the page keep their types. *)

LEMMA FetchingType ==
    ASSUME NEW entry \in Entry
    PROVE  Fetching(entry) \in Entry /\ Fetching(entry).data = entry.data
           /\ Fetching(entry).fetch = "asked"
BY DEF Fetching, Entry

LEMMA ObserveType ==
    ASSUME cache \in [Accounts -> Entry], NEW a \in Accounts \cup {NoAccount}, Observe(a)
    PROVE  cache' \in [Accounts -> Entry]
<1>1. CASE a = NoAccount
  BY <1>1 DEF Observe
<1>2. CASE a # NoAccount
  BY <1>2, FetchingType DEF Observe, QueryKey
<1> QED
  BY <1>1, <1>2

LEMMA ForgetPageType ==
    ASSUME JoinFlowAssumption, TypeOK, ForgetPage
    PROVE  /\ onPage' = FALSE /\ tx' = "idle" /\ signing' = NoAccount /\ paid' = 0
           /\ orphans' \in [Accounts -> Nat]
BY DEF ForgetPage, TypeOK

LEMMA BondType ==
    ASSUME TypeOK, NEW a \in Accounts, Bond(a) \/ UNCHANGED chainVars
    PROVE  bonds' \in [Accounts -> Nat] /\ indexed' \in [Accounts -> BOOLEAN]
<1>1. CASE Bond(a)
  <2>1. bonds[a] + 1 \in Nat
    BY DEF TypeOK
  <2> QED
    BY <1>1, <2>1 DEF Bond, TypeOK
<1>2. CASE UNCHANGED chainVars
  BY <1>2 DEF chainVars, TypeOK
<1> QED
  BY <1>1, <1>2

\* Steps that change the cache only.
CacheStep(a) ==
    \/ FetchReads(a) \/ FetchAnswers(a) \/ FetchFails(a) \/ Collect(a)

LEMMA CacheStepType ==
    ASSUME TypeOK, NEW a \in Accounts, CacheStep(a)
    PROVE  cache' \in [Accounts -> Entry]
<1>1. CASE FetchReads(a)
  BY <1>1 DEF FetchReads, QueryKey, TypeOK, Entry
<1>2. CASE FetchAnswers(a)
  <2>1. [data |-> cache[a].fetch, error |-> FALSE, fetch |-> "no"] \in Entry
    BY <1>2 DEF FetchAnswers, Entry
  <2> QED
    BY <1>2, <2>1 DEF FetchAnswers, TypeOK
<1>3. CASE FetchFails(a)
  BY <1>3 DEF FetchFails, TypeOK, Entry
<1>4. CASE Collect(a)
  BY <1>4 DEF Collect, NoEntry, TypeOK, Entry
<1> QED
  BY <1>1, <1>2, <1>3, <1>4 DEF CacheStep

LEMMA CacheStepRest ==
    ASSUME NEW a \in Accounts, CacheStep(a)
    PROVE  UNCHANGED <<account, pageVars, orphans, timers, chainVars>>
BY DEF CacheStep, FetchReads, FetchAnswers, FetchFails, Collect

\* Focus and a timer ask for the entry the page looks at.
LEMMA AskAgain ==
    ASSUME TypeOK, Focus \/ Invalidate
    PROVE  /\ cache' \in [Accounts -> Entry]
           /\ \A a \in Accounts : /\ cache'[a].data = cache[a].data
                                  /\ cache'[a].fetch \in {"asked", cache[a].fetch}
           /\ UNCHANGED <<account, pageVars, orphans, chainVars>>
           /\ timers' \in Nat
<1>1. timers' \in Nat /\ UNCHANGED <<account, pageVars, orphans, chainVars>>
  BY DEF Focus, Invalidate, TypeOK
<1>2. CASE cache' = cache
  BY <1>1, <1>2 DEF TypeOK
<1>3. CASE Observed /\ cache' = [cache EXCEPT ![QueryKey(account)] = Fetching(@)]
  <2>1. account \in Accounts
    BY <1>3 DEF Observed, TypeOK
  <2>2. /\ Fetching(cache[account]) \in Entry
        /\ Fetching(cache[account]).data = cache[account].data
        /\ Fetching(cache[account]).fetch = "asked"
    BY <2>1, FetchingType DEF TypeOK
  <2> QED
    BY <1>1, <1>3, <2>1, <2>2 DEF QueryKey, TypeOK
<1> QED
  BY <1>2, <1>3 DEF Focus, Invalidate

\* Opening the page and changing the account look at an entry.
LEMMA LookStep ==
    ASSUME JoinFlowAssumption, TypeOK, OpenPage \/ \E a \in Accounts \cup {NoAccount} : ChangeAccount(a)
    PROVE  /\ UNCHANGED <<tx, signing, paid, orphans, timers, chainVars>>
           /\ account' \in Accounts \cup {NoAccount}
           /\ onPage' \in BOOLEAN
           /\ \/ UNCHANGED cache
              \/ \E a \in Accounts \cup {NoAccount} : Observe(a)
<1>1. CASE OpenPage
  BY <1>1 DEF OpenPage, TypeOK
<1>2. CASE \E a \in Accounts \cup {NoAccount} : ChangeAccount(a)
  BY <1>2 DEF ChangeAccount, pageVars, TypeOK
<1> QED
  BY <1>1, <1>2

LEMMA TypeStep ==
    ASSUME JoinFlowAssumption, TypeOK, [Next]_vars
    PROVE  TypeOK'
<1>1. CASE Register
  BY <1>1 DEF Register, CanRegister, Observed, TypeOK, chainVars, JoinFlowAssumption
<1>2. CASE BondSucceeds \/ BondFails
  <2>1. signing \in Accounts /\ (Bond(signing) \/ UNCHANGED chainVars)
    BY <1>2 DEF BondSucceeds, BondFails, TypeOK
  <2>2. bonds' \in [Accounts -> Nat] /\ indexed' \in [Accounts -> BOOLEAN]
    BY <2>1, BondType
  <2>3. /\ tx' \in {"success", "error"} /\ signing' = NoAccount
        /\ paid' \in Nat /\ timers' \in Nat
        /\ UNCHANGED <<account, onPage, orphans, cache>>
    BY <1>2 DEF BondSucceeds, BondFails, TypeOK
  <2> QED
    BY <2>2, <2>3 DEF TypeOK
<1>3. ASSUME NEW a \in Accounts, OrphanDecided(a) PROVE TypeOK'
  <2>1. bonds' \in [Accounts -> Nat] /\ indexed' \in [Accounts -> BOOLEAN]
    BY <1>3, BondType DEF OrphanDecided
  <2>2. orphans' \in [Accounts -> Nat]
    BY <1>3 DEF OrphanDecided, TypeOK
  <2> QED
    BY <1>3, <2>1, <2>2 DEF OrphanDecided, pageVars, TypeOK
<1>4. CASE Focus \/ Invalidate
  BY <1>4, AskAgain DEF pageVars, chainVars, TypeOK
<1>5. CASE OpenPage \/ \E a \in Accounts \cup {NoAccount} : ChangeAccount(a)
  <2>1. cache' \in [Accounts -> Entry]
    BY <1>5, LookStep, ObserveType DEF TypeOK
  <2> QED
    BY <1>5, <2>1, LookStep DEF chainVars, TypeOK
<1>6. CASE LeavePage
  <2>1. /\ onPage' = FALSE /\ tx' = "idle" /\ signing' = NoAccount /\ paid' = 0
        /\ orphans' \in [Accounts -> Nat]
    BY <1>6, ForgetPageType DEF LeavePage
  <2>2. UNCHANGED <<account, timers, cache, bonds, indexed>>
    BY <1>6 DEF LeavePage, chainVars
  <2> QED
    BY <2>1, <2>2 DEF TypeOK
<1>7. CASE Reload
  <2>1. cache' \in [Accounts -> Entry] /\ timers' \in Nat
    BY <1>7 DEF Reload, NoEntry, Entry
  <2> QED
    BY <1>7, <2>1, ForgetPageType DEF Reload, chainVars, TypeOK
<1>8. ASSUME NEW a \in Accounts, Index(a) PROVE TypeOK'
  BY <1>8 DEF Index, pageVars, TypeOK
<1>9. ASSUME NEW a \in Accounts, CacheStep(a) PROVE TypeOK'
  BY <1>9, CacheStepType, CacheStepRest DEF pageVars, chainVars, TypeOK
<1>10. CASE UNCHANGED vars
  BY <1>10 DEF vars, pageVars, chainVars, TypeOK
<1> QED
  BY <1>1, <1>2, <1>3, <1>4, <1>5, <1>6, <1>7, <1>8, <1>9, <1>10
     DEF Next, Normal, Visitor, Machine, CacheStep

\* Every variable keeps its type, and the page waits for an account exactly while a
\* transaction of it is pending, whatever happens to the account meanwhile.
THEOREM TypeCorrect == Spec => []TypeOK
<1>1. Init => TypeOK
  <2>1. NoEntry \in Entry
    BY DEF NoEntry, Entry
  <2> SUFFICES ASSUME Init PROVE TypeOK
    OBVIOUS
  <2>2. cache \in [Accounts -> Entry]
    BY <2>1 DEF Init
  <2>3. tx = "pending" <=> signing # NoAccount
    BY DEF Init
  <2>4. /\ orphans \in [Accounts -> Nat] /\ bonds \in [Accounts -> Nat]
        /\ indexed \in [Accounts -> BOOLEAN]
    BY DEF Init
  <2> QED
    BY <2>2, <2>3, <2>4 DEF Init, TypeOK
<1>2. TypeOK /\ [Next]_vars => TypeOK'
  BY TypeStep, JoinFlowAssumption
<1> QED
  BY <1>1, <1>2, PTL DEF Spec

-----------------------------------------------------------------------------
\* The page has paid at most once, and only when it says success: there is no way
\* back to the button from there but through the page being left.
PaidWhenSuccess == paid <= 1 /\ (tx # "success" => paid = 0)

LEMMA PaidStep ==
    ASSUME JoinFlowAssumption, TypeOK, PaidWhenSuccess, [Next]_vars
    PROVE  PaidWhenSuccess'
<1>1. CASE Register
  BY <1>1 DEF Register, CanRegister, PaidWhenSuccess
<1>2. CASE BondSucceeds \/ BondFails
  BY <1>2 DEF BondSucceeds, BondFails, PaidWhenSuccess
<1>3. CASE LeavePage \/ Reload
  BY <1>3 DEF LeavePage, Reload, ForgetPage, PaidWhenSuccess
<1>4. CASE OpenPage \/ \E a \in Accounts \cup {NoAccount} : ChangeAccount(a)
  BY <1>4, LookStep DEF PaidWhenSuccess
<1>5. CASE \/ Focus \/ Invalidate \/ UNCHANGED vars
           \/ \E a \in Accounts : OrphanDecided(a) \/ Index(a) \/ CacheStep(a)
  <2>1. UNCHANGED pageVars
    BY <1>5, CacheStepRest DEF Focus, Invalidate, OrphanDecided, Index, vars
  <2> QED
    BY <2>1 DEF pageVars, PaidWhenSuccess
<1> QED
  BY <1>1, <1>2, <1>3, <1>4, <1>5 DEF Next, Normal, Visitor, Machine, CacheStep

\* A visit to the page does not bond a second time unless it reported an error after
\* the first: the pending and the successful state both keep the button away.
THEOREM NoSecondBond == Spec => []SecondBondAfterErrorOnly
<1>1. Init => PaidWhenSuccess
  BY DEF Init, PaidWhenSuccess
<1>2. TypeOK /\ PaidWhenSuccess /\ [Next]_vars => PaidWhenSuccess'
  BY PaidStep, JoinFlowAssumption
<1>3. PaidWhenSuccess => SecondBondAfterErrorOnly
  BY DEF PaidWhenSuccess, SecondBondAfterErrorOnly
<1> QED
  BY <1>1, <1>2, <1>3, TypeCorrect, PTL DEF Spec

-----------------------------------------------------------------------------
\* A credential in the cache, or on its way to it, is one the account has.
CacheTrue ==
    \A a \in Accounts :
        /\ indexed[a] => bonds[a] > 0
        /\ cache[a].data = "credential" \/ cache[a].fetch = "credential" => indexed[a]

\* Nothing new in the cache, nothing lost on the chain.
NothingNew ==
    \A a \in Accounts :
        /\ bonds'[a] >= bonds[a] /\ indexed'[a] = indexed[a]
        /\ cache'[a].data = "credential" =>
               cache[a].data = "credential" \/ cache[a].fetch = "credential"
        /\ cache'[a].fetch = "credential" => cache[a].fetch = "credential"

LEMMA NothingNewKeeps ==
    ASSUME TypeOK, TypeOK', CacheTrue, NothingNew
    PROVE  CacheTrue'
<1> SUFFICES ASSUME NEW a \in Accounts
             PROVE  /\ indexed'[a] => bonds'[a] > 0
                    /\ cache'[a].data = "credential" \/ cache'[a].fetch = "credential" => indexed'[a]
  BY DEF CacheTrue
<1>1. bonds[a] \in Nat /\ bonds'[a] \in Nat
  BY DEF TypeOK
<1> QED
  BY <1>1 DEF CacheTrue, NothingNew

LEMMA BondIsNotNew ==
    ASSUME TypeOK, NEW a \in Accounts, Bond(a) \/ UNCHANGED chainVars, UNCHANGED cache
    PROVE  NothingNew
<1>1. \A b \in Accounts : bonds[b] \in Nat
  BY DEF TypeOK
<1>2. \A b \in Accounts : bonds'[b] >= bonds[b] /\ indexed'[b] = indexed[b]
  BY <1>1 DEF Bond, chainVars, TypeOK
<1> QED
  BY <1>2 DEF NothingNew

LEMMA NoCredentialIsNotNew ==
    ASSUME TypeOK, UNCHANGED chainVars,
           \A a \in Accounts : /\ cache'[a].data \in {"none", cache[a].data}
                               /\ cache'[a].fetch \in {"no", "asked", cache[a].fetch}
    PROVE  NothingNew
<1>1. \A a \in Accounts : bonds[a] \in Nat
  BY DEF TypeOK
<1> QED
  BY <1>1 DEF NothingNew, chainVars

LEMMA ObserveIsNotNew ==
    ASSUME TypeOK, NEW a \in Accounts \cup {NoAccount}, Observe(a)
    PROVE  \A b \in Accounts : /\ cache'[b].data = cache[b].data
                               /\ cache'[b].fetch \in {"asked", cache[b].fetch}
<1>1. CASE UNCHANGED cache
  BY <1>1
<1>2. CASE a # NoAccount /\ cache' = [cache EXCEPT ![a] = Fetching(@)]
  <2>1. Fetching(cache[a]).data = cache[a].data /\ Fetching(cache[a]).fetch = "asked"
    BY <1>2, FetchingType DEF TypeOK
  <2> QED
    BY <1>2, <2>1 DEF TypeOK
<1> QED
  BY <1>1, <1>2 DEF Observe, QueryKey

LEMMA CacheTrueStep ==
    ASSUME JoinFlowAssumption, TypeOK, TypeOK', CacheTrue, [Next]_vars
    PROVE  CacheTrue'
<1>1. CASE Register \/ LeavePage \/ UNCHANGED vars
  <2>1. UNCHANGED chainVars /\ UNCHANGED cache
    BY <1>1 DEF Register, LeavePage, vars
  <2> QED
    BY <2>1, NoCredentialIsNotNew, NothingNewKeeps
<1>2. CASE BondSucceeds \/ BondFails
  <2>1. signing \in Accounts /\ (Bond(signing) \/ UNCHANGED chainVars) /\ UNCHANGED cache
    BY <1>2 DEF BondSucceeds, BondFails, TypeOK
  <2> QED
    BY <2>1, BondIsNotNew, NothingNewKeeps
<1>3. ASSUME NEW a \in Accounts, OrphanDecided(a) PROVE CacheTrue'
  BY <1>3, BondIsNotNew, NothingNewKeeps DEF OrphanDecided
<1>4. CASE Focus \/ Invalidate
  BY <1>4, AskAgain, NoCredentialIsNotNew, NothingNewKeeps
<1>5. CASE OpenPage \/ \E a \in Accounts \cup {NoAccount} : ChangeAccount(a)
  <2>1. \A b \in Accounts : /\ cache'[b].data = cache[b].data
                            /\ cache'[b].fetch \in {"asked", cache[b].fetch}
    BY <1>5, LookStep, ObserveIsNotNew
  <2> QED
    BY <1>5, <2>1, LookStep, NoCredentialIsNotNew, NothingNewKeeps
<1>6. CASE Reload
  <2>1. UNCHANGED chainVars /\ \A a \in Accounts : cache'[a].data = "none" /\ cache'[a].fetch = "no"
    BY <1>6 DEF Reload, NoEntry
  <2> QED
    BY <2>1, NoCredentialIsNotNew, NothingNewKeeps
<1>7. ASSUME NEW a \in Accounts, Index(a) PROVE CacheTrue'
  <2>1. bonds[a] > 0 /\ bonds' = bonds /\ cache' = cache
        /\ \A b \in Accounts : indexed'[b] = (indexed[b] \/ b = a)
    BY <1>7 DEF Index, TypeOK
  <2> QED
    BY <2>1 DEF CacheTrue
<1>8. ASSUME NEW a \in Accounts, FetchReads(a) PROVE CacheTrue'
  <2>1. UNCHANGED chainVars
    BY <1>8 DEF FetchReads
  <2>2. \A b \in Accounts : /\ cache'[b].data = cache[b].data
                            /\ cache'[b].fetch = "credential" => cache[b].fetch = "credential" \/ indexed[b]
    BY <1>8 DEF FetchReads, QueryKey, TypeOK, Entry
  <2> QED
    BY <2>1, <2>2 DEF CacheTrue, chainVars
<1>9. ASSUME NEW a \in Accounts, FetchAnswers(a) \/ FetchFails(a) \/ Collect(a) PROVE CacheTrue'
  <2>1. UNCHANGED chainVars
    BY <1>9 DEF FetchAnswers, FetchFails, Collect
  <2>2. \A b \in Accounts :
           /\ cache'[b].data = "credential" => cache[b].data = "credential" \/ cache[b].fetch = "credential"
           /\ cache'[b].fetch = "credential" => cache[b].fetch = "credential"
    BY <1>9 DEF FetchAnswers, FetchFails, Collect, NoEntry, TypeOK, Entry
  <2> QED
    BY <2>1, <2>2 DEF CacheTrue, chainVars
<1> QED
  BY <1>1, <1>2, <1>3, <1>4, <1>5, <1>6, <1>7, <1>8, <1>9 DEF Next, Normal, Visitor, Machine

\* The credential on the page is the connected account's own, whatever answers are on
\* their way when accounts are changed: each entry of the cache is true by itself.
THEOREM ShownOwn == Spec => []ShownIsOwn
<1>1. Init => CacheTrue
  <2> SUFFICES ASSUME Init, NEW a \in Accounts
               PROVE  /\ ~indexed[a]
                      /\ cache[a].data = "none" /\ cache[a].fetch = "no"
    BY DEF CacheTrue
  <2> QED
    BY DEF Init, NoEntry
<1>2. TypeOK /\ TypeOK' /\ CacheTrue /\ [Next]_vars => CacheTrue'
  BY CacheTrueStep, JoinFlowAssumption
<1>3. TypeOK /\ CacheTrue => ShownIsOwn
  BY DEF TypeOK, CacheTrue, ShownIsOwn, HasCred, Status, QueryKey
<1> QED
  BY <1>1, <1>2, <1>3, TypeCorrect, PTL DEF Spec
=============================================================================
