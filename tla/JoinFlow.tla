------------------------------ MODULE JoinFlow ------------------------------
(***************************************************************************)
(* The page of dashboard/src on which a keeper registers: JoinPage.tsx     *)
(* with useKeeperStatus.ts, the wallet of WalletButton.tsx and the         *)
(* navigation of App.tsx and Header.tsx.  The bond is a transaction signed *)
(* in the wallet, the credential comes from a cached query; both go on     *)
(* when the page is left, the account changed or the tab reloaded.         *)
(*                                                                         *)
(* The query cache is that of @tanstack/react-query, one entry per owner:  *)
(* an entry is fetched when the page starts to look at it, if it has no    *)
(* data or has become stale, when the window is focused and when it is     *)
(* invalidated.  Time is left out: an entry with data may be stale or not. *)
(* Unbonding is not on the page and left out.                              *)
(***************************************************************************)
EXTENDS Naturals

CONSTANTS
    Accounts,   \* addresses in the visitor's wallets
    NoAccount,
    MaxBonds,   \* bonds each account can pay for
    MaxOrphans, \* bound: transactions of an account whose page was left, at a time
    MaxTimers   \* bound: invalidations to come, at a time

ASSUME JoinFlowAssumption ==
    /\ NoAccount \notin Accounts
    /\ MaxBonds \in [Accounts -> Nat]
    /\ {MaxOrphans, MaxTimers} \subseteq Nat

VARIABLES
    account,    \* useCurrentAccount
    onPage,     \* JoinPage is mounted
    tx,         \* its TxState
    signing,    \* the account whose transaction it waits for
    orphans,    \* transactions of pages that were left, not yet decided
    timers,     \* invalidations to come
    cache,      \* the query of each owner
    bonds,      \* credentials of each account on the chain
    indexed,    \* the full node lists a credential of the account
    paid        \* bonds executed for this page since it last reported an error

pageVars == <<onPage, tx, signing, paid>>
chainVars == <<bonds, indexed>>
vars == <<account, pageVars, orphans, timers, cache, chainVars>>

\* fetch: nothing, asked, or the answer on its way.
Entry == [data : {"none", "empty", "credential"}, error : BOOLEAN,
          fetch : {"no", "asked", "empty", "credential"}]
NoEntry == [data |-> "none", error |-> FALSE, fetch |-> "no"]

\* Every variable has its type.
TypeOK ==
    /\ account \in Accounts \cup {NoAccount}
    /\ onPage \in BOOLEAN
    /\ tx \in {"idle", "pending", "success", "error"}
    /\ signing \in Accounts \cup {NoAccount}
    /\ orphans \in [Accounts -> Nat]
    /\ timers \in Nat
    /\ cache \in [Accounts -> Entry]
    /\ bonds \in [Accounts -> Nat]
    /\ indexed \in [Accounts -> BOOLEAN]
    /\ paid \in Nat
    /\ tx = "pending" <=> signing # NoAccount

\* The tab is loaded with or without a wallet to connect to by itself.
Init ==
    /\ account \in Accounts \cup {NoAccount}
    /\ onPage = FALSE
    /\ tx = "idle"
    /\ signing = NoAccount
    /\ orphans = [a \in Accounts |-> 0]
    /\ timers = 0
    /\ cache = [a \in Accounts |-> NoEntry]
    /\ bonds = [a \in Accounts |-> 0]
    /\ indexed = [a \in Accounts |-> FALSE]
    /\ paid = 0

-----------------------------------------------------------------------------
(* useKeeperStatus. *)

\* A slip in useKeeperStatus: the owner is not part of the key.
QueryKeyShared(a) == CHOOSE b \in Accounts : TRUE

\* The key of the query holds its owner.
QueryKey(a) == a

Status == cache[QueryKey(account)]
CredLoading == account # NoAccount /\ Status.data = "none" /\ Status.fetch # "no"

\* An error hides the credential, even one that was fetched before.
HasCred == account # NoAccount /\ Status.data = "credential" /\ ~Status.error

\* A fetch replaces the one under way; an entry without data forgets its error.
Fetching(entry) ==
    [entry EXCEPT !.fetch = "asked", !.error = entry.data # "none" /\ @]

\* The page starts to look at the entry of the account a.
Observe(a) ==
    IF a = NoAccount THEN UNCHANGED cache
    ELSE LET k == QueryKey(a)
         IN \/ /\ cache[k].fetch = "no"
               /\ cache' = [cache EXCEPT ![k] = Fetching(@)]
            \/ /\ cache[k].fetch # "no" \/ cache[k].data # "none"
               /\ UNCHANGED cache

Observed == onPage /\ account # NoAccount

FetchReads(a) ==
    /\ cache[QueryKey(a)].fetch = "asked"
    /\ cache' = [cache EXCEPT ![QueryKey(a)].fetch =
                    IF indexed[a] THEN "credential" ELSE "empty"]
    /\ UNCHANGED <<account, pageVars, orphans, timers, chainVars>>

FetchAnswers(a) ==
    /\ cache[a].fetch \in {"empty", "credential"}
    /\ cache' = [cache EXCEPT ![a] = [data |-> @.fetch, error |-> FALSE, fetch |-> "no"]]
    /\ UNCHANGED <<account, pageVars, orphans, timers, chainVars>>

\* The first attempt and both retries fail: the data stays.
FetchFails(a) ==
    /\ cache[a].fetch # "no"
    /\ cache' = [cache EXCEPT ![a].fetch = "no", ![a].error = TRUE]
    /\ UNCHANGED <<account, pageVars, orphans, timers, chainVars>>

\* A slip in main: refetchOnWindowFocus is off.
FocusLoadsOnly ==
    /\ Observed
    /\ cache[QueryKey(account)].fetch = "no"
    /\ cache[QueryKey(account)].data = "none"
    /\ cache' = [cache EXCEPT ![QueryKey(account)] = Fetching(@)]
    /\ UNCHANGED <<account, pageVars, orphans, timers, chainVars>>

\* The window is focused after the data has become stale.
Focus ==
    /\ Observed
    /\ cache[QueryKey(account)].fetch = "no"
    /\ cache' = [cache EXCEPT ![QueryKey(account)] = Fetching(@)]
    /\ UNCHANGED <<account, pageVars, orphans, timers, chainVars>>

\* An entry nobody looks at is dropped after a while.
Collect(a) ==
    /\ ~(Observed /\ QueryKey(account) = a)
    /\ cache[a].fetch = "no"
    /\ cache' = [cache EXCEPT ![a] = NoEntry]
    /\ UNCHANGED <<account, pageVars, orphans, timers, chainVars>>

-----------------------------------------------------------------------------
(* JoinPage. *)

\* A slip in JoinPage: the button waits for the credential only.
CanRegisterAgain == Observed /\ ~HasCred /\ tx # "pending" /\ ~CredLoading

\* The button of step 3 is there and enabled.
CanRegister == Observed /\ ~HasCred /\ tx \in {"idle", "error"} /\ ~CredLoading

Register ==
    /\ CanRegister
    /\ tx' = "pending"
    /\ signing' = account
    /\ UNCHANGED <<account, onPage, paid, orphans, timers, cache, chainVars>>

\* The transaction of the account a is executed.
Bond(a) ==
    /\ bonds[a] < MaxBonds[a]
    /\ bonds' = [bonds EXCEPT ![a] = @ + 1]
    /\ UNCHANGED indexed

\* onSuccess, whatever the effects of the transaction are; the timer outlives the
\* page.
BondSucceeds ==
    /\ tx = "pending"
    /\ timers < MaxTimers
    /\ \/ Bond(signing) /\ paid' = paid + 1
       \/ UNCHANGED <<chainVars, paid>>
    /\ tx' = "success"
    /\ signing' = NoAccount
    /\ timers' = timers + 1
    /\ UNCHANGED <<account, onPage, orphans, cache>>

\* onError, whether the wallet refused, the transaction failed or only its answer
\* was lost.
BondFails ==
    /\ tx = "pending"
    /\ Bond(signing) \/ UNCHANGED chainVars
    /\ tx' = "error"
    /\ signing' = NoAccount
    /\ paid' = 0
    /\ UNCHANGED <<account, onPage, orphans, timers, cache>>

\* The callbacks of mutate are not called once the page is gone.
OrphanDecided(a) ==
    /\ orphans[a] > 0
    /\ orphans' = [orphans EXCEPT ![a] = @ - 1]
    /\ Bond(a) \/ UNCHANGED chainVars
    /\ UNCHANGED <<account, pageVars, timers, cache>>

\* invalidateQueries, two seconds after onSuccess: what the page looks at is fetched
\* anew, unless its first fetch is under way.
Invalidate ==
    /\ timers > 0
    /\ timers' = timers - 1
    /\ IF Observed /\ ~CredLoading
       THEN cache' = [cache EXCEPT ![QueryKey(account)] = Fetching(@)]
       ELSE UNCHANGED cache
    /\ UNCHANGED <<account, pageVars, orphans, chainVars>>

\* The page goes with its state; a transaction of it goes on.
ForgetPage ==
    /\ onPage' = FALSE
    /\ tx' = "idle"
    /\ signing' = NoAccount
    /\ paid' = 0
    /\ orphans' = [a \in Accounts |-> IF a = signing THEN orphans[a] + 1 ELSE orphans[a]]
    /\ \A a \in Accounts : orphans'[a] <= MaxOrphans

-----------------------------------------------------------------------------
(* The visitor and the node. *)

OpenPage ==
    /\ ~onPage
    /\ onPage' = TRUE
    /\ Observe(account)
    /\ UNCHANGED <<account, tx, signing, paid, orphans, timers, chainVars>>

LeavePage ==
    /\ onPage
    /\ ForgetPage
    /\ UNCHANGED <<account, timers, cache, chainVars>>

\* A slip in JoinPage: its state is reset with the account.
ChangeAccountResets(a) ==
    /\ a # account
    /\ account' = a
    /\ IF onPage THEN Observe(a) ELSE UNCHANGED cache
    /\ tx' = "idle"
    /\ UNCHANGED <<onPage, signing, paid, orphans, timers, chainVars>>

\* WalletButton connects and disconnects, the wallet switches accounts; the state of
\* the page stays.
ChangeAccount(a) ==
    /\ a # account
    /\ account' = a
    /\ IF onPage THEN Observe(a) ELSE UNCHANGED cache
    /\ UNCHANGED <<pageVars, orphans, timers, chainVars>>

\* The tab is loaded again: autoConnect finds the account or does not.
Reload ==
    /\ account' \in {account, NoAccount}
    /\ ForgetPage
    /\ timers' = 0
    /\ cache' = [a \in Accounts |-> NoEntry]
    /\ UNCHANGED chainVars

\* The full node lists the new credential.
Index(a) ==
    /\ bonds[a] > 0
    /\ ~indexed[a]
    /\ indexed' = [indexed EXCEPT ![a] = TRUE]
    /\ UNCHANGED <<account, pageVars, orphans, timers, cache, bonds>>

Visitor ==
    \/ Register \/ OpenPage \/ LeavePage \/ Reload \/ Focus
    \/ \E a \in Accounts \cup {NoAccount} : ChangeAccount(a)

Machine ==
    \/ BondSucceeds \/ BondFails \/ Invalidate
    \/ \E a \in Accounts :
          FetchReads(a) \/ FetchAnswers(a) \/ OrphanDecided(a) \/ Index(a) \/ Collect(a)

Normal == Visitor \/ Machine
Next == Normal \/ \E a \in Accounts : FetchFails(a)

Spec == Init /\ [][Next]_vars

\* Timers fire, calls return and the node catches up.
Fairness ==
    /\ WF_vars(Invalidate)
    /\ \A a \in Accounts : WF_vars(FetchReads(a) \/ FetchAnswers(a)) /\ WF_vars(Index(a))

\* A visitor who keeps coming back to the window, and a node that stops failing.
AttentiveSpec == Spec /\ Fairness /\ WF_vars(Focus) /\ <>[][Normal]_vars

-----------------------------------------------------------------------------
\* A visit does not bond twice without having reported an error in between, however
\* long the credential takes to show and whatever the account is changed to
\* (JoinPage.tsx:82-100, 321).
SecondBondAfterErrorOnly == paid <= 1

\* The credential shown belongs to the account connected, also while answers about
\* another account are on their way (useKeeperStatus.ts:13-46).
ShownIsOwn == HasCred => bonds[account] > 0

\* A registered visitor who stays and comes back to the window sees the credential,
\* whatever the fetches did before (JoinPage.tsx:55-69).
CredentialSeen ==
    \A a \in Accounts :
        Observed /\ account = a /\ bonds[a] > 0 ~> HasCred \/ account # a \/ ~onPage
=============================================================================
