# A TLA+ model of the Pharos keeper network

Pharos settles expired DeepBook Predict positions. Move contracts on Sui record
who settled what and pay for it; Go processes ("keepers") find expired
positions, race for them and submit the settlement transactions; a dashboard
shows the result, a page of it registers new keepers, and a script stages
positions for demonstrations. This directory models all of them, checks the
models with TLC on small instances, and proves with TLAPS, for every instance,
all safety properties the passing runs check. Paths below are relative to the
repository (`src/` in `PROJECT.json`).

## 1. Inventory

| component | source | state | operations | interacts with |
|---|---|---|---|---|
| registry contract | `move/sources/registry.move` | two settlement tables, reward, treasury; emits events | record_settlement, record_range_settlement, fund, withdraw, set_reward | called by the keepers' transactions; reads and updates the credential |
| keeper credential | `move/sources/credential.move` | one owned object per registration: bond, jobs, activation time | register, unbond, assert_active, increment_jobs | registry |
| tip registry | `move/sources/tip_registry.move` | preferences, default policy | opt_in, opt_out, two setters | nobody yet |
| indexer | `internal/indexer/indexer.go` | in-memory cursor and page; `positions`, `range_positions`, `event_cursors` | drainHistory, poll, processPage | Sui RPC, store |
| store | `internal/store/store.go` | PostgreSQL tables, shared by all processes of an operator | one SQL statement per operation | indexer, protocol, settler, reaper |
| scanner, bridge | `internal/scanner`, `internal/engine` | unbuffered channel | list redeemable positions every 5 s, publish each | protocol, queue |
| queue | `internal/queue/kafka.go` | one Kafka topic, one partition, one group | Publish, Consume (commit on hand-over) | bridge, settler |
| settler | `internal/settler/settler.go` | five goroutines | check, claim, Settle, report | store, protocol |
| deepbook protocol | `internal/protocols/deepbook` | `settleMu`, cache of table ids | FetchMarkets, prechecks, Settle | Sui RPC, chain, store |
| reaper | `internal/engine/engine.go` | ticker of 2 minutes | ReclaimStale | store |
| network dashboard | `dashboard/src`: `useNetworkData.ts`, `App`, `SettlementFeed`, `SettlementsPage`, `KeeperTable`, `StatCards` | last fetched view; refreshes under way | refresh every 30 s, whether or not the last one is over | Sui RPC (reads) |
| registration page | `dashboard/src`: `JoinPage`, `useKeeperStatus.ts`, `WalletButton`, `Header`, `main` | account, state of the bond transaction, query cache | connect, bond, leave, reload | wallet, Sui RPC, credential |
| demo script | `scripts/demo-mint.ts` | listed coins, next position | mint UP, DOWN and a range | Sui RPC, the coins of one address |
| presentation | `HeroCanvas`, `LighthouseSVG`, `HowItWorks`, `RegisterFlow` (imported nowhere) | none that matters | | |
| other scripts | `scripts/list-markets.ts`, `setup.sh` | none | print, ask and write a file | |

What is hard here is that one position is the concern of many actors: workers
of one process (one mutex, one credential, one gas coin), processes of one
operator (one database, one topic), rival operators (only the chain in common)
and the position's owner. Between any two calls of a worker the others may act,
calls may fail or time out and still have their effect later, a claim may be
reclaimed, and a process may crash. For each component correctness means:

* contracts: credit once per position, to a keeper with an active credential,
  with events, tables, job counters and coins in agreement;
* store and settler: the claim is a lock, a settled row is final and says the
  truth about the chain, and every position is settled in the end;
* protocol: nobody is credited without redeeming, and the references in a block
  are current;
* indexer: no event is skipped, and which events can be counted again is known;
* dashboard: numbers and lists read by different calls agree, nothing vanishes,
  and what is shown becomes complete;
* registration page: no bond is paid twice unnoticed, no foreign credential is
  shown, and the own one appears;
* demo script: it mints what it says and pays what it mints, or stops.

## 2. Modules

`WriteOnceTable` and `SettlementLedger` are abstract specifications: a table
whose entries are never changed, and the promise of the network as the chain
sees it (one credit per position, never without redeeming a part of it).

`KeeperCredential`, `KeeperRegistry`: the contracts. A Move call is atomic, so
each entry function is one action and an abort is a disabled action. The fields
of a deleted credential are kept so that properties can speak of jobs done with
it. Coins are counted in small units; the wallets of all addresses are state,
so that coins are conserved. `KeeperRegistry` implements `WriteOnceTable` with
the two tables read as one.

`Positions` (constants), `MarketStore` (the `markets` table, one operator per
SQL statement), `PredictChain` (remaining quantities, credits, blocks of
unknown fate) are composed by `Settler`: scanner, queue, workers, the protocol's
`Settle`, reaper, rivals, owners, failures. A worker's program counter follows
the code:

| `pc` | code |
|---|---|
| `idle` | worker loop of `settler.Start` |
| `check` | `IsSettled` |
| `claim` | `MarkInFlight` |
| `precheck` | `onChainQty` / `onChainRangeQty` |
| `lock` | `settleMu.Lock` |
| `build` | object versions, credential and gas references, the block |
| `execute` | `tx.Execute` and the classification of its outcome |
| `report` | the switch on the error in `settle` |

The two contract steps of a block are one atomic action of `PredictChain`
(`ExecutePTB`): step 2 aborts when the position holds less than asked, step 3
when the registry has an entry. A block names versions of the credential and of
the gas coin; a block of the same keeper executed in between makes it invalid
(`credFresh`), and consumes the inputs of blocks still pending. `updated_at` is
reduced to one bit, `stale`; a claim may become stale at any time, with or
without a live worker, so the settlement model is right for every timeout.
`FetchMarkets` lists an oracle until 48 hours after its expiry: a market of
`MayAge` may leave that window at any moment (`Age`), and is neither listed nor
skipped as out of range from then on.

`ClaimTiming` asks the question that bit leaves open: can a claim get old
while its worker lives? It models only the deadlines (5 s precheck, 30 s
`Settle`, 120 s reaper), the mutex with the normal and starvation modes of
`sync.Mutex`, and the reapers of all processes, in units of ten seconds.
`MarkInFlight`, `MarkSettled` and `MarkFailed` run under the context of the
process and have no deadline, so the age of a claim has two parts: `worked`, the
time of the precheck, the queue and `Settle`, and `stalled`, the time in the
database, which the code bounds nowhere.

`Indexer`: both event streams, the positions tables as the number of times each
event was added, the cursors, any number of processes, each call separately
failing, restarts at any point.

`NetworkView`: the refreshes of `useNetworkData` and what the components make of
the result. An event stream only grows, so what a refresh has drained of it is a
number; `refresh` is the sequence of refreshes under way, oldest first, each with
the calls still to return. The two first calls are concurrent, then both streams
are drained concurrently page by page; `Show` replaces the whole state, `Fail`
leaves it. `Settle` and `Register` stand for the contracts' events, one registry
entry with each settlement event as `EventsMatchTables` has it.

`JoinFlow`: the visitor (connects, switches accounts, presses the button, leaves,
reloads, comes back to the window), the wallet, the query cache of
`@tanstack/react-query` with one entry per owner, and a full node that lists a
new credential some time after its transaction. A transaction of a page that was
left goes on (`orphans`) without its callbacks; the timer of `onSuccess` goes on
as well (`timers`). `onSuccess` comes with a digest, whatever the effects of the
transaction; `onError` comes when the wallet refuses, and also when only the
answer is lost.

`DemoMint`: runs of `demo-mint.ts` that share the coins of an address. A
transaction merges the coins listed before, splits off the quantity and leaves
the rest; it fails when a listed coin is gone, because the node that listed it is
behind or another run was faster. All three calls of `getDusdc` may be answered
by a node that is behind (`known`, the wallet as the slowest node knows it), the
one of the balance check included.

`MC*` modules give the constants of the instances. `*Proofs` hold the theorems.
An operator whose comment calls it "a slip" is a faulty variant of the
definition that follows it, named in `PROJECT.json` beside the property that
must notice it.

## 3. Runs

| run | instance | what it shows |
|---|---|---|
| `registry` | 2 keepers and the admin, 2 credentials, 3 positions, bonds of 2, rewards 0 to 2 | type invariant; events match tables; credit only after activation; jobs equal settlements over all credentials of a keeper; coins conserved; tables write-once |
| `race` | 2 processes of one worker, a rival, the owner, one range position of quantity 2, indexed quantity 1 or 3 | the claim excludes, settled rows are final, `tx_hash` is true, a settlement empties the position, the ledger is implemented, under every fault |
| `live` | 1 process, 2 workers, 2 positions of which one may leave the listing window and one is out of range | the mutex keeps references current, also where two workers meet in the section because a live claim was reclaimed; every position ends settled or leaves the window first, and then no claim on it is left behind |
| `redeemed` | as `race`, binary position | violation: see below |
| `latecomer` | as `race`, binary position | violation: see below |
| `indexer` | 1 process, pages of 2, up to 3 binary events and 1 range event | cursor never skips; what is counted again; every event is handled |
| `indexer_counts` | 1 process, nothing fails | violation: see below |
| `timing_two` | 2 workers, the limits of the code in units of ten seconds, rounded up, up to 4 units in the database | a live claim is reclaimed only if the database kept its worker for more than what the limits leave |
| `timing_five` | 5 workers, precheck of no duration | violation: see below |
| `network` | 2 refreshes at a time, 2 settlements, 1 registration and a keeper without one, pages and feed of 1 | the total is never ahead of the events; the feed holds the newest; nothing vanishes except when refreshes overlap; the view becomes complete |
| `join` | 2 accounts of which one can pay for 2 bonds, 1 transaction left behind per account, 2 timers | no second bond in a visit without an error; the credential shown is the account's; an attentive visitor sees it |
| `mint` | 2 runs, 3 coins of 0, 1 or 6, positions of 2, pages of 2 coins, 2 prices | order and completeness of what is minted; the balance checked suffices; each position costs its quantity; the price is in the band |

Bounds and why they are enough. Quantity 2 distinguishes whole, part and none;
an indexed quantity of 1 or 3 is too little or too much for it. Two
processes are the smallest number that race; workers of one process differ from
processes only in sharing mutex and credential, which `live` covers.
`MaxPending` is 1: a second block of unknown fate belongs to another keeper or
would be invalidated by the first, and exploration of `race` without the bound
found nothing else. Nothing leaves the listing window in `race`: leaving it only
takes the market out of what is published, and `race` may stop publishing at any
time anyway. Two clock values, one activation delay and two credentials
let a keeper register, activate, work, unbond and register again. Pages of two
and three events give a full page followed by a last page. Counts of an event
are told apart up to 2. Several indexers at once are not in a run: the theorem
`NothingSkipped` is about any number of them.

Two refreshes are the smallest number that overlaps. With pages and a feed of one
event the second settlement makes a second page and fills the feed, and two
settlements can be of one stream or of both. One account of `join` can bond
twice, the other not at all, so its transactions fail; two timers come from two
successes of one visitor. In `mint` a coin of 1 does not pay for a position of
2 and one of 6 pays for three, the three coins need two pages, and the prices lie
on both sides of the rounding, one of them with a band below the lowest strike.
With two units left by the limits of `timing_two`, three units in the database
can cost a live claim and two cannot; the bound of four on that time lets both
happen (`ReapedWereStalled` with one unit more is violated).

A position in `live` has no fallback quantity: a precheck that fails with a
wrong quantity is a matter of the safety runs.

Deadlock is not checked where the system may really stop: when nothing is left
to settle, in the registry when the bounded clock and supply are used up, in the
dashboard when the bounded refreshes cannot start, in the script when nobody runs
it again.

### Divergences shown by runs

* `indexer_counts`: `drainHistory` breaks out of its loop before it saves the
  cursor of the last page, so the first poll adds that page again, without any
  failure. Quantities in the database are then too large, which is harmless only
  while the precheck can read the chain.
* `redeemed`: when the precheck cannot read the chain, the quantity of the
  database is redeemed; if it is too large, the redemption aborts with the code
  that is read as "already redeemed", and the row is settled for good with the
  position untouched. Likewise when the owner redeemed a part.
* `timing_five`: with five workers a claim can be 150 s old before its worker is
  done, and the reaper takes claims after 120 s. Plain queueing suffices: four
  workers ahead in the mutex, 30 s each. TLC's shortest trace uses four workers
  and one overtaking in the mutex. No time in the database is needed
  (`MaxStalled` is 0). Consequences are bounded by what `race` shows under
  reclaimed claims: the chain stays right, the row may go back from settled to
  failed.
* `latecomer`: the registry's `EAlreadySettled` is not what a late keeper sees
  as a rule, since the redemption in front of it aborts first.

### Divergences seen while modelling, without a run

* Fewer workers do not make `engine.go:73` true: a `MarkSettled` that hangs keeps
  the row of a live worker `in_flight` for any time, and the reaper of another
  process takes it. With two workers 25 s in the database are needed for that
  (`ReapedWereStalled`), with three none.
* `useNetworkData.ts:25` says `registered` is false for a keeper inferred from
  settlements; lines 155-157 set it to true for every one of them.
* `StatCards.tsx:50` and `App.tsx:103` call every address that ever settled or
  registered an active keeper, "nodes running", also after it unbonded.
* `App.tsx` shows no `error`: after a failed first refresh the feed reads "No
  settlements recorded yet".
* `JoinPage.tsx:457` says the address appears "once you win your first
  settlement"; `useNetworkData.ts:134-151` lists it once it has registered.
* `JoinPage` waits for the credential with a single invalidation two seconds
  after the bond (`JoinPage.tsx:95`). If the node lists it later, or the fetch
  fails, the page goes on saying "loading credential…" (line 310) until the
  window is focused or the page opened again.
* The state of the bond belongs to the page, not to the account: after a success
  of one account the button stays disabled for every other (line 321), until the
  page is left. After leaving the page, or after an error that hides a known
  credential (`useKeeperStatus.ts:27`), the button can be pressed for a second
  bond.
* `demo-mint.ts:2-3` announces one UP and one DOWN position; a range position
  follows (lines 276-278). The binary strike is kept above the lowest strike of
  the oracle (line 223), the band is not (230). `getCoins` (line 62) reads one
  page only, so more coins than that may look like too little. Run again after a
  lost answer, the script may pass its check (line 246) on a list that still has
  the coins spent before, mint UP and DOWN and stop for want of DUSDC at the
  range position.

### Exceptions inside the properties

`ClaimExclusive` and `SettledIsFinal` exclude markets reclaimed from a live
worker (history variable `reaped`), as `MarkSettled` and `MarkFailed` do not look
at the status. `HashTellsTruth` and `SettlementEmptiesPosition` exclude
positions whose precheck failed open (`failedOpen`). Both exceptions are needed:
without them TLC finds the violations described above.

`EveryMarketSettles` ends for a market that left the listing window: what is
unsettled then stays so, but is not left claimed. `NothingVanishes` excludes the
end of a refresh during which another one ended (`overlapped`): the older
refresh then replaces what a younger one has shown, as `setInterval` does not
wait. `SecondBondAfterErrorOnly` counts the bonds of one visit (`paid`) since the
page last reported an error; what a page that was left has paid is forgotten
with it. `CheckedBalanceSuffices` excludes runs that were `disturbed`: their check
counted more than there was, or another run has spent since. Without the first
part TLC finds the run that stops at the range position, without the second the
one that another run outpaces.

## 4. Fairness

* `live`: listing and reaping are driven by tickers (weak fairness), a message is
  in the end received (strong fairness of delivery: the topic is one partition,
  read in order), workers go on with their calls (weak fairness), and the mutex
  goes to the longest waiter in the end (strong fairness, `sync.Mutex` in
  starvation mode). Faults (failed calls, crashes, live claims getting old) stop
  eventually. A market may leave the listing window before, during or after.
* `indexer`: each process keeps taking steps (ticker, returning calls), and
  faults stop eventually.
* `network`: the interval timer ticks, the calls of the oldest refresh return
  (weak fairness), and calls stop failing eventually. Younger refreshes may take
  as long as they like while an older one is under way.
* `join`: timers fire, fetches return, the node lists a credential in the end
  (weak fairness), fetches stop failing, and the visitor comes back to the
  window again and again. The last is an assumption about the visitor, not about
  the code: without it the credential may never appear (see above).

No fairness is assumed of rivals, owners, late blocks, new mints, keepers that
settle while the dashboard looks, or of the wallet.

## 5. Proofs

Every safety invariant and every action property that the passing runs check is
proved for all values of the constants that meet the assumptions of its module.
One has a hypothesis more: `SavedIsNotCountedAgain` a single process. Liveness
is model-checked.

`SumTheorems`: sums of a function over a finite set (`SumFunctionOnSet` of the
community modules, a recursive function on the subsets). Library theorems on
recursion and induction take operators as parameters, so the equation of the sum
is proved from scratch: two solutions of the recursion agree, and one exists,
because a subset on which this failed could be taken minimal (`MinimalSubset`)
and its first element removed. From there follow `SumRemove`, `SumChange` (one
value of the function changes), `SumSplit` and the others, all by minimal sets.
Sums and counts are why `Keepers`, `CredentialIds`, `Keys`, `Coins` and, in
`ClaimTiming`, `Workers` are assumed finite: addresses and object ids have 32
bytes, the coins of a wallet and the goroutines of a process are enumerated.

`KeeperRegistryProofs`, for all finite sets of keepers, credentials and positions:

* `TypeCorrect`: `TypeOK` is inductive; the guards of `withdraw_treasury` and of
  the reward keep the balances natural numbers.
* `EventsMatch`: `TypeOK` and `EventsMatchTables` together are inductive. An
  action either leaves tables and events alone (`TablesUnchanged`) or records one
  key that had no entry (`Recorded`); the second case is proved once for both
  entry functions.
* `CreditedAfterActivation`: needs that a credential not yet issued is blank, with
  no bond and no jobs (`UnusedIsBlank`), and that registered credentials keep
  keeper and activation time (`CredentialKept`).
* `WriteOnce`: every step records one new key or stutters in `WriteOnceTable`.
* `SuiIsConserved` (`SuiConserved`), inductive with `UnusedIsBlank`: each action
  moves an amount between two of the three parts of `Supply`; a registration
  puts its bond on a blank credential, which held none.
* `JobsMatch` (`JobsMatchSettlements`): a recorded key adds one to the settlements
  of its keeper and one to the jobs of one credential of that keeper
  (`RecordingCounts`); a registration adds a credential without jobs to the
  keeper's (`RegisteringCounts`); unbonding keeps jobs and keeper.

`SettlerProofs`, for any processes, workers, markets and quantities:

* `TypeCorrect`: one step per action; `Verdict` keeps quantities from becoming
  negative.
* `LedgerImplemented`: the refinement of `SettlementLedger`. The inductive
  invariant adds that a worker between precheck and the end of `execute`, and a
  pending block, carry a positive quantity (`QuantityPositive`): without it a
  block that redeems nothing could be credited. It holds because `Settle`
  returns before the mutex when the quantity is zero. `StepKeeps` sorts the
  steps: all but a precheck and an unanswered submission leave what workers and
  pending blocks carry as it is (`Kept`); the other invariants about quantities
  use it too.
* `ClaimIsLock`: `ClaimExclusive` is inductive together with `TypeOK`. A step
  either adds no holder and releases no row under one (`NobodyNew`), or is a won
  claim, and then the row was claimable, so by the invariant nobody held it. The
  reaper is the only step that releases a row under its holder, and it puts the
  market into `reaped`.
* `SettledStays`: `MarkFailed` overwrites whatever it finds; it cannot find
  `settled`, because the reporting worker holds the market and its row is
  `in_flight` by `ClaimExclusive`.
* `SettledWhole` (`SettlementEmptiesPosition`): quantities only shrink, credits
  are written once, and failed prechecks are remembered (`OneWay`, which follows
  from the ledger). Hence `Carried`: unless the precheck failed open, a worker or
  pending block carries at least what remains and at most what was minted. A
  block that succeeds asks for no more than remains, so nothing is left.
* `HashesTellTruth` (`HashTellsTruth`): a worker's result is true when `Settle`
  returns it (`ResultsTrue`) and stays true as each of the facts is one way;
  therefore it does not matter how late it is reported, or whether the claim was
  reclaimed meanwhile. "Already redeemed" needs the upper bound of `Carried`: a
  block refused for asking too much shows that somebody redeemed a part only if
  it did not ask for more than was minted.
* `ReferencesFresh` (`ReferencesStayFresh`): of the workers of a process at most
  one is between `Lock` and `Unlock` (`OneSubmits`, since `Lock` sees nobody
  inside). A worker whose references go stale in `execute` without leaving it
  is that one, so the block that outdated them was nobody's in progress: it was
  pending, and of the same keeper.

`ClaimTimingProofs`, for any number N of workers, any limit P of the precheck and
S of `Settle`:

* `TypeCorrect`, as above.
* `ClaimAge` (`AgeBounded`): not counting the time in the database, no claim gets
  older than P + (N + 1) S. The invariant adds each waiter's age to what is ahead
  of it in the mutex: the rest of the holder's turn, a turn for each waiter before
  it, and one turn of a worker that overtakes, until starvation mode forbids that
  (`Aged`, over `Queued`: queue, holder and phases agree). When a worker parks,
  the waiters before it and the holder are others (`WaitersFit`, a count of
  workers).
* `ReapedStalled` (`ReapedWereStalled`): so the reaper takes the claim of a worker
  still at work only if the database kept that worker for longer than the limit
  leaves beside P + (N + 1) S, and what a lost claim has spent there only grows
  (`LostStep`). With 5 s, 30 s and 120 s two workers have 25 s for their calls of
  the database; three need 125 s and the five of `main` 185 s without any, so
  that the theorem says nothing about them.

`IndexerProofs`, for any number of processes, events and page sizes:

* `TypeCorrect`, as above.
* `NothingSkipped` (`CursorNeverSkips`): a saved cursor is a process's position
  in memory, so the invariant adds the same promise about that (`Place`): every
  event up to the cursor in memory, and on the page being processed every event
  before the next one, is handled. Processes only ever add handled events, so
  what holds for one survives the steps of the others and their overwriting of
  the cursor.
* `SavedNotCountedAgain` (`SavedIsNotCountedAgain`), for a process alone: in a
  pass that found a cursor, what it queries, adds and saves lies beyond the saved
  one (`Beyond`). With a second process this is false, since that one moves the
  cursor under the first, and the theorem says so in its hypothesis (`Alone`).

`NetworkViewProofs`, for any keepers, page sizes and number of refreshes:

* `TypeCorrect`: what refreshes hold and the hook shows are prefixes of the
  streams (`IsOfChain`); streams only grow.
* `TotalBehind` (`TotalNotAhead`): the total is read at one moment and each
  stream at a later one. The invariant splits the total of a refresh into a part
  per stream that the stream had at that moment (`Sound`); a drain that ends
  afterwards has covered its part.
* `FeedShowsNewest` (`FeedHasNewest`): settlements are numbered without gaps and
  each is in one stream, once (`Numbered`); a stream that was drained to its end
  has every settlement the total counts (`Complete`, and `Has` of what is shown).
  `Sorted` is written by rank, since `SortSeq` says nothing about events of the
  same time, which `sort` leaves in their order. `Before` is a strict order of
  the places, so the ranks of n events are n different numbers and by counting
  each is taken (`PlacesTaken`, `SortedRows`): sorting loses no event, and one
  that is not among the first `PAGE` has that many before it, all at least as
  new (`InvFeeds`).
* `ShownStays` (`NothingVanishes`): a refresh that no other one ended beside has
  read at least what is shown (`Newer`), as all of that was read before it began;
  then the keeper table only grows too (`TableGrows`), but for registrations
  pushed off their page.

`JoinFlowProofs`, for any accounts and bonds:

* `TypeCorrect`, as above.
* `NoSecondBond` (`SecondBondAfterErrorOnly`): a visit has paid only when the page
  says success (`PaidWhenSuccess`), and from there no step leads back to the
  button but leaving the page.
* `ShownOwn` (`ShownIsOwn`): a credential in the cache or on its way there is one
  the node lists for that owner (`CacheTrue`); the key holds the owner.

`DemoMintProofs`, for any runs, finite set of coins, page size and prices:

* `TypeCorrect`; `NoneTwice` (`StagedInOrder`): what a run has minted is the part
  of the three kinds before the next one, and with it only where the run cannot
  go on.
* `PriceInBand` (`SpotInBand`): rounding to the nearest thousand moves a price by
  less than 500 down and at most 500 up (`BandAroundPrice`).
* `PositionsPaid` (`PaidExactly`): a transaction empties the coins listed into the
  first of them, less the quantity (`MergedCoins`, `TransactionCosts`).
* `ThreeSuffice` (`CheckedBalanceSuffices`): one page is listed, and a transaction
  leaves only its first coin, with the lowest place; so every coin after it moves
  up and nothing that was on the page falls off (`PageKept`, `PageFalls`). While
  nobody disturbed a run, the page therefore holds what it still has to mint
  (`EnoughLeft`). An old list does not hold too little either: the coins of a
  transaction are on the page, so the page held a quantity before each one
  (`PageAffords`), and an old list is such a page (`Seen`).

Only model-checked: the four liveness properties, `EveryMarketSettles`,
`EveryEventHandled`, `CompleteInTheEnd` and `CredentialSeen`, since the prover
does not reason about fairness and `ENABLED`; and the violations, which are
statements the code does not keep.

Assumptions behind the models: each process signs with its own address,
credential and gas coin; its credential is active; rivals redeem a quantity
that the position holds; `predict_manager` aborts with code 1 exactly when asked
for more than the position holds, and `redeem_range` agrees with the range test
of `FetchMarkets`; nothing is minted on an oracle that has settled; RPC
answers, when they come, are current (in the settlement model; the node of
`JoinFlow` and `DemoMint` may be behind), and an error object in the answer to a
precheck means that the field is not there. A transaction of `demo-mint.ts` that
is executed at all is executed before the script that submitted it ends. In
`ClaimTiming` a call with a deadline returns when the deadline has come, a worker
takes no time between its calls, and the clocks of keepers and database run
alike. Event streams are read in the order they were written, and a page that
reaches the newest event has no next one.
React applies the updates of a callback together; the query cache behaves as
react-query documents it: one entry per key, a fetch on mounting, focus and
invalidation of what is looked at, the last fetch wins, data survive errors.

## 6. Not modelled

* Settlement path: texts of errors and JSON (abstracted to their class), object-id
  and type-tag handling, the cache of table ids (ids never change), integer widths
  of the tables, the wiring of `main`.
* The unbuffered channel between scanner and bridge, Kafka's partitions, groups and
  offsets, and shutdown: the model delivers any published message at any later
  time, several times or, in a crash, not at all, which includes what they do. The
  in-memory queue is not wired.
* The tip registry: four setters that no other part reads.
* Dashboard: jobs, earnings, ranks, treasury and reward, which are shown as read;
  texts and layout; the animation and the drawing; `RegisterFlow.tsx`, which
  nothing imports; the copy buttons. Unbonding is not offered by the page.
* Demo script: the manager, reused or created, and the fields of an oracle but its
  lowest strike. `list-markets.ts` and `setup.sh` are pure I/O.

## 7. Plan

1. Done: contracts, settlement path with the listing window, claim timing,
   indexer, dashboard, registration page, demo script; proofs of every safety
   invariant and action property the passing runs check.
2. The classification of a block's outcome as an operator checked against the
   codes the contracts abort with; the composition of `ExecutePTB` with the
   contracts (credential inactive or unbonded, treasury payment in the same block).
3. The topic with offsets and group hand-over, with the abstract promise that a
   listed market is delivered at least once while it is listed; `TipRegistry`.
