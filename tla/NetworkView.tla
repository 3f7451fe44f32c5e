---------------------------- MODULE NetworkView -----------------------------
(***************************************************************************)
(* dashboard/src/hooks/useNetworkData.ts and the components App gives its  *)
(* result to.  Every refresh reads the registry and the newest             *)
(* registrations, then drains both settlement event streams page by page,  *)
(* and puts what it read in the place of the state.  Refreshes are started *)
(* by mounting and by a timer that does not wait for the previous one, so  *)
(* several may be under way, each step between settlements of the keepers. *)
(*                                                                         *)
(* The event streams of the chain only grow, so what a refresh has drained *)
(* of a stream is the number of events it has.  The treasury and the       *)
(* reward per settlement are shown as read and left out; error is not      *)
(* shown by any component.                                                 *)
(***************************************************************************)
EXTENDS Integers, Sequences, FiniteSets

CONSTANTS
    Keepers,        \* addresses
    Legacy,         \* keepers registered before KeeperRegistered was emitted
    MaxRefreshes,   \* bound: refreshes under way at a time
    PageLimit,      \* settlement events per page (50)
    RegLimit,       \* registration events read (100)
    PAGE,           \* rows of the feed (20)
    MaxSettlements, \* bound: settlements on the chain
    MaxRegistrations, \* bound: KeeperRegistered events on the chain
    TimeOf          \* timestampMs of the n-th settlement

Kinds == {"binary", "range"}

ASSUME NetworkViewAssumption ==
    /\ Legacy \subseteq Keepers
    /\ {PageLimit, RegLimit, PAGE, MaxRefreshes} \subseteq Nat \ {0}
    /\ {MaxSettlements, MaxRegistrations} \subseteq Nat
    /\ TimeOf \in [1..MaxSettlements -> Nat]
    /\ \A m, n \in 1..MaxSettlements : m < n => TimeOf[m] <= TimeOf[n]

VARIABLES
    log,            \* settlement events of the chain, by kind, oldest first
    registrations,  \* keepers in the order of their KeeperRegistered events
    refresh,        \* the refreshes under way, in the order they were started
    view,           \* state of the hook
    loading         \* the same

chainVars == <<log, registrations>>
vars == <<chainVars, refresh, view, loading>>

Settlement == [keeper : Keepers, number : 1..MaxSettlements]
Lengths == [Kinds -> Nat]
Reads == {"registry", "registrations"}
NothingRead == [k \in Kinds |-> 0]

\* total: entries of both settlement tables; drained: events of each stream; known:
\* registrations on the chain when they were read.
Contents == [total : Nat, drained : Lengths, known : Nat]
\* todo: calls and drains not finished; overlapped: another refresh ended meanwhile.
Refresh == [phase : {"reads", "drains"}, todo : SUBSET (Reads \cup Kinds),
            got : Contents, overlapped : BOOLEAN]

NoContents == [total |-> 0, drained |-> NothingRead, known |-> 0]
Started == [phase |-> "reads", todo |-> Reads, got |-> NoContents, overlapped |-> FALSE]

Emitted(kind) == Len(log[kind])

\* Entries of both settlement tables of the registry.
Recorded == Emitted("binary") + Emitted("range")

\* What was read of the chain is a prefix of what is there.
IsOfChain(contents) ==
    /\ contents.total <= Recorded
    /\ \A k \in Kinds : contents.drained[k] <= Emitted(k)
    /\ contents.known <= Len(registrations)

\* Every variable has its type, and nothing is shown twice: what a refresh holds or
\* the hook shows is a prefix of each stream (useNetworkData.ts:67-82, 161).
TypeOK ==
    /\ log \in [Kinds -> Seq(Settlement)]
    /\ registrations \in Seq(Keepers)
    /\ refresh \in Seq(Refresh)
    /\ view \in Contents
    /\ loading \in BOOLEAN
    /\ IsOfChain(view)
    /\ \A r \in DOMAIN refresh : IsOfChain(refresh[r].got)

\* Mounting refreshes at once; StrictMode mounts twice in development.
Init ==
    /\ log = [k \in Kinds |-> <<>>]
    /\ registrations = <<>>
    /\ \E mounts \in {1, 2} : refresh = [r \in 1..mounts |-> Started]
    /\ view = NoContents
    /\ loading = TRUE

-----------------------------------------------------------------------------
(* The chain. *)

Listed(s) == {s[i] : i \in DOMAIN s}

Settle(kind, keeper) ==
    /\ Recorded < MaxSettlements
    /\ keeper \in Legacy \cup Listed(registrations)
    /\ log' = [log EXCEPT ![kind] =
                  Append(@, [keeper |-> keeper, number |-> Recorded + 1])]
    /\ UNCHANGED <<registrations, refresh, view, loading>>

Register(keeper) ==
    /\ Len(registrations) < MaxRegistrations
    /\ registrations' = Append(registrations, keeper)
    /\ UNCHANGED <<log, refresh, view, loading>>

-----------------------------------------------------------------------------
(* A refresh. *)

\* A slip in useNetworkData: the timer is cleared once there is data.
PollUntilLoaded ==
    /\ Len(refresh) < MaxRefreshes
    /\ loading
    /\ refresh' = Append(refresh, Started)
    /\ UNCHANGED <<chainVars, view, loading>>

\* The timer ticks whether or not refreshes are under way.
Poll ==
    /\ Len(refresh) < MaxRefreshes
    /\ refresh' = Append(refresh, Started)
    /\ UNCHANGED <<chainVars, view, loading>>

\* A call of the refresh x has returned: after the first two the drains begin.
After(x, call, got) ==
    LET todo == x.todo \ {call}
    IN [x EXCEPT !.got = got,
                 !.phase = IF todo = {} THEN "drains" ELSE @,
                 !.todo = IF todo = {} /\ x.phase = "reads" THEN Kinds ELSE todo]

Returned(r, call, got) == refresh' = [refresh EXCEPT ![r] = After(@, call, got)]

\* getObject of the registry: the sizes of its two tables.
ReadRegistry(r) ==
    /\ "registry" \in refresh[r].todo
    /\ Returned(r, "registry", [refresh[r].got EXCEPT !.total = Recorded])
    /\ UNCHANGED <<chainVars, view, loading>>

ReadRegistrations(r) ==
    /\ "registrations" \in refresh[r].todo
    /\ Returned(r, "registrations", [refresh[r].got EXCEPT !.known = Len(registrations)])
    /\ UNCHANGED <<chainVars, view, loading>>

\* One page of drainEvents, from the cursor on; a page that ends with the newest
\* event has no next one.
Drain(r, kind) ==
    /\ kind \in refresh[r].todo
    /\ LET from == refresh[r].got.drained[kind]
           more == from + PageLimit < Emitted(kind)
           got == [refresh[r].got EXCEPT
                      !.drained[kind] = IF more THEN from + PageLimit ELSE Emitted(kind)]
       IN IF more
          THEN refresh' = [refresh EXCEPT ![r].got = got]
          ELSE Returned(r, kind, got)
    /\ UNCHANGED <<chainVars, view, loading>>

\* The refresh r is over; the others go on.
Ended(r) ==
    refresh' = [q \in 1..(Len(refresh) - 1) |->
        [refresh[IF q < r THEN q ELSE q + 1] EXCEPT !.overlapped = TRUE]]

\* A slip in refresh: events are added to those of the state.
ShowAppended(r) ==
    /\ refresh[r].phase = "drains" /\ refresh[r].todo = {}
    /\ view' = [refresh[r].got EXCEPT
                   !.drained = [k \in Kinds |-> @[k] + view.drained[k]]]
    /\ loading' = FALSE
    /\ Ended(r)
    /\ UNCHANGED chainVars

\* A slip in refresh: the registry is read after the drains.
ShowWithNewCounts(r) ==
    /\ refresh[r].phase = "drains" /\ refresh[r].todo = {}
    /\ view' = [refresh[r].got EXCEPT !.total = Recorded]
    /\ loading' = FALSE
    /\ Ended(r)
    /\ UNCHANGED chainVars

\* setState replaces all that was shown.
Show(r) ==
    /\ refresh[r].phase = "drains" /\ refresh[r].todo = {}
    /\ view' = refresh[r].got
    /\ loading' = FALSE
    /\ Ended(r)
    /\ UNCHANGED chainVars

\* A slip in refresh: the catch block clears the state.
FailAndClear(r) ==
    /\ refresh[r].todo # {}
    /\ loading' = FALSE
    /\ view' = NoContents
    /\ Ended(r)
    /\ UNCHANGED chainVars

\* A call throws: what was shown stays.
Fail(r) ==
    /\ refresh[r].todo # {}
    /\ loading' = FALSE
    /\ Ended(r)
    /\ UNCHANGED <<chainVars, view>>

RefreshStep(r) ==
    \/ ReadRegistry(r) \/ ReadRegistrations(r)
    \/ \E kind \in Kinds : Drain(r, kind)
    \/ Show(r)

Chain == \E keeper \in Keepers : Register(keeper) \/ \E kind \in Kinds : Settle(kind, keeper)
Normal == Chain \/ Poll \/ \E r \in DOMAIN refresh : RefreshStep(r)
Next == Normal \/ \E r \in DOMAIN refresh : Fail(r)

\* The timer ticks and the calls of the oldest refresh return; the keepers owe nothing.
Fairness == WF_vars(Poll) /\ WF_vars(refresh # <<>> /\ RefreshStep(1))
CallsStopFailing == <>[][Normal]_vars

Spec == Init /\ [][Next]_vars
FairSpec == Spec /\ Fairness /\ CallsStopFailing

-----------------------------------------------------------------------------
(* What the components show. *)

\* The order of sort, which keeps that of events of the same time.
Before(s, i, j) ==
    \/ TimeOf[s[i].number] > TimeOf[s[j].number]
    \/ TimeOf[s[i].number] = TimeOf[s[j].number] /\ i < j

\* The n-th row is the event before which n - 1 others are.
Sorted(s) ==
    [n \in DOMAIN s |->
        s[CHOOSE i \in DOMAIN s : Cardinality({j \in DOMAIN s : Before(s, j, i)}) = n - 1]]

Shown(kind) == SubSeq(log[kind], 1, view.drained[kind])

\* A slip in refresh: the two streams are concatenated and left in that order.
EventsUnsorted == Shown("binary") \o Shown("range")

\* Both streams together, newest first.
Events == Sorted(Shown("binary") \o Shown("range"))

\* SettlementsPage lists all events.
SettlementsPage == IF loading THEN <<>> ELSE Events

\* SettlementFeed lists the first PAGE.
SettlementFeed == SubSeq(SettlementsPage, 1, IF PAGE < Len(SettlementsPage) THEN PAGE ELSE Len(SettlementsPage))

\* The registrations of the page that was read.
NewestRegistrations ==
    {registrations[i] : i \in {j \in 1..view.known : view.known - j < RegLimit}}

\* Everybody seen settling or registering.
ActiveKeepers == {e.keeper : e \in Listed(Events)} \cup NewestRegistrations

\* KeeperTable has a row for each of them.
KeeperTable == IF loading THEN {} ELSE ActiveKeepers

\* The total of StatCards, a placeholder at first.
TotalSettlements == IF loading THEN 0 ELSE view.total

-----------------------------------------------------------------------------
\* The total of StatCards is never ahead of the events shown beside it: the
\* registry is read before the streams (useNetworkData.ts:55-103).
TotalNotAhead == view.total <= view.drained["binary"] + view.drained["range"]

\* A settlement the total counts is missing from the feed only when the feed is full
\* of settlements no older, of whichever stream (useNetworkData.ts:89-91,
\* SettlementFeed.tsx:71).
FeedHasNewest ==
    \A n \in 1..TotalSettlements :
        LET rows == Listed(SettlementFeed)
        IN \/ \E row \in rows : row.number = n
           \/ /\ Cardinality(rows) = PAGE
              /\ \A row \in rows : TimeOf[row.number] >= TimeOf[n]

\* What was shown stays: a settlement disappears only when a refresh ends during
\* which another one ended, a keeper only then or when more keepers have registered
\* than one page holds (useNetworkData.ts:161-173).
NothingVanishes ==
    [][\/ \E r \in DOMAIN refresh : refresh[r].overlapped /\ Ended(r)
       \/ /\ \A k \in Kinds : view.drained[k] <= view'.drained[k]
          /\ KeeperTable \subseteq KeeperTable' \/ Len(registrations) > RegLimit]_vars

\* When the keepers pause, the view becomes complete and stays so, however calls
\* failed and refreshes overlapped before (useNetworkData.ts:161-173).
CompleteInTheEnd ==
    <>[](~loading /\ view.drained = [k \in Kinds |-> Emitted(k)])
=============================================================================
