------------------------------ MODULE Indexer -------------------------------
(***************************************************************************)
(* internal/indexer/indexer.go with the positions and event_cursors tables *)
(* of store.go: two event streams of the chain, one per position type, are *)
(* read page by page and added to the positions, and the place reached is  *)
(* saved as a cursor.  A page, its upserts and its cursor are separate     *)
(* calls; a process may stop between any two of them.                      *)
(*                                                                         *)
(* Events of a type are numbered from 1 in chain order; a cursor is the    *)
(* number of the last event it covers, 0 when there is none.               *)
(***************************************************************************)
EXTENDS Naturals

CONSTANTS
    Processes,  \* keeper processes that share the database
    PageLimit,  \* events per page
    MaxEvents,  \* bound: events of a type ever emitted
    MaxEmitted, \* bound: the same, for each type
    MaxCount    \* bound: additions of one event told apart

Types == {"binary", "range"}
Numbers == 1..MaxEvents

ASSUME IndexerAssumption ==
    /\ PageLimit \in Nat \ {0}
    /\ MaxEvents \in Nat
    /\ MaxEmitted \in [Types -> 0..MaxEvents]
    /\ MaxCount \in Nat \ {0}

VARIABLES
    emitted,    \* events of each type on the chain
    cursor,     \* event_cursors
    counted,    \* times each event was added to positions or range_positions
    refused,    \* events that could not be parsed, converted or stored
    step,       \* where each process is
    mode,       \* drainHistory or poll
    stream,     \* the event type being read
    at,         \* the in-memory cursor
    next,       \* next event of the page to store
    last,       \* last event of the page
    more,       \* page.HasNextPage
    fromStart   \* the pass began without a cursor

tableVars == <<cursor, counted, refused>>
pageVars == <<at, next, last, more>>
vars == <<emitted, tableVars, step, mode, stream, pageVars, fromStart>>

\* Every variable has its type.
TypeOK ==
    /\ emitted \in [Types -> 0..MaxEvents]
    /\ cursor \in [Types -> 0..MaxEvents]
    /\ counted \in [Types -> [Numbers -> 0..MaxCount]]
    /\ refused \in [Types -> SUBSET Numbers]
    /\ step \in [Processes -> {"count", "wait", "cursor", "query", "upsert", "save"}]
    /\ mode \in [Processes -> {"drain", "poll"}]
    /\ stream \in [Processes -> Types]
    /\ at \in [Processes -> 0..MaxEvents]
    /\ next \in [Processes -> 0..(MaxEvents + 1)]
    /\ last \in [Processes -> 0..MaxEvents]
    /\ more \in [Processes -> BOOLEAN]
    /\ fromStart \in [Processes -> BOOLEAN]

Init ==
    /\ emitted \in [Types -> 0..MaxEvents]
    /\ \A t \in Types : emitted[t] <= MaxEmitted[t]
    /\ cursor = [t \in Types |-> 0]
    /\ counted = [t \in Types |-> [e \in Numbers |-> 0]]
    /\ refused = [t \in Types |-> {}]
    /\ step = [p \in Processes |-> "count"]
    /\ mode = [p \in Processes |-> "poll"]
    /\ stream = [p \in Processes |-> "binary"]
    /\ at = [p \in Processes |-> 0]
    /\ next = [p \in Processes |-> 0]
    /\ last = [p \in Processes |-> 0]
    /\ more = [p \in Processes |-> FALSE]
    /\ fromStart = [p \in Processes |-> FALSE]

-----------------------------------------------------------------------------
Goto(p, s) == step' = [step EXCEPT ![p] = s]

ForgetPage(p) ==
    /\ at' = [at EXCEPT ![p] = 0]
    /\ next' = [next EXCEPT ![p] = 0]
    /\ last' = [last EXCEPT ![p] = 0]
    /\ more' = [more EXCEPT ![p] = FALSE]

\* Between passes a process remembers nothing.
Rest(p, s) ==
    /\ Goto(p, s)
    /\ mode' = [mode EXCEPT ![p] = "poll"]
    /\ stream' = [stream EXCEPT ![p] = "binary"]
    /\ fromStart' = [fromStart EXCEPT ![p] = FALSE]
    /\ ForgetPage(p)

\* Start a pass over the stream t: a drain without a cursor, a poll by reading it.
BeginPass(p, md, t) ==
    /\ mode' = [mode EXCEPT ![p] = md]
    /\ stream' = [stream EXCEPT ![p] = t]
    /\ Goto(p, IF md = "drain" THEN "query" ELSE "cursor")
    /\ fromStart' = [fromStart EXCEPT ![p] = md = "drain"]
    /\ ForgetPage(p)

\* A slip in Run: ranges are never polled.
EndPassBinaryOnly(p) == Rest(p, "wait")

\* The pass over a stream ends, finished or on an error: range follows binary, and
\* after range the process waits for the ticker.
EndPass(p) ==
    IF stream[p] = "binary" THEN BeginPass(p, mode[p], "range") ELSE Rest(p, "wait")

\* PositionCount counts the binary positions only.
PositionCount == {e \in Numbers : counted["binary"][e] > 0}

Bootstrap(p) ==
    /\ step[p] = "count"
    /\ IF PositionCount = {}
       THEN BeginPass(p, "drain", "binary")
       ELSE Rest(p, "wait")
    /\ UNCHANGED <<emitted, tableVars>>

Tick(p) ==
    /\ step[p] = "wait"
    /\ BeginPass(p, "poll", "binary")
    /\ UNCHANGED <<emitted, tableVars>>

StartAt(p, c) ==
    /\ step[p] = "cursor"
    /\ at' = [at EXCEPT ![p] = c]
    /\ fromStart' = [fromStart EXCEPT ![p] = c = 0]
    /\ Goto(p, "query")
    /\ UNCHANGED <<emitted, tableVars, mode, stream, next, last, more>>

GetCursor(p) == StartAt(p, cursor[stream[p]])

\* A slip in queryEvents: the cursor is taken for the first event wanted.
QueryInclusive(p) ==
    /\ step[p] = "query"
    /\ LET n == emitted[stream[p]]
           end == IF at[p] + PageLimit < n THEN at[p] + PageLimit ELSE n
       IN IF end <= at[p]
          THEN EndPass(p)
          ELSE /\ next' = [next EXCEPT ![p] = IF at[p] = 0 THEN 1 ELSE at[p]]
               /\ last' = [last EXCEPT ![p] = end]
               /\ more' = [more EXCEPT ![p] = end < n]
               /\ Goto(p, "upsert")
               /\ UNCHANGED <<mode, stream, at, fromStart>>
    /\ UNCHANGED <<emitted, tableVars>>

Query(p) ==
    /\ step[p] = "query"
    /\ LET n == emitted[stream[p]]
           end == IF at[p] + PageLimit < n THEN at[p] + PageLimit ELSE n
       IN IF end <= at[p]
          THEN EndPass(p)
          ELSE /\ next' = [next EXCEPT ![p] = at[p] + 1]
               /\ last' = [last EXCEPT ![p] = end]
               /\ more' = [more EXCEPT ![p] = end < n]
               /\ Goto(p, "upsert")
               /\ UNCHANGED <<mode, stream, at, fromStart>>
    /\ UNCHANGED <<emitted, tableVars>>

\* A slip in processPage: the loop runs past the last event.
PastEventTooFar(p) ==
    /\ next' = [next EXCEPT ![p] = @ + 1]
    /\ Goto(p, IF next[p] > last[p] THEN "save" ELSE "upsert")
    /\ UNCHANGED <<emitted, cursor, mode, stream, at, last, more, fromStart>>

\* On to the next event of the page, or to its end.
PastEvent(p) ==
    /\ next' = [next EXCEPT ![p] = @ + 1]
    /\ Goto(p, IF next[p] = last[p] THEN "save" ELSE "upsert")
    /\ UNCHANGED <<emitted, cursor, mode, stream, at, last, more, fromStart>>

\* Quantities are added to what the row holds.
Upsert(p) ==
    /\ step[p] = "upsert"
    /\ counted' = [counted EXCEPT ![stream[p]][next[p]] = IF @ < MaxCount THEN @ + 1 ELSE @]
    /\ PastEvent(p)
    /\ UNCHANGED refused

\* What follows the SaveCursor of a page, saved or not: the error is ignored.
AfterPage(p) ==
    IF more[p]
    THEN /\ at' = [at EXCEPT ![p] = last[p]]
         /\ Goto(p, "query")
         /\ UNCHANGED <<mode, stream, next, last, more, fromStart>>
    ELSE EndPass(p)

\* poll saves the cursor of every page; drainHistory leaves its loop on the last
\* page before it saves.
Save(p) ==
    /\ step[p] = "save"
    /\ cursor' = IF more[p] \/ mode[p] = "poll"
                 THEN [cursor EXCEPT ![stream[p]] = last[p]]
                 ELSE cursor
    /\ AfterPage(p)
    /\ UNCHANGED <<emitted, counted, refused>>

Mint(t) ==
    /\ emitted[t] < MaxEmitted[t]
    /\ emitted' = [emitted EXCEPT ![t] = @ + 1]
    /\ UNCHANGED <<tableVars, step, mode, stream, pageVars, fromStart>>

-----------------------------------------------------------------------------
(* Failures. *)

\* An error leaves the count at zero, which reads as an empty database.
CountFails(p) ==
    /\ step[p] = "count"
    /\ BeginPass(p, "drain", "binary")
    /\ UNCHANGED <<emitted, tableVars>>

\* GetCursor drops its error and returns no cursor.
GetCursorFails(p) == StartAt(p, 0)

QueryFails(p) ==
    /\ step[p] = "query"
    /\ EndPass(p)
    /\ UNCHANGED <<emitted, tableVars>>

\* A slip in processPage: it returns at the first error, and the cursor is saved.
UpsertFailsPage(p) ==
    /\ step[p] = "upsert"
    /\ refused' = [refused EXCEPT ![stream[p]] = @ \cup {next[p]}]
    /\ Goto(p, "save")
    /\ UNCHANGED <<emitted, cursor, counted, mode, stream, pageVars, fromStart>>

\* processPage logs the error and goes on with the next event.
UpsertFails(p) ==
    /\ step[p] = "upsert"
    /\ refused' = [refused EXCEPT ![stream[p]] = @ \cup {next[p]}]
    /\ PastEvent(p)
    /\ UNCHANGED counted

SaveFails(p) ==
    /\ step[p] = "save"
    /\ AfterPage(p)
    /\ UNCHANGED <<emitted, tableVars>>

\* The process stops and is started again.
Restart(p) ==
    /\ Rest(p, "count")
    /\ UNCHANGED <<emitted, tableVars>>

-----------------------------------------------------------------------------
ProcessStep(p) ==
    Bootstrap(p) \/ Tick(p) \/ GetCursor(p) \/ Query(p) \/ Upsert(p) \/ Save(p)

Normal == (\E p \in Processes : ProcessStep(p)) \/ (\E t \in Types : Mint(t))

ProcessFault(p) ==
    \/ CountFails(p) \/ GetCursorFails(p) \/ QueryFails(p) \/ UpsertFails(p)
    \/ SaveFails(p) \/ Restart(p)

Fault == \E p \in Processes : ProcessFault(p)

Next == Normal \/ Fault

Spec == Init /\ [][Next]_vars

-----------------------------------------------------------------------------
Handled(t, e) == counted[t][e] > 0 \/ e \in refused[t]

\* The saved cursor never skips an event: everything up to it has been added to
\* the positions or was refused, whatever call failed, wherever a process stopped
\* and however many processes save cursors (indexer.go:106-124).
CursorNeverSkips == \A t \in Types : \A e \in 1..cursor[t] : Handled(t, e)

\* An event the saved cursor covers is not added again by a single process, except
\* in a pass that began without a cursor (indexer.go:101-105).
SavedIsNotCountedAgain ==
    [][\A t \in Types : \A e \in 1..cursor[t] :
         counted'[t][e] # counted[t][e] =>
             \E p \in Processes : stream[p] = t /\ fromStart[p]]_vars

\* store.go:91-92: "Quantity is additive: multiple mints for the same key
\* accumulate", one event per mint; and indexer.go:99: a poll "fetches new events
\* of the given type since the last saved cursor".  So no event is added twice.
CountedOnce == \A t \in Types : \A e \in Numbers : counted[t][e] <= 1

\* One process, every call succeeding.
CalmSpec == Init /\ [][Normal]_vars

\* Once calls stop failing, every process goes on: tickers fire, calls return.
Fairness == \A p \in Processes : WF_vars(ProcessStep(p))
FaultsStop == <>[][Normal]_vars
FairSpec == Spec /\ Fairness /\ FaultsStop

\* Every event emitted is in the end added to the positions or refused, in whatever
\* state failed calls and restarts left the cursors.
EveryEventHandled ==
    \A t \in Types : \A e \in Numbers : e <= emitted[t] ~> Handled(t, e)
=============================================================================
