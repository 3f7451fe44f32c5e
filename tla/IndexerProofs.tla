---------------------------- MODULE IndexerProofs ---------------------------
(***************************************************************************)
(* Theorems about Indexer for any number of processes that share the       *)
(* tables, any size of pages and any number of events.                     *)
(***************************************************************************)
EXTENDS Indexer, TLAPS

USE DEF Types

Steps == {"count", "wait", "cursor", "query", "upsert", "save"}

TablesTyped ==
    /\ cursor \in [Types -> 0..MaxEvents]
    /\ counted \in [Types -> [Numbers -> 0..MaxCount]]
    /\ refused \in [Types -> SUBSET Numbers]

LocalsTyped ==
    /\ step \in [Processes -> Steps]
    /\ mode \in [Processes -> {"drain", "poll"}]
    /\ stream \in [Processes -> Types]
    /\ at \in [Processes -> 0..MaxEvents]
    /\ next \in [Processes -> 0..(MaxEvents + 1)]
    /\ last \in [Processes -> 0..MaxEvents]
    /\ more \in [Processes -> BOOLEAN]
    /\ fromStart \in [Processes -> BOOLEAN]

LEMMA TypeParts ==
    TypeOK <=> emitted \in [Types -> 0..MaxEvents] /\ TablesTyped /\ LocalsTyped
BY DEF TypeOK, TablesTyped, LocalsTyped, Steps

-----------------------------------------------------------------------------
(***************************************************************************)
(* The argument.  Wherever a process is, all events up to its in-memory    *)
(* cursor are handled, and on a page all events before the next one to     *)
(* store.  So whatever it saves covers handled events only.                *)
(***************************************************************************)
Covered(t, n) == \A e \in 1..n : Handled(t, e)

Place(p) ==
    /\ Covered(stream[p], at[p])
    /\ step[p] = "upsert" => /\ next[p] \in 1..last[p]
                             /\ \A e \in 1..last[p] : e < next[p] => Handled(stream[p], e)
    /\ step[p] = "save" => Covered(stream[p], last[p])

IInv ==
    /\ TypeOK
    /\ CursorNeverSkips
    /\ \A p \in Processes : Place(p)

\* Nothing handled is forgotten.
Kept == \A t \in Types : \A e \in Numbers : Handled(t, e) => Handled(t, e)'

\* The step is one of the process p.
Of(p) ==
    \A q \in Processes \ {p} :
        /\ step'[q] = step[q] /\ stream'[q] = stream[q] /\ at'[q] = at[q]
        /\ next'[q] = next[q] /\ last'[q] = last[q]

LEMMA BoundType ==
    ASSUME IndexerAssumption
    PROVE  MaxEvents \in Nat /\ PageLimit \in Nat /\ PageLimit > 0 /\ MaxCount \in Nat /\ MaxCount > 0
BY DEF IndexerAssumption

LEMMA CoveredKept ==
    ASSUME IndexerAssumption, Kept, NEW t \in Types, NEW n \in 0..MaxEvents, Covered(t, n)
    PROVE  Covered(t, n)'
BY BoundType DEF Covered, Kept, Numbers

LEMMA PlaceKept ==
    ASSUME IndexerAssumption, TypeOK, Kept, NEW q \in Processes, Place(q),
           step'[q] = step[q], stream'[q] = stream[q], at'[q] = at[q],
           next'[q] = next[q], last'[q] = last[q]
    PROVE  Place(q)'
<1>1. at[q] \in 0..MaxEvents /\ last[q] \in 0..MaxEvents /\ stream[q] \in Types
  BY DEF TypeOK
<1>2. \A e \in 1..last[q] : Handled(stream[q], e) => Handled(stream[q], e)'
  BY <1>1, BoundType DEF Kept, Numbers
<1>3. \A e \in 1..at[q] : Handled(stream[q], e) => Handled(stream[q], e)'
  BY <1>1, BoundType DEF Kept, Numbers
<1> QED
  BY <1>2, <1>3 DEF Place, Covered, Handled

\* A step of p keeps the invariant if it keeps types, cursors and the place of p.
LEMMA StepOf ==
    ASSUME IndexerAssumption, IInv, NEW p \in Processes, Of(p), Kept,
           TypeOK', CursorNeverSkips', Place(p)'
    PROVE  IInv'
BY PlaceKept DEF IInv, Of

LEMMA CursorKept ==
    ASSUME IndexerAssumption, IInv, Kept, UNCHANGED cursor
    PROVE  CursorNeverSkips'
<1> SUFFICES ASSUME NEW t \in Types, NEW e \in 1..cursor[t] PROVE Handled(t, e)'
  BY DEF CursorNeverSkips
<1>1. e \in Numbers /\ Handled(t, e)
  BY BoundType DEF IInv, TypeOK, CursorNeverSkips, Numbers
<1> QED
  BY <1>1 DEF Kept

LEMMA UnchangedKept ==
    ASSUME UNCHANGED <<counted, refused>>
    PROVE  Kept
BY DEF Kept, Handled

-----------------------------------------------------------------------------
(* Passes begin and end without anything in memory. *)

Between == {"count", "wait", "cursor", "query"}

LEMMA RestType ==
    ASSUME TypeOK, NEW p \in Processes, NEW s \in {"count", "wait"}, Rest(p, s)
    PROVE  LocalsTyped' /\ Of(p) /\ step'[p] \in Between /\ at'[p] = 0
BY BoundType, IndexerAssumption DEF TypeOK, LocalsTyped, Steps, Between, Of, Rest, Goto, ForgetPage

LEMMA BeginPassType ==
    ASSUME TypeOK, NEW p \in Processes, NEW md \in {"drain", "poll"}, NEW t \in Types,
           BeginPass(p, md, t)
    PROVE  LocalsTyped' /\ Of(p) /\ step'[p] \in Between /\ at'[p] = 0
BY BoundType, IndexerAssumption DEF TypeOK, LocalsTyped, Steps, Between, Of, BeginPass, Goto, ForgetPage

LEMMA EndPassType ==
    ASSUME TypeOK, NEW p \in Processes, EndPass(p)
    PROVE  LocalsTyped' /\ Of(p) /\ step'[p] \in Between /\ at'[p] = 0
<1>1. mode[p] \in {"drain", "poll"}
  BY DEF TypeOK
<1> QED
  BY <1>1, RestType, BeginPassType DEF EndPass

LEMMA BetweenPlace ==
    ASSUME NEW p \in Processes, step'[p] \in Between, at'[p] = 0
    PROVE  Place(p)'
BY DEF Place, Between, Covered

\* Steps that only begin or end a pass.
LEMMA PassStep ==
    ASSUME IndexerAssumption, IInv, NEW p \in Processes,
           \/ EndPass(p)
           \/ \E s \in {"count", "wait"} : Rest(p, s)
           \/ \E md \in {"drain", "poll"}, t \in Types : BeginPass(p, md, t),
           UNCHANGED <<emitted, tableVars>>
    PROVE  IInv'
<1>1. LocalsTyped' /\ Of(p) /\ step'[p] \in Between /\ at'[p] = 0
  BY RestType, BeginPassType, EndPassType DEF IInv
<1>2. TypeOK'
  <2>1. emitted' \in [Types -> 0..MaxEvents] /\ TablesTyped'
    BY TypeParts DEF IInv, TablesTyped, tableVars
  <2> QED
    BY <1>1, <2>1 DEF TypeOK, TablesTyped, LocalsTyped, Steps
<1>3. Kept /\ CursorNeverSkips'
  BY UnchangedKept, CursorKept DEF tableVars
<1> QED
  BY <1>1, <1>2, <1>3, BetweenPlace, StepOf

LEMMA StartAtStep ==
    ASSUME IndexerAssumption, IInv, NEW p \in Processes, NEW c \in {0, cursor[stream[p]]},
           StartAt(p, c)
    PROVE  IInv'
<1>1. /\ stream[p] \in Types /\ cursor[stream[p]] \in 0..MaxEvents
      /\ c \in 0..MaxEvents
  BY BoundType DEF IInv, TypeOK
<1>2. TypeOK'
  BY <1>1 DEF StartAt, Goto, IInv, TypeOK, tableVars
<1>3. Kept /\ CursorNeverSkips'
  BY UnchangedKept, CursorKept DEF StartAt, tableVars
<1>4. Of(p)
  BY DEF StartAt, Goto, Of, IInv, TypeOK
<1>5. Covered(stream[p], c)
  BY <1>1 DEF IInv, CursorNeverSkips, Covered
<1>6. Covered(stream[p], c)'
  <2>1. stream' = stream /\ counted' = counted /\ refused' = refused
    BY DEF StartAt, tableVars
  <2> QED
    BY <1>5, <2>1 DEF Covered, Handled
<1>7. step'[p] = "query" /\ at'[p] = c /\ stream'[p] = stream[p]
  BY DEF StartAt, Goto, IInv, TypeOK
<1>8. Place(p)'
  BY <1>6, <1>7 DEF Place, Covered, StartAt
<1> QED
  BY <1>2, <1>3, <1>4, <1>8, StepOf

-----------------------------------------------------------------------------
(* A page. *)

LEMMA QueryStep ==
    ASSUME IndexerAssumption, IInv, NEW p \in Processes, Query(p)
    PROVE  IInv'
<1> DEFINE n == emitted[stream[p]]
           end == IF at[p] + PageLimit < n THEN at[p] + PageLimit ELSE n
<1>1. /\ stream[p] \in Types /\ n \in 0..MaxEvents /\ at[p] \in 0..MaxEvents
  BY DEF IInv, TypeOK
<1>2. UNCHANGED <<emitted, tableVars>>
  BY DEF Query
<1>3. CASE end <= at[p]
  <2>1. EndPass(p)
    BY <1>3 DEF Query
  <2> QED
    BY <1>2, <2>1, PassStep
<1>4. CASE ~(end <= at[p])
  <2> HIDE DEF end
  <2>1. end \in 0..MaxEvents /\ at[p] + 1 \in 1..end /\ at[p] + 1 \in 0..(MaxEvents + 1)
    BY <1>1, <1>4, BoundType DEF end
  <2>2. /\ next' = [next EXCEPT ![p] = at[p] + 1]
        /\ last' = [last EXCEPT ![p] = end]
        /\ more' = [more EXCEPT ![p] = end < n]
        /\ step' = [step EXCEPT ![p] = "upsert"]
        /\ UNCHANGED <<mode, stream, at, fromStart>>
    BY <1>4 DEF Query, Goto, end
  <2>3. TypeOK'
    BY <1>2, <2>1, <2>2 DEF IInv, TypeOK, tableVars
  <2>4. Of(p)
    BY <2>2 DEF Of, IInv, TypeOK
  <2>5. Kept /\ CursorNeverSkips'
    BY <1>2, UnchangedKept, CursorKept DEF tableVars
  <2>6. /\ step'[p] = "upsert" /\ next'[p] = at[p] + 1 /\ last'[p] = end
        /\ at'[p] = at[p] /\ stream'[p] = stream[p]
    BY <2>2 DEF IInv, TypeOK
  <2>7. Covered(stream[p], at[p]) /\ Covered(stream[p], at[p])'
    BY <1>1, <2>2, <2>5, CoveredKept DEF IInv, Place, Covered
  <2>8. \A e \in 1..end : e < at[p] + 1 => Handled(stream[p], e)'
    BY <1>1, <2>1, <2>2, <2>7 DEF Covered
  <2>9. Place(p)'
    BY <2>1, <2>2, <2>6, <2>7, <2>8 DEF Place, Covered
  <2> QED
    BY <2>3, <2>4, <2>5, <2>9, StepOf
<1> QED
  BY <1>3, <1>4

LEMMA PastEventStep ==
    ASSUME IndexerAssumption, IInv, NEW p \in Processes, step[p] = "upsert", PastEvent(p),
           TablesTyped', Kept,
           NEW t, NEW n, t = stream[p], n = next[p], Handled(t, n)'
    PROVE  IInv'
<1>1. /\ stream[p] \in Types /\ last[p] \in 0..MaxEvents /\ at[p] \in 0..MaxEvents
      /\ next[p] \in 1..last[p] /\ MaxEvents \in Nat
      /\ \A e \in 1..last[p] : e < next[p] => Handled(stream[p], e)
      /\ Covered(stream[p], at[p])
  BY BoundType DEF IInv, TypeOK, Place
<1>2. /\ next' = [next EXCEPT ![p] = @ + 1]
      /\ step' = [step EXCEPT ![p] = IF next[p] = last[p] THEN "save" ELSE "upsert"]
      /\ UNCHANGED <<emitted, cursor, mode, stream, at, last, more, fromStart>>
  BY DEF PastEvent, Goto
<1>3. next[p] + 1 \in 0..(MaxEvents + 1)
  BY <1>1
<1>4. TypeOK'
  BY <1>2, <1>3 DEF IInv, TypeOK, TablesTyped
<1>5. Of(p)
  BY <1>2 DEF Of, IInv, TypeOK
<1>6. CursorNeverSkips'
  BY <1>2, CursorKept
<1>7. Covered(stream[p], at[p])'
  BY <1>1, <1>2, CoveredKept DEF Covered
<1>8. \A e \in 1..last[p] : e < next[p] + 1 => Handled(t, e)'
  <2> SUFFICES ASSUME NEW e \in 1..last[p], e < next[p] + 1 PROVE Handled(t, e)'
    OBVIOUS
  <2>1. CASE e = n
    BY <2>1
  <2>2. CASE e # n
    <3>1. e < next[p] /\ e \in Numbers
      BY <1>1, <2>2 DEF Numbers
    <3>2. Handled(t, e)
      BY <1>1, <3>1
    <3> QED
      BY <1>1, <3>1, <3>2 DEF Kept
  <2> QED
    BY <2>1, <2>2
<1>9. /\ next'[p] = next[p] + 1 /\ last'[p] = last[p] /\ at'[p] = at[p] /\ stream'[p] = stream[p]
      /\ step'[p] = IF next[p] = last[p] THEN "save" ELSE "upsert"
  BY <1>2 DEF IInv, TypeOK
<1>10. Place(p)'
  <2>1. CASE next[p] = last[p]
    <3>1. \A e \in 1..last[p] : Handled(t, e)'
      BY <1>1, <1>8, <2>1
    <3> QED
      BY <1>2, <1>7, <1>9, <2>1, <3>1 DEF Place, Covered
  <2>2. CASE next[p] # last[p]
    <3>1. next[p] + 1 \in 1..last[p]
      BY <1>1, <2>2
    <3> QED
      BY <1>2, <1>7, <1>8, <1>9, <2>2, <3>1 DEF Place
  <2> QED
    BY <2>1, <2>2
<1> QED
  BY <1>4, <1>5, <1>6, <1>10, StepOf

LEMMA UpsertStep ==
    ASSUME IndexerAssumption, IInv, NEW p \in Processes, Upsert(p) \/ UpsertFails(p)
    PROVE  IInv'
<1> SUFFICES ASSUME NEW t, NEW e, t = stream[p], e = next[p] PROVE IInv'
  OBVIOUS
<1>1. step[p] = "upsert" /\ PastEvent(p) /\ UNCHANGED <<cursor, stream>>
  BY DEF Upsert, UpsertFails, PastEvent
<1>2. t \in Types /\ last[p] \in 0..MaxEvents /\ e \in 1..last[p] /\ TablesTyped
  BY <1>1 DEF IInv, TypeOK, Place, TablesTyped
<1>3. e \in Numbers
  BY <1>2, BoundType DEF Numbers
<1>4. CASE Upsert(p)
  <2>1. /\ counted' = [counted EXCEPT ![t][e] = IF @ < MaxCount THEN @ + 1 ELSE @]
        /\ refused' = refused
    BY <1>4 DEF Upsert
  <2>2. counted[t] \in [Numbers -> 0..MaxCount] /\ counted[t][e] \in 0..MaxCount
    BY <1>2, <1>3 DEF TablesTyped
  <2>3. /\ (IF counted[t][e] < MaxCount THEN counted[t][e] + 1 ELSE counted[t][e]) \in 0..MaxCount
        /\ (IF counted[t][e] < MaxCount THEN counted[t][e] + 1 ELSE counted[t][e]) > 0
    BY <2>2, BoundType
  <2>4. TablesTyped'
    BY <1>1, <1>2, <1>3, <2>1, <2>2, <2>3 DEF TablesTyped
  <2>5. counted'[t][e] > 0
    BY <1>2, <1>3, <2>1, <2>2, <2>3 DEF TablesTyped
  <2>6. \A u \in Types : \A f \in Numbers : (u # t \/ f # e) => counted'[u][f] = counted[u][f]
    BY <1>2, <2>1 DEF TablesTyped
  <2>7. Kept
    BY <2>1, <2>5, <2>6 DEF Kept, Handled
  <2>8. Handled(t, e)'
    BY <2>5 DEF Handled
  <2> QED
    BY <1>1, <2>4, <2>7, <2>8, PastEventStep
<1>5. CASE UpsertFails(p)
  <2>1. refused' = [refused EXCEPT ![t] = @ \cup {e}] /\ counted' = counted
    BY <1>5 DEF UpsertFails
  <2>2. TablesTyped'
    BY <1>1, <1>2, <1>3, <2>1 DEF TablesTyped
  <2>3. Kept
    BY <1>2, <2>1 DEF Kept, Handled, TablesTyped
  <2>4. Handled(t, e)'
    BY <1>2, <2>1 DEF Handled, TablesTyped
  <2> QED
    BY <1>1, <2>2, <2>3, <2>4, PastEventStep
<1> QED
  BY <1>4, <1>5

\* A page is over: its cursor was saved, was not to be saved, or was not saved.
LEMMA AfterPageStep ==
    ASSUME IndexerAssumption, IInv, NEW p \in Processes, step[p] = "save", AfterPage(p),
           \/ UNCHANGED cursor
           \/ cursor' = [cursor EXCEPT ![stream[p]] = last[p]],
           UNCHANGED <<emitted, counted, refused>>
    PROVE  IInv'
<1>1. /\ stream[p] \in Types /\ last[p] \in 0..MaxEvents /\ Covered(stream[p], last[p])
  BY DEF IInv, TypeOK, Place
<1>2. Kept
  BY UnchangedKept
<1>3. TablesTyped' /\ emitted' \in [Types -> 0..MaxEvents]
  BY <1>1 DEF IInv, TypeOK, TablesTyped
<1>4. CursorNeverSkips'
  <2>1. CASE UNCHANGED cursor
    BY <1>2, <2>1, CursorKept
  <2>2. CASE cursor' = [cursor EXCEPT ![stream[p]] = last[p]]
    <3> SUFFICES ASSUME NEW t \in Types, NEW e \in 1..cursor'[t] PROVE Handled(t, e)'
      BY DEF CursorNeverSkips
    <3>1. CASE t = stream[p]
      BY <1>1, <2>2, <3>1 DEF Covered, Handled, IInv, TypeOK
    <3>2. CASE t # stream[p]
      BY <2>2, <3>2 DEF CursorNeverSkips, Handled, IInv, TypeOK
    <3> QED
      BY <3>1, <3>2
  <2> QED
    BY <2>1, <2>2
<1>5. CASE more[p]
  <2>1. /\ at' = [at EXCEPT ![p] = last[p]]
        /\ step' = [step EXCEPT ![p] = "query"]
        /\ UNCHANGED <<mode, stream, next, last, more, fromStart>>
    BY <1>5 DEF AfterPage, Goto
  <2>2. TypeOK'
    BY <1>1, <1>3, <2>1 DEF IInv, TypeOK, TablesTyped
  <2>3. Of(p)
    BY <2>1 DEF Of, IInv, TypeOK
  <2>4. at'[p] = last[p] /\ step'[p] = "query" /\ stream'[p] = stream[p]
    BY <2>1 DEF IInv, TypeOK
  <2>5. \A e \in 1..last[p] : Handled(stream[p], e)'
    BY <1>1, <2>1 DEF Covered, Handled
  <2>6. Place(p)'
    BY <2>1, <2>4, <2>5 DEF Place, Covered
  <2> QED
    BY <1>2, <1>4, <2>2, <2>3, <2>6, StepOf
<1>6. CASE ~more[p]
  <2>1. EndPass(p)
    BY <1>6 DEF AfterPage
  <2>2. LocalsTyped' /\ Of(p) /\ step'[p] \in Between /\ at'[p] = 0
    BY <2>1, EndPassType DEF IInv
  <2>3. TypeOK'
    BY <1>3, <2>2 DEF TypeOK, TablesTyped, LocalsTyped, Steps
  <2> QED
    BY <1>2, <1>4, <2>2, <2>3, BetweenPlace, StepOf
<1> QED
  BY <1>5, <1>6

-----------------------------------------------------------------------------
LEMMA InvStep ==
    ASSUME IndexerAssumption, IInv, [Next]_vars
    PROVE  IInv'
<1>1. ASSUME NEW p \in Processes, Bootstrap(p) \/ Tick(p) \/ CountFails(p) \/ Restart(p)
      PROVE IInv'
  BY <1>1, PassStep DEF Bootstrap, Tick, CountFails, Restart
<1>2. ASSUME NEW p \in Processes, GetCursor(p) \/ GetCursorFails(p) PROVE IInv'
  BY <1>2, StartAtStep DEF GetCursor, GetCursorFails
<1>3. ASSUME NEW p \in Processes, Query(p) PROVE IInv'
  BY <1>3, QueryStep
<1>4. ASSUME NEW p \in Processes, QueryFails(p) PROVE IInv'
  BY <1>4, PassStep DEF QueryFails
<1>5. ASSUME NEW p \in Processes, Upsert(p) \/ UpsertFails(p) PROVE IInv'
  BY <1>5, UpsertStep
<1>6. ASSUME NEW p \in Processes, Save(p) \/ SaveFails(p) PROVE IInv'
  <2>1. step[p] = "save" /\ AfterPage(p) /\ UNCHANGED <<emitted, counted, refused>>
    BY <1>6 DEF Save, SaveFails, tableVars
  <2>2. \/ UNCHANGED cursor
        \/ cursor' = [cursor EXCEPT ![stream[p]] = last[p]]
    BY <1>6 DEF Save, SaveFails, tableVars
  <2> QED
    BY <2>1, <2>2, AfterPageStep
<1>7. ASSUME NEW t \in Types, Mint(t) PROVE IInv'
  <2>1. emitted[t] + 1 \in 0..MaxEvents
    BY <1>7, BoundType DEF Mint, IInv, TypeOK, IndexerAssumption
  <2>2. emitted' \in [Types -> 0..MaxEvents]
    BY <1>7, <2>1 DEF Mint, IInv, TypeOK
  <2> QED
    BY <1>7, <2>2 DEF Mint, IInv, TypeOK, CursorNeverSkips, Place, Covered, Handled, tableVars, pageVars
<1>8. CASE UNCHANGED vars
  BY <1>8 DEF vars, IInv, TypeOK, CursorNeverSkips, Place, Covered, Handled, tableVars, pageVars
<1> QED
  BY <1>1, <1>2, <1>3, <1>4, <1>5, <1>6, <1>7, <1>8
     DEF Next, Normal, Fault, ProcessStep, ProcessFault

LEMMA Inv == Spec => []IInv
<1>1. Init => IInv
  <2> SUFFICES ASSUME Init PROVE IInv
    OBVIOUS
  <2>1. TypeOK
    BY BoundType, IndexerAssumption DEF Init, TypeOK
  <2>2. CursorNeverSkips
    BY DEF Init, CursorNeverSkips
  <2>3. ASSUME NEW p \in Processes PROVE Place(p)
    <3>1. at[p] = 0 /\ step[p] = "count"
      BY DEF Init
    <3> QED
      BY <3>1 DEF Place, Covered
  <2> QED
    BY <2>1, <2>2, <2>3 DEF IInv
<1>2. IInv /\ [Next]_vars => IInv'
  BY InvStep, IndexerAssumption
<1> QED
  BY <1>1, <1>2, PTL DEF Spec

\* Every variable keeps its type, with any number of processes: a page never ends
\* beyond the stream, and the next event to store never lies beyond the page.
THEOREM TypeCorrect == Spec => []TypeOK
<1>1. IInv => TypeOK
  BY DEF IInv
<1> QED
  BY <1>1, Inv, PTL

\* However many processes share the tables and overwrite each other's cursors, and
\* whatever calls fail, no saved cursor covers an event that is not handled.
THEOREM NothingSkipped == Spec => []CursorNeverSkips
<1>1. IInv => CursorNeverSkips
  BY DEF IInv
<1> QED
  BY <1>1, Inv, PTL
-----------------------------------------------------------------------------
(***************************************************************************)
(* A pass that found a cursor.  A process alone reads, stores and saves    *)
(* beyond the saved cursor, until the pass ends; with a second process the *)
(* cursor may pass it.                                                     *)
(***************************************************************************)
Beyond(p) ==
    ~fromStart[p] =>
        /\ step[p] = "query" => cursor[stream[p]] <= at[p]
        /\ step[p] = "upsert" => cursor[stream[p]] < next[p]
        /\ step[p] = "save" => cursor[stream[p]] <= last[p]

AllBeyond == \A p \in Processes : Beyond(p)

Alone == \A p, q \in Processes : p = q

LEMMA PassBeyond ==
    ASSUME IInv, NEW p \in Processes,
           \/ EndPass(p)
           \/ \E s \in {"count", "wait"} : Rest(p, s)
           \/ \E md \in {"drain", "poll"}, t \in Types : BeginPass(p, md, t)
    PROVE  Beyond(p)'
<1>1. /\ step \in [Processes -> Steps] /\ fromStart \in [Processes -> BOOLEAN]
      /\ mode[p] \in {"drain", "poll"}
  BY DEF IInv, TypeOK, Steps
<1>2. \/ \E s \in {"count", "wait"} : Rest(p, s)
      \/ \E md \in {"drain", "poll"}, t \in Types : BeginPass(p, md, t)
  BY <1>1 DEF EndPass
<1>3. step'[p] \in {"count", "wait", "cursor"} \/ fromStart'[p]
  BY <1>1, <1>2 DEF Rest, BeginPass, Goto
<1> QED
  BY <1>3 DEF Beyond

LEMMA StartAtBeyond ==
    ASSUME IInv, NEW p \in Processes, NEW c \in {0, cursor[stream[p]]}, StartAt(p, c)
    PROVE  Beyond(p)'
<1>1. /\ at'[p] = c /\ (fromStart'[p] <=> c = 0) /\ step'[p] = "query"
      /\ cursor' = cursor /\ stream' = stream
  BY DEF StartAt, Goto, IInv, TypeOK, tableVars
<1>2. cursor[stream[p]] \in Nat
  BY BoundType, IndexerAssumption DEF IInv, TypeOK
<1> QED
  BY <1>1, <1>2 DEF Beyond

LEMMA QueryBeyond ==
    ASSUME IInv, NEW p \in Processes, Beyond(p), Query(p)
    PROVE  Beyond(p)'
<1>1. CASE EndPass(p)
  BY <1>1, PassBeyond
<1>2. CASE ~ EndPass(p)
  <2>1. /\ next' = [next EXCEPT ![p] = at[p] + 1] /\ Goto(p, "upsert")
        /\ UNCHANGED <<stream, fromStart, cursor>> /\ step[p] = "query"
    BY <1>2 DEF Query, tableVars
  <2>2. next'[p] = at[p] + 1 /\ step'[p] = "upsert"
    BY <2>1 DEF Goto, IInv, TypeOK
  <2>3. at[p] \in Nat /\ cursor[stream[p]] \in Nat
    BY BoundType, IndexerAssumption DEF IInv, TypeOK
  <2> QED
    BY <2>1, <2>2, <2>3 DEF Beyond
<1> QED
  BY <1>1, <1>2

LEMMA PastEventBeyond ==
    ASSUME IInv, NEW p \in Processes, Beyond(p), step[p] = "upsert", PastEvent(p)
    PROVE  Beyond(p)'
<1>1. /\ next'[p] = next[p] + 1 /\ UNCHANGED <<stream, fromStart, cursor, last>>
      /\ step'[p] = IF next[p] = last[p] THEN "save" ELSE "upsert"
  BY DEF PastEvent, Goto, IInv, TypeOK
<1>2. next[p] \in Nat /\ last[p] \in Nat /\ cursor[stream[p]] \in Nat
  BY BoundType, IndexerAssumption DEF IInv, TypeOK
<1> QED
  BY <1>1, <1>2 DEF Beyond

LEMMA AfterPageBeyond ==
    ASSUME IInv, NEW p \in Processes, Beyond(p), step[p] = "save", AfterPage(p),
           \/ UNCHANGED cursor
           \/ cursor' = [cursor EXCEPT ![stream[p]] = last[p]]
    PROVE  Beyond(p)'
<1>1. CASE more[p]
  <2>1. /\ at'[p] = last[p] /\ step'[p] = "query" /\ UNCHANGED <<stream, fromStart>>
    BY <1>1 DEF AfterPage, Goto, IInv, TypeOK
  <2>2. cursor'[stream[p]] = cursor[stream[p]] \/ cursor'[stream[p]] = last[p]
    BY DEF IInv, TypeOK
  <2>3. last[p] \in Nat
    BY BoundType, IndexerAssumption DEF IInv, TypeOK
  <2> QED
    BY <2>1, <2>2, <2>3 DEF Beyond
<1>2. CASE ~ more[p]
  BY <1>2, PassBeyond DEF AfterPage
<1> QED
  BY <1>1, <1>2

LEMMA BeyondStep ==
    ASSUME Alone, IInv, AllBeyond, [Next]_vars
    PROVE  AllBeyond'
<1> SUFFICES ASSUME NEW p \in Processes PROVE Beyond(p)'
  BY DEF AllBeyond
<1>1. Beyond(p) /\ \A q \in Processes : q = p
  BY DEF AllBeyond, Alone
<1>2. CASE Bootstrap(p) \/ Tick(p) \/ CountFails(p) \/ Restart(p) \/ QueryFails(p)
  BY <1>2, PassBeyond DEF Bootstrap, Tick, CountFails, Restart, QueryFails
<1>3. CASE GetCursor(p) \/ GetCursorFails(p)
  BY <1>3, StartAtBeyond DEF GetCursor, GetCursorFails
<1>4. CASE Query(p)
  BY <1>1, <1>4, QueryBeyond
<1>5. CASE Upsert(p) \/ UpsertFails(p)
  BY <1>1, <1>5, PastEventBeyond DEF Upsert, UpsertFails
<1>6. CASE Save(p) \/ SaveFails(p)
  <2>1. /\ step[p] = "save" /\ AfterPage(p)
        /\ UNCHANGED cursor \/ cursor' = [cursor EXCEPT ![stream[p]] = last[p]]
    BY <1>6 DEF Save, SaveFails, tableVars
  <2> QED
    BY <1>1, <2>1, AfterPageBeyond
<1>7. ASSUME UNCHANGED <<cursor, step, stream, at, next, last, fromStart>>
      PROVE  Beyond(p)'
  BY <1>1, <1>7 DEF Beyond
<1>8. CASE (\E t \in Types : Mint(t)) \/ UNCHANGED vars
  BY <1>7, <1>8 DEF Mint, vars, tableVars, pageVars
<1>9. \/ ProcessStep(p) \/ ProcessFault(p)
      \/ (\E t \in Types : Mint(t)) \/ UNCHANGED vars
  BY <1>1 DEF Next, Normal, Fault
<1> QED
  BY <1>2, <1>3, <1>4, <1>5, <1>6, <1>8, <1>9 DEF ProcessStep, ProcessFault

\* What the property says of a step, with the only process named.
LEMMA CountsBeyond ==
    ASSUME Alone, IInv, AllBeyond, [Next]_vars,
           NEW t \in Types, NEW e \in 1..cursor[t], counted'[t][e] # counted[t][e]
    PROVE  \E p \in Processes : stream[p] = t /\ fromStart[p]
<1>1. PICK p \in Processes : Upsert(p)
  <2>1. counted' # counted
    OBVIOUS
  <2> QED
    BY <2>1 DEF Next, Normal, Fault, ProcessStep, ProcessFault, Bootstrap, Tick, GetCursor, Query,
                Save, CountFails, GetCursorFails, QueryFails, UpsertFails, SaveFails, Restart,
                StartAt, Mint, tableVars, vars
<1>2. /\ step[p] = "upsert" /\ stream[p] \in Types /\ cursor[t] \in Nat
      /\ e \in Numbers /\ next[p] \in Nat
      /\ next[p] \in Numbers
  BY <1>1, BoundType, IndexerAssumption DEF Upsert, IInv, TypeOK, Place, Numbers
<1>3. stream[p] = t /\ next[p] = e
  BY <1>1, <1>2 DEF Upsert, IInv, TypeOK
<1>4. ~ (cursor[t] < next[p])
  BY <1>2, <1>3
<1>5. fromStart[p]
  BY <1>2, <1>3, <1>4 DEF AllBeyond, Beyond
<1> QED
  BY <1>3, <1>5

\* A single process, whatever calls fail and whenever it stops: an event the saved
\* cursor covers is added again only by a pass that began without a cursor.
THEOREM SavedNotCountedAgain ==
    ASSUME Alone
    PROVE  Spec => SavedIsNotCountedAgain
<1>1. Init => AllBeyond
  BY DEF Init, AllBeyond, Beyond
<1>2. IInv /\ AllBeyond /\ [Next]_vars => AllBeyond'
  BY BeyondStep
<1>3. IInv /\ AllBeyond /\ [Next]_vars =>
          [\A t \in Types : \A e \in 1..cursor[t] :
             counted'[t][e] # counted[t][e] =>
                 \E p \in Processes : stream[p] = t /\ fromStart[p]]_vars
  BY CountsBeyond
<1> QED
  BY <1>1, <1>2, <1>3, Inv, PTL DEF Spec, SavedIsNotCountedAgain
=============================================================================
