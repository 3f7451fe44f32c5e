------------------------- MODULE NetworkViewProofs --------------------------
(***************************************************************************)
(* Theorems about NetworkView for any keepers, page sizes and number of    *)
(* refreshes under way.                                                    *)
(***************************************************************************)
EXTENDS NetworkView, FiniteSetTheorems, TLAPS

-----------------------------------------------------------------------------
(***************************************************************************)
(* The total is a sum over two tables that were read at one moment, while  *)
(* the streams are drained at others.  What a refresh has read is sound if *)
(* the total splits into a part for each kind that the stream had when it  *)
(* was read and that a finished drain has covered.                         *)
(***************************************************************************)
Sound(x) ==
    /\ x.phase = "reads" => x.todo \subseteq Reads
    /\ x.phase = "drains" => x.todo \subseteq Kinds
    /\ \E b, c \in Nat :
          /\ x.got.total <= b + c
          /\ b <= Emitted("binary")
          /\ c <= Emitted("range")
          /\ x.phase = "drains" =>
                /\ "binary" \notin x.todo => b <= x.got.drained["binary"]
                /\ "range" \notin x.todo => c <= x.got.drained["range"]

SoundRefresh == {x \in Refresh : IsOfChain(x.got) /\ Sound(x)}

IInv ==
    /\ log \in [Kinds -> Seq(Settlement)]
    /\ registrations \in Seq(Keepers)
    /\ refresh \in Seq(SoundRefresh)
    /\ view \in Contents
    /\ IsOfChain(view)
    /\ TotalNotAhead
    /\ loading \in BOOLEAN

LEMMA LengthType ==
    ASSUME IInv
    PROVE  /\ Emitted("binary") \in Nat /\ Emitted("range") \in Nat
           /\ \A k \in Kinds : Emitted(k) \in Nat
           /\ Len(registrations) \in Nat /\ Len(refresh) \in Nat
BY DEF IInv, Kinds, Emitted

LEMMA StartedSound ==
    ASSUME IInv
    PROVE  Started \in SoundRefresh
<1>1. NoContents \in Contents /\ IsOfChain(NoContents)
  <2>1. NothingRead \in Lengths /\ \A k \in Kinds : NothingRead[k] = 0
    BY DEF NothingRead, Lengths
  <2>2. /\ NoContents.total = 0 /\ NoContents.known = 0
        /\ NoContents.drained = NothingRead
    BY DEF NoContents
  <2>3. NoContents \in Contents
    BY <2>1 DEF NoContents, Contents
  <2>4. /\ Emitted("binary") \in Nat /\ Emitted("range") \in Nat
        /\ \A k \in Kinds : Emitted(k) \in Nat
        /\ Len(registrations) \in Nat
    BY LengthType
  <2>5. /\ NoContents.total <= Emitted("binary") + Emitted("range")
        /\ NoContents.known <= Len(registrations)
    BY <2>2, <2>4
  <2>6. \A k \in Kinds : NoContents.drained[k] <= Emitted(k)
    BY <2>1, <2>2, <2>4
  <2> QED
    BY <2>3, <2>5, <2>6 DEF IsOfChain, Recorded
<1>2. Started \in Refresh
  BY <1>1 DEF Started, Refresh
<1>3. Sound(Started)
  BY LengthType DEF Started, Sound, NoContents
<1>4. Started.got = NoContents
  BY DEF Started
<1> QED
  BY <1>1, <1>2, <1>3, <1>4 DEF SoundRefresh

\* The chain only grows: what was a prefix stays one.
Grows ==
    /\ \A k \in Kinds : Emitted(k)' \in Nat /\ Emitted(k) <= Emitted(k)'
    /\ Len(registrations') \in Nat /\ Len(registrations) <= Len(registrations')

LEMMA GrowthKeepsContents ==
    ASSUME IInv, Grows, NEW x \in Contents, IsOfChain(x)
    PROVE  /\ x.total <= Emitted("binary")' + Emitted("range")'
           /\ \A k \in Kinds : x.drained[k] <= Emitted(k)'
           /\ x.known <= Len(registrations')
<1>1. /\ x.total \in Nat /\ x.known \in Nat
      /\ \A k \in Kinds : x.drained[k] \in Nat
  BY DEF Contents, Lengths
<1>2. /\ Emitted("binary") <= Emitted("binary")' /\ Emitted("binary")' \in Nat
      /\ Emitted("range") <= Emitted("range")' /\ Emitted("range")' \in Nat
      /\ Len(registrations) <= Len(registrations') /\ Len(registrations') \in Nat
  BY DEF Grows, Kinds
<1>6. /\ Emitted("binary") \in Nat /\ Emitted("range") \in Nat
      /\ Len(registrations) \in Nat
  BY LengthType
<1>7. /\ x.total <= Emitted("binary") + Emitted("range")
      /\ x.known <= Len(registrations)
  BY DEF IsOfChain, Recorded
<1>3. x.total <= Emitted("binary")' + Emitted("range")'
  BY <1>1, <1>2, <1>6, <1>7
<1>4. x.known <= Len(registrations')
  BY <1>1, <1>2, <1>6, <1>7
<1>5. ASSUME NEW k \in Kinds PROVE x.drained[k] <= Emitted(k)'
  <2>1. /\ Emitted(k) \in Nat /\ Emitted(k)' \in Nat
        /\ Emitted(k) <= Emitted(k)' /\ x.drained[k] <= Emitted(k)
    BY LengthType DEF Grows, IsOfChain
  <2> QED
    BY <1>1, <2>1
<1> QED
  BY <1>3, <1>4, <1>5

LEMMA GrowthKeepsSound ==
    ASSUME IInv, Grows
    PROVE  SoundRefresh \subseteq SoundRefresh'
<1> SUFFICES ASSUME NEW x \in SoundRefresh
             PROVE  x \in SoundRefresh'
  OBVIOUS
<1>1. x \in Refresh /\ x.got \in Contents /\ IsOfChain(x.got) /\ Sound(x)
  BY DEF SoundRefresh, Refresh
<1>2. /\ x.got.total <= Emitted("binary")' + Emitted("range")'
      /\ \A k \in Kinds : x.got.drained[k] <= Emitted(k)'
      /\ x.got.known <= Len(registrations')
  BY <1>1, GrowthKeepsContents
<1>3. PICK b, c \in Nat :
          /\ x.got.total <= b + c
          /\ b <= Emitted("binary")
          /\ c <= Emitted("range")
          /\ x.phase = "drains" =>
                /\ "binary" \notin x.todo => b <= x.got.drained["binary"]
                /\ "range" \notin x.todo => c <= x.got.drained["range"]
  BY <1>1 DEF Sound
<1>4. b <= Emitted("binary")' /\ c <= Emitted("range")'
  BY <1>3, LengthType DEF Grows, Kinds
<1>5. Sound(x)'
  BY <1>1, <1>3, <1>4 DEF Sound
<1> QED
  BY <1>1, <1>2, <1>5 DEF SoundRefresh, IsOfChain, Recorded

-----------------------------------------------------------------------------
(* What is done to the sequence of refreshes. *)

LEMMA AppendSound ==
    ASSUME NEW S, NEW s \in Seq(S), NEW x \in S
    PROVE  Append(s, x) \in Seq(S)
OBVIOUS

LEMMA ReplaceSound ==
    ASSUME NEW S, NEW s \in Seq(S), NEW i \in DOMAIN s, NEW x \in S
    PROVE  [s EXCEPT ![i] = x] \in Seq(S)
OBVIOUS

LEMMA EndedSound ==
    ASSUME IInv, NEW r \in DOMAIN refresh, Ended(r)
    PROVE  refresh' \in Seq(SoundRefresh)
<1>1. \A x \in SoundRefresh : [x EXCEPT !.overlapped = TRUE] \in SoundRefresh
  BY DEF SoundRefresh, Refresh, Sound, IsOfChain
<1>2. Len(refresh) \in Nat /\ DOMAIN refresh = 1..Len(refresh) /\ r \in 1..Len(refresh)
  BY DEF IInv
<1>3. Len(refresh) - 1 \in Nat
  BY <1>2
<1>4. \A q \in 1..(Len(refresh) - 1) : refresh[IF q < r THEN q ELSE q + 1] \in SoundRefresh
  BY <1>2 DEF IInv
<1> QED
  BY <1>1, <1>3, <1>4 DEF Ended

LEMMA ElementSound ==
    ASSUME IInv, NEW r \in DOMAIN refresh
    PROVE  /\ refresh[r] \in SoundRefresh /\ refresh[r] \in Refresh
           /\ refresh[r].got \in Contents /\ IsOfChain(refresh[r].got) /\ Sound(refresh[r])
           /\ refresh[r].got.total \in Nat /\ refresh[r].got.known \in Nat
           /\ refresh[r].got.drained \in [Kinds -> Nat]
<1>1. refresh[r] \in SoundRefresh
  BY DEF IInv
<1>2. refresh[r] \in Refresh /\ IsOfChain(refresh[r].got) /\ Sound(refresh[r])
  BY <1>1 DEF SoundRefresh
<1>3. refresh[r].got \in Contents
  BY <1>2 DEF Refresh
<1> QED
  BY <1>1, <1>2, <1>3 DEF Contents, Lengths

LEMMA ReturnedSound ==
    ASSUME IInv, NEW r \in DOMAIN refresh, NEW call, NEW got \in Contents, IsOfChain(got),
           NEW b \in Nat, NEW c \in Nat,
           got.total <= b + c, b <= Emitted("binary"), c <= Emitted("range"),
           refresh[r].phase = "drains" =>
              /\ "binary" \notin refresh[r].todo \ {call} => b <= got.drained["binary"]
              /\ "range" \notin refresh[r].todo \ {call} => c <= got.drained["range"],
           Returned(r, call, got)
    PROVE  refresh' \in Seq(SoundRefresh)
<1> DEFINE x == refresh[r]
           todo == x.todo \ {call}
           y == After(x, call, got)
<1>1. x \in Refresh /\ Sound(x)
  BY ElementSound
<1>2. todo \in SUBSET (Reads \cup Kinds)
  BY <1>1 DEF Refresh
<1>3. y \in Refresh
  BY <1>1, <1>2 DEF Refresh, After
<1>4. /\ y.got = got
      /\ y.phase = IF todo = {} THEN "drains" ELSE x.phase
      /\ y.todo = IF todo = {} /\ x.phase = "reads" THEN Kinds ELSE todo
  BY <1>1 DEF Refresh, After
<1>5. Sound(y)
  <2>1. CASE x.phase = "reads"
    <3>1. y.phase = "reads" => y.todo \subseteq Reads
      BY <1>1, <1>4, <2>1 DEF Sound
    <3>2. y.phase = "drains" => y.todo = Kinds
      BY <1>4, <2>1
    <3> QED
      BY <1>4, <3>1, <3>2 DEF Sound, Kinds
  <2>2. CASE x.phase = "drains"
    <3>1. y.phase = "drains" /\ y.todo = todo /\ todo \subseteq Kinds
      BY <1>1, <1>4, <2>2 DEF Sound
    <3> QED
      BY <1>4, <2>2, <3>1 DEF Sound
  <2> QED
    BY <1>1, <2>1, <2>2 DEF Refresh
<1>6. y \in SoundRefresh
  BY <1>3, <1>4, <1>5 DEF SoundRefresh
<1>7. refresh' = [refresh EXCEPT ![r] = y]
  BY DEF Returned
<1> QED
  BY <1>6, <1>7, ReplaceSound DEF IInv

-----------------------------------------------------------------------------
(* The steps of a refresh. *)

LEMMA ReadSound ==
    ASSUME IInv, NEW r \in DOMAIN refresh, ReadRegistry(r) \/ ReadRegistrations(r)
    PROVE  refresh' \in Seq(SoundRefresh)
<1> DEFINE x == refresh[r]
<1>1. /\ x \in Refresh /\ x.got \in Contents /\ IsOfChain(x.got) /\ Sound(x)
      /\ x.got.total \in Nat
  BY ElementSound
<1>2. x.todo \cap Reads # {}
  BY DEF ReadRegistry, ReadRegistrations, Reads
<1>3. x.phase = "reads"
  BY <1>1, <1>2 DEF Sound, Refresh, Reads, Kinds
<1>4. CASE ReadRegistry(r)
  <2> DEFINE got == [x.got EXCEPT !.total = Recorded]
  <2>1. Recorded \in Nat /\ Recorded = Emitted("binary") + Emitted("range")
    BY LengthType DEF Recorded
  <2>2. got \in Contents /\ IsOfChain(got) /\ got.total = Recorded
    BY <1>1, <2>1 DEF Contents, IsOfChain
  <2>3. Returned(r, "registry", got)
    BY <1>4 DEF ReadRegistry
  <2> HIDE DEF got
  <2>4. /\ Emitted("binary") \in Nat /\ Emitted("binary") <= Emitted("binary")
        /\ Emitted("range") \in Nat /\ Emitted("range") <= Emitted("range")
    BY LengthType
  <2>5. got.total <= Emitted("binary") + Emitted("range")
    BY <2>1, <2>2
  <2> QED
    BY <1>3, <2>2, <2>3, <2>4, <2>5, ReturnedSound
<1>5. CASE ReadRegistrations(r)
  <2> DEFINE got == [x.got EXCEPT !.known = Len(registrations)]
  <2>1. got \in Contents /\ IsOfChain(got) /\ got.total = x.got.total
    BY <1>1, LengthType DEF Contents, IsOfChain
  <2>2. Returned(r, "registrations", got)
    BY <1>5 DEF ReadRegistrations
  <2>3. PICK b, c \in Nat : /\ x.got.total <= b + c
                            /\ b <= Emitted("binary") /\ c <= Emitted("range")
    BY <1>1 DEF Sound
  <2> HIDE DEF got
  <2> QED
    BY <1>3, <2>1, <2>2, <2>3, ReturnedSound
<1> QED
  BY <1>4, <1>5

LEMMA DrainSound ==
    ASSUME NetworkViewAssumption, IInv, NEW r \in DOMAIN refresh, NEW kind \in Kinds,
           Drain(r, kind)
    PROVE  refresh' \in Seq(SoundRefresh)
<1> DEFINE x == refresh[r]
           from == x.got.drained[kind]
           more == from + PageLimit < Emitted(kind)
           n == IF more THEN from + PageLimit ELSE Emitted(kind)
           got == [x.got EXCEPT !.drained[kind] = n]
<1>1. /\ x \in Refresh /\ x.got \in Contents /\ IsOfChain(x.got) /\ Sound(x)
      /\ x.got.drained \in [Kinds -> Nat]
  BY ElementSound
<1>2. kind \in x.todo
  BY DEF Drain
<1>3. x.phase = "drains"
  BY <1>1, <1>2 DEF Sound, Refresh, Reads, Kinds
<1>4. n \in Nat /\ from <= n /\ n <= Emitted(kind)
  <2>1. PageLimit \in Nat /\ Emitted(kind) \in Nat /\ from \in Nat /\ from <= Emitted(kind)
    BY <1>1, LengthType DEF NetworkViewAssumption, IsOfChain
  <2> HIDE DEF from
  <2> QED
    BY <2>1
<1>5. /\ got \in Contents /\ got.total = x.got.total /\ got.known = x.got.known
      /\ got.drained \in [Kinds -> Nat]
      /\ \A k \in Kinds : got.drained[k] = IF k = kind THEN n ELSE x.got.drained[k]
  <2> HIDE DEF n
  <2> QED
    BY <1>1, <1>4 DEF Contents, Lengths
<1>6. IsOfChain(got)
  <2> HIDE DEF n, got
  <2> QED
    BY <1>1, <1>4, <1>5 DEF IsOfChain
<1>7. PICK b, c \in Nat :
          /\ x.got.total <= b + c
          /\ b <= Emitted("binary") /\ c <= Emitted("range")
          /\ "binary" \notin x.todo => b <= x.got.drained["binary"]
          /\ "range" \notin x.todo => c <= x.got.drained["range"]
  BY <1>1, <1>3 DEF Sound
<1>8. CASE more
  <2> DEFINE y == [x EXCEPT !.got = got]
  <2>1. /\ y \in Refresh /\ y.got = got /\ y.phase = x.phase /\ y.todo = x.todo
    <3> HIDE DEF got
    <3> QED
      BY <1>1, <1>5 DEF Refresh
  <2>2. /\ "binary" \notin x.todo => b <= got.drained["binary"]
        /\ "range" \notin x.todo => c <= got.drained["range"]
    <3> HIDE DEF got
    <3> QED
      BY <1>2, <1>5, <1>7 DEF Kinds
  <2>3. y \in SoundRefresh
    <3> HIDE DEF got, y
    <3> QED
      BY <1>1, <1>3, <1>5, <1>6, <1>7, <2>1, <2>2 DEF SoundRefresh, Sound
  <2>4. refresh' = [refresh EXCEPT ![r] = y]
    BY <1>8 DEF Drain
  <2> QED
    BY <2>3, <2>4, ReplaceSound DEF IInv
<1>9. CASE ~more
  <2>1. Returned(r, kind, got)
    BY <1>9 DEF Drain
  <2>2. n = Emitted(kind)
    BY <1>9
  <2>3. /\ "binary" \notin x.todo \ {kind} => b <= got.drained["binary"]
        /\ "range" \notin x.todo \ {kind} => c <= got.drained["range"]
    <3> HIDE DEF got, n
    <3> QED
      BY <1>2, <1>5, <1>7, <2>2 DEF Kinds
  <2> HIDE DEF got
  <2> QED
    BY <1>3, <1>5, <1>6, <1>7, <2>1, <2>3, ReturnedSound
<1> QED
  BY <1>8, <1>9

\* What a finished refresh holds may be shown.
LEMMA ShowSound ==
    ASSUME IInv, NEW r \in DOMAIN refresh, refresh[r].phase = "drains", refresh[r].todo = {}
    PROVE  /\ refresh[r].got \in Contents /\ IsOfChain(refresh[r].got)
           /\ refresh[r].got.total <=
                refresh[r].got.drained["binary"] + refresh[r].got.drained["range"]
<1> DEFINE got == refresh[r].got
<1>1. /\ got \in Contents /\ IsOfChain(got) /\ Sound(refresh[r])
      /\ got.total \in Nat /\ got.drained["binary"] \in Nat /\ got.drained["range"] \in Nat
  BY ElementSound DEF Kinds
<1>2. PICK b, c \in Nat : /\ got.total <= b + c
                          /\ b <= got.drained["binary"] /\ c <= got.drained["range"]
  BY <1>1 DEF Sound
<1> HIDE DEF got
<1>3. got.total <= got.drained["binary"] + got.drained["range"]
  BY <1>1, <1>2
<1> QED
  BY <1>1, <1>3 DEF got

-----------------------------------------------------------------------------
(* The chain. *)

LEMMA SettleGrows ==
    ASSUME NetworkViewAssumption, IInv, NEW kind \in Kinds, NEW keeper \in Keepers,
           Settle(kind, keeper)
    PROVE  log' \in [Kinds -> Seq(Settlement)] /\ Grows
<1> DEFINE s == [keeper |-> keeper, number |-> Recorded + 1]
<1>1. s \in Settlement
  <2>1. Recorded \in Nat /\ Recorded < MaxSettlements /\ MaxSettlements \in Nat
    BY LengthType DEF Recorded, Settle, NetworkViewAssumption
  <2>2. Recorded + 1 \in 1..MaxSettlements
    BY <2>1
  <2> QED
    BY <2>2 DEF Settlement
<1>2. log' = [log EXCEPT ![kind] = Append(log[kind], s)]
  BY DEF Settle
<1> HIDE DEF s
<1>3. log' \in [Kinds -> Seq(Settlement)]
  <2>1. log[kind] \in Seq(Settlement)
    BY DEF IInv
  <2>2. Append(log[kind], s) \in Seq(Settlement)
    BY <1>1, <2>1, AppendSound
  <2> QED
    BY <1>2, <2>2 DEF IInv
<1>4. \A k \in Kinds : Len(log'[k]) = IF k = kind THEN Len(log[k]) + 1 ELSE Len(log[k])
  <2>1. log[kind] \in Seq(Settlement)
    BY DEF IInv
  <2>2. Len(Append(log[kind], s)) = Len(log[kind]) + 1
    BY <1>1, <2>1
  <2> QED
    BY <1>2, <2>2 DEF IInv
<1>5. \A k \in Kinds : Emitted(k)' \in Nat /\ Emitted(k) <= Emitted(k)'
  <2> SUFFICES ASSUME NEW k \in Kinds
               PROVE  Emitted(k)' \in Nat /\ Emitted(k) <= Emitted(k)'
    OBVIOUS
  <2>1. Emitted(k)' = IF k = kind THEN Emitted(k) + 1 ELSE Emitted(k)
    BY <1>4 DEF Emitted
  <2>2. Emitted(k) \in Nat
    BY LengthType
  <2> QED
    BY <2>1, <2>2
<1>6. registrations' = registrations /\ Len(registrations) \in Nat
  BY LengthType DEF Settle
<1> QED
  BY <1>3, <1>5, <1>6 DEF Grows

LEMMA RegisterGrows ==
    ASSUME IInv, NEW keeper \in Keepers, Register(keeper)
    PROVE  registrations' \in Seq(Keepers) /\ Grows
<1>1. registrations \in Seq(Keepers) /\ registrations' = Append(registrations, keeper)
  BY DEF IInv, Register
<1>2. registrations' \in Seq(Keepers) /\ Len(registrations') = Len(registrations) + 1
      /\ Len(registrations) \in Nat
  BY <1>1
<1>3. \A k \in Kinds : Emitted(k)' = Emitted(k) /\ Emitted(k) \in Nat
  BY LengthType DEF Register, Emitted
<1> QED
  BY <1>2, <1>3 DEF Grows

LEMMA SeqMonotone ==
    ASSUME NEW S, NEW T, S \subseteq T, NEW s \in Seq(S)
    PROVE  s \in Seq(T)
OBVIOUS

LEMMA GrowthKeepsInv ==
    ASSUME IInv, Grows, UNCHANGED <<refresh, view, loading>>,
           log' \in [Kinds -> Seq(Settlement)], registrations' \in Seq(Keepers)
    PROVE  IInv'
<1>1. refresh' \in Seq(SoundRefresh')
  BY GrowthKeepsSound, SeqMonotone DEF IInv
<1>2. view' \in Contents /\ TotalNotAhead' /\ loading' \in BOOLEAN
  BY DEF IInv, TotalNotAhead
<1>3. IsOfChain(view)'
  BY GrowthKeepsContents DEF IInv, IsOfChain, Recorded
<1> QED
  BY <1>1, <1>2, <1>3 DEF IInv

\* Without a step of the chain it is enough to look at what the refreshes hold.
LEMMA ReadingKeepsInv ==
    ASSUME IInv, UNCHANGED chainVars, refresh' \in Seq(SoundRefresh), loading' \in BOOLEAN,
           view' \in Contents, IsOfChain(view'),
           view'.total <= view'.drained["binary"] + view'.drained["range"]
    PROVE  IInv'
<1>1. \A k : Emitted(k)' = Emitted(k)
  BY DEF chainVars, Emitted
<1>2. SoundRefresh' = SoundRefresh
  BY DEF chainVars, SoundRefresh, IsOfChain, Sound, Recorded, Emitted
<1>3. IsOfChain(view)'
  BY <1>1 DEF IsOfChain, Recorded, chainVars
<1> QED
  BY <1>2, <1>3 DEF IInv, chainVars, TotalNotAhead

LEMMA InvStep ==
    ASSUME NetworkViewAssumption, IInv, [Next]_vars
    PROVE  IInv'
<1>1. ASSUME NEW keeper \in Keepers, NEW kind \in Kinds, Settle(kind, keeper) PROVE IInv'
  BY <1>1, SettleGrows, GrowthKeepsInv DEF Settle, IInv
<1>2. ASSUME NEW keeper \in Keepers, Register(keeper) PROVE IInv'
  BY <1>2, RegisterGrows, GrowthKeepsInv DEF Register, IInv
<1>3. ASSUME UNCHANGED <<chainVars, view>>, refresh' \in Seq(SoundRefresh), loading' \in BOOLEAN
      PROVE IInv'
  BY <1>3, ReadingKeepsInv DEF IInv, TotalNotAhead
<1>4. CASE Poll
  BY <1>3, <1>4, StartedSound, AppendSound DEF Poll, IInv
<1>5. ASSUME NEW r \in DOMAIN refresh, ReadRegistry(r) \/ ReadRegistrations(r) PROVE IInv'
  BY <1>3, <1>5, ReadSound DEF ReadRegistry, ReadRegistrations, IInv
<1>6. ASSUME NEW r \in DOMAIN refresh, NEW kind \in Kinds, Drain(r, kind) PROVE IInv'
  BY <1>3, <1>6, DrainSound DEF Drain, IInv
<1>7. ASSUME NEW r \in DOMAIN refresh, Show(r) PROVE IInv'
  BY <1>7, ShowSound, EndedSound, ReadingKeepsInv DEF Show
<1>8. ASSUME NEW r \in DOMAIN refresh, Fail(r) PROVE IInv'
  BY <1>3, <1>8, EndedSound DEF Fail
<1>9. CASE UNCHANGED vars
  BY <1>3, <1>9 DEF vars, IInv
<1> QED
  BY <1>1, <1>2, <1>4, <1>5, <1>6, <1>7, <1>8, <1>9 DEF Next, Normal, Chain, RefreshStep

LEMMA Inv == Spec => []IInv
<1>1. Init => IInv
  <2> SUFFICES ASSUME Init PROVE IInv
    OBVIOUS
  <2>1. /\ log \in [Kinds -> Seq(Settlement)] /\ registrations \in Seq(Keepers)
        /\ loading \in BOOLEAN /\ view = NoContents
        /\ \A k \in Kinds : Emitted(k) = 0
        /\ Len(registrations) = 0
    BY DEF Init, Emitted
  <2>2. /\ view.total = 0 /\ view.known = 0 /\ \A k \in Kinds : view.drained[k] = 0
        /\ view \in Contents
    BY <2>1 DEF NoContents, NothingRead, Contents, Lengths
  <2>3. TotalNotAhead /\ IsOfChain(view)
    BY <2>1, <2>2 DEF TotalNotAhead, IsOfChain, Recorded, Kinds
  <2>4. Started \in SoundRefresh
    <3>1. Started.got = view /\ Started.phase = "reads" /\ Started.todo = Reads
      BY <2>1 DEF Started
    <3>2. Started \in Refresh
      BY <2>1, <2>2 DEF Started, Refresh
    <3>3. Started.got.total <= 0 + 0 /\ 0 <= Emitted("binary") /\ 0 <= Emitted("range")
      BY <2>1, <2>2, <3>1 DEF Kinds
    <3>4. Sound(Started)
      BY <3>1, <3>3 DEF Sound
    <3> QED
      BY <2>3, <3>1, <3>2, <3>4 DEF SoundRefresh
  <2>5. refresh \in Seq(SoundRefresh)
    BY <2>4 DEF Init
  <2> QED
    BY <2>1, <2>2, <2>3, <2>5 DEF IInv
<1>2. IInv /\ [Next]_vars => IInv'
  BY InvStep, NetworkViewAssumption
<1> QED
  BY <1>1, <1>2, PTL DEF Spec

\* Whatever refreshes are under way, each holds, and the hook shows, a prefix of each
\* stream of the chain: nothing is shown twice and nothing that did not happen.
THEOREM TypeCorrect == Spec => []TypeOK
<1>1. IInv => TypeOK
  <2> SUFFICES ASSUME IInv PROVE TypeOK
    OBVIOUS
  <2>1. SoundRefresh \subseteq Refresh
    BY DEF SoundRefresh
  <2>2. refresh \in Seq(Refresh)
    BY <2>1, SeqMonotone DEF IInv
  <2>3. \A r \in DOMAIN refresh : IsOfChain(refresh[r].got)
    BY ElementSound
  <2> QED
    BY <2>2, <2>3 DEF IInv, TypeOK
<1> QED
  BY <1>1, Inv, PTL

\* The total is never ahead of the events shown beside it, with keepers settling
\* between any two calls of any number of refreshes.
THEOREM TotalBehind == Spec => []TotalNotAhead
<1>1. IInv => TotalNotAhead
  BY DEF IInv
<1> QED
  BY <1>1, Inv, PTL
-----------------------------------------------------------------------------
(***************************************************************************)
(* Sorted is a permutation in the order Before: the place of an event, the *)
(* number of events before it, is different for different events and less  *)
(* than their number, so every place is taken.                             *)
(***************************************************************************)
Ahead(s, i) == {j \in DOMAIN s : Before(s, j, i)}
Place(s, i) == Cardinality(Ahead(s, i)) + 1
At(s, n) == CHOOSE i \in DOMAIN s : Cardinality(Ahead(s, i)) = n - 1

LEMMA SortedAt ==
    ASSUME NEW s
    PROVE  Sorted(s) = [n \in DOMAIN s |-> s[At(s, n)]]
BY DEF Sorted, At, Ahead

\* Any two events are in the order, and it is one.
LEMMA BeforeOrders ==
    ASSUME NetworkViewAssumption, NEW s \in Seq(Settlement)
    PROVE  /\ \A i \in DOMAIN s : i \in Nat /\ TimeOf[s[i].number] \in Nat
           /\ \A i, j \in DOMAIN s : i = j \/ Before(s, i, j) \/ Before(s, j, i)
           /\ \A i \in DOMAIN s : ~ Before(s, i, i)
           /\ \A i, j, k \in DOMAIN s : Before(s, i, j) /\ Before(s, j, k) => Before(s, i, k)
<1>1. \A i \in DOMAIN s : i \in Nat /\ TimeOf[s[i].number] \in Nat
  <2> SUFFICES ASSUME NEW i \in DOMAIN s PROVE i \in Nat /\ TimeOf[s[i].number] \in Nat
    OBVIOUS
  <2>1. i \in Nat /\ s[i] \in Settlement
    OBVIOUS
  <2>2. s[i].number \in 1..MaxSettlements
    BY <2>1 DEF Settlement
  <2> QED
    BY <2>1, <2>2 DEF NetworkViewAssumption
<1>2. ASSUME NEW i \in DOMAIN s, NEW j \in DOMAIN s
      PROVE  i = j \/ Before(s, i, j) \/ Before(s, j, i)
  <2>1. /\ i \in Nat /\ TimeOf[s[i].number] \in Nat
        /\ j \in Nat /\ TimeOf[s[j].number] \in Nat
    BY <1>1
  <2> QED
    BY <2>1 DEF Before
<1>3. ASSUME NEW i \in DOMAIN s PROVE ~ Before(s, i, i)
  <2>1. i \in Nat /\ TimeOf[s[i].number] \in Nat
    BY <1>1
  <2> QED
    BY <2>1 DEF Before
<1>4. ASSUME NEW i \in DOMAIN s, NEW j \in DOMAIN s, NEW k \in DOMAIN s,
             Before(s, i, j), Before(s, j, k)
      PROVE  Before(s, i, k)
  <2> DEFINE t(x) == TimeOf[s[x].number]
  <2>1. /\ i \in Nat /\ j \in Nat /\ k \in Nat
        /\ t(i) \in Nat /\ t(j) \in Nat /\ t(k) \in Nat
    BY <1>1
  <2>2. /\ t(i) > t(j) \/ (t(i) = t(j) /\ i < j)
        /\ t(j) > t(k) \/ (t(j) = t(k) /\ j < k)
    BY <1>4 DEF Before
  <2>3. t(i) > t(k) \/ (t(i) = t(k) /\ i < k)
    <3> HIDE DEF t
    <3> QED
      BY <2>1, <2>2
  <2> QED
    BY <2>3 DEF Before
<1> QED
  BY <1>1, <1>2, <1>3, <1>4

LEMMA PlaceType ==
    ASSUME NetworkViewAssumption, NEW s \in Seq(Settlement), NEW i \in DOMAIN s
    PROVE  /\ IsFiniteSet(Ahead(s, i)) /\ Cardinality(Ahead(s, i)) \in Nat
           /\ Place(s, i) \in 1..Len(s)
<1>1. Len(s) \in Nat /\ DOMAIN s = 1..Len(s)
  OBVIOUS
<1>2. IsFiniteSet(DOMAIN s) /\ Cardinality(DOMAIN s) = Len(s)
  <2>1. Cardinality(1..Len(s)) = IF 1 > Len(s) THEN 0 ELSE Len(s) - 1 + 1
    BY <1>1, FS_Interval
  <2>2. IsFiniteSet(1..Len(s))
    BY <1>1, FS_Interval
  <2> QED
    BY <1>1, <2>1, <2>2
<1>3. Ahead(s, i) \in SUBSET (DOMAIN s \ {i})
  BY BeforeOrders DEF Ahead
<1>4. IsFiniteSet(DOMAIN s \ {i}) /\ Cardinality(DOMAIN s \ {i}) = Len(s) - 1
  <2>1. IsFiniteSet(DOMAIN s \ {i})
    BY <1>2, FS_RemoveElement
  <2>2. Cardinality(DOMAIN s \ {i}) = Cardinality(DOMAIN s) - 1
    BY <1>2, FS_RemoveElement
  <2> QED
    BY <1>2, <2>1, <2>2
<1>5. IsFiniteSet(Ahead(s, i)) /\ Cardinality(Ahead(s, i)) <= Len(s) - 1
  BY <1>3, <1>4, FS_Subset
<1>6. Cardinality(Ahead(s, i)) \in Nat
  BY <1>5, FS_CardinalityType
<1> QED
  BY <1>1, <1>5, <1>6 DEF Place

LEMMA PlaceOrders ==
    ASSUME NetworkViewAssumption, NEW s \in Seq(Settlement),
           NEW i \in DOMAIN s, NEW j \in DOMAIN s, Before(s, i, j)
    PROVE  Place(s, i) < Place(s, j)
<1>1. Ahead(s, i) \in SUBSET Ahead(s, j) /\ i \in Ahead(s, j) /\ i \notin Ahead(s, i)
  BY BeforeOrders DEF Ahead
<1>2. /\ IsFiniteSet(Ahead(s, j)) /\ Cardinality(Ahead(s, j)) \in Nat
      /\ Cardinality(Ahead(s, i)) \in Nat
  BY PlaceType
<1>3. /\ Cardinality(Ahead(s, i)) <= Cardinality(Ahead(s, j))
      /\ Cardinality(Ahead(s, i)) # Cardinality(Ahead(s, j))
  BY <1>1, <1>2, FS_Subset
<1> QED
  BY <1>2, <1>3 DEF Place

LEMMA PlacesTaken ==
    ASSUME NetworkViewAssumption, NEW s \in Seq(Settlement), NEW n \in 1..Len(s)
    PROVE  \E i \in DOMAIN s : Place(s, i) = n
<1> DEFINE place == [i \in DOMAIN s |-> Place(s, i)]
<1>1. DOMAIN s = 1..Len(s) /\ Len(s) \in Nat
  OBVIOUS
<1>2. place \in [DOMAIN s -> 1..Len(s)]
  BY PlaceType
<1>3. \A i, j \in DOMAIN s : place[i] = place[j] => i = j
  <2> SUFFICES ASSUME NEW i \in DOMAIN s, NEW j \in DOMAIN s, Place(s, i) = Place(s, j)
               PROVE  i = j
    OBVIOUS
  <2>1. ~ (Place(s, i) < Place(s, j)) /\ ~ (Place(s, j) < Place(s, i))
    BY <1>1, PlaceType
  <2> QED
    BY <2>1, PlaceOrders, BeforeOrders
<1>4. place \in Injection(DOMAIN s, 1..Len(s))
  BY <1>2, <1>3 DEF Injection, IsInjective
<1>5. IsFiniteSet(1..Len(s))
  BY <1>1, FS_Interval
<1>6. place \in Surjection(DOMAIN s, 1..Len(s))
  BY <1>1, <1>4, <1>5, FS_Injection
<1> QED
  BY <1>6 DEF Surjection

LEMMA AtPlace ==
    ASSUME NetworkViewAssumption, NEW s \in Seq(Settlement), NEW n \in 1..Len(s)
    PROVE  At(s, n) \in DOMAIN s /\ Place(s, At(s, n)) = n
<1>1. PICK i \in DOMAIN s : Place(s, i) = n
  BY PlacesTaken
<1>2. Cardinality(Ahead(s, i)) = n - 1
  <2>1. Cardinality(Ahead(s, i)) \in Nat /\ Cardinality(Ahead(s, i)) + 1 = n
    BY <1>1, PlaceType DEF Place
  <2> QED
    BY <2>1
<1>3. At(s, n) \in DOMAIN s /\ Cardinality(Ahead(s, At(s, n))) = n - 1
  BY <1>2 DEF At
<1> QED
  BY <1>3 DEF Place

\* The rows are the events, each once, and none is newer than an earlier row.
LEMMA SortedRows ==
    ASSUME NetworkViewAssumption, NEW s \in Seq(Settlement)
    PROVE  /\ Sorted(s) \in Seq(Settlement) /\ Len(Sorted(s)) = Len(s)
           /\ \A n \in 1..Len(s) : At(s, n) \in 1..Len(s) /\ Sorted(s)[n] = s[At(s, n)]
           /\ \A i \in 1..Len(s) : \E n \in 1..Len(s) : At(s, n) = i
           /\ \A m, n \in 1..Len(s) : At(s, m) = At(s, n) => m = n
           /\ \A m, n \in 1..Len(s) :
                 m < n => TimeOf[Sorted(s)[m].number] >= TimeOf[Sorted(s)[n].number]
<1>1. DOMAIN s = 1..Len(s) /\ Len(s) \in Nat
  OBVIOUS
<1>2. \A n \in 1..Len(s) : At(s, n) \in 1..Len(s) /\ Sorted(s)[n] = s[At(s, n)]
  BY <1>1, AtPlace, SortedAt
<1>3. Sorted(s) \in Seq(Settlement) /\ Len(Sorted(s)) = Len(s)
  <2>1. \A n \in 1..Len(s) : s[At(s, n)] \in Settlement
    BY <1>1, <1>2
  <2>2. Sorted(s) = [n \in 1..Len(s) |-> s[At(s, n)]]
    BY <1>1, SortedAt
  <2> QED
    BY <1>1, <2>1, <2>2
<1>4. \A m, n \in 1..Len(s) : At(s, m) = At(s, n) => m = n
  BY AtPlace
<1>5. \A i \in 1..Len(s) : \E n \in 1..Len(s) : At(s, n) = i
  <2> SUFFICES ASSUME NEW i \in 1..Len(s) PROVE \E n \in 1..Len(s) : At(s, n) = i
    OBVIOUS
  <2>1. i \in DOMAIN s /\ Place(s, i) \in 1..Len(s)
    BY <1>1, PlaceType
  <2> DEFINE j == At(s, Place(s, i))
  <2>2. j \in DOMAIN s /\ Place(s, j) = Place(s, i)
    BY <2>1, AtPlace
  <2>3. ~ (Place(s, i) < Place(s, j)) /\ ~ (Place(s, j) < Place(s, i))
    BY <2>1, <2>2
  <2>4. j = i
    BY <2>1, <2>2, <2>3, PlaceOrders, BeforeOrders
  <2> QED
    BY <2>1, <2>4
<1>6. ASSUME NEW m \in 1..Len(s), NEW n \in 1..Len(s), m < n
      PROVE  TimeOf[Sorted(s)[m].number] >= TimeOf[Sorted(s)[n].number]
  <2> DEFINE i == At(s, m)
             j == At(s, n)
  <2>1. i \in DOMAIN s /\ j \in DOMAIN s /\ Place(s, i) = m /\ Place(s, j) = n
    BY AtPlace
  <2> HIDE DEF i, j
  <2>2. i # j /\ ~ (n < m)
    BY <1>6, <2>1
  <2>3. Before(s, i, j)
    BY <2>1, <2>2, PlaceOrders, BeforeOrders
  <2>4. TimeOf[s[i].number] >= TimeOf[s[j].number]
    <3> DEFINE a == TimeOf[s[i].number]
               b == TimeOf[s[j].number]
    <3>1. a \in Nat /\ b \in Nat
      BY <2>1, BeforeOrders
    <3>2. a > b \/ a = b
      BY <2>3 DEF Before
    <3> HIDE DEF a, b
    <3>3. a >= b
      BY <3>1, <3>2
    <3> QED
      BY <3>3 DEF a, b
  <2> QED
    BY <1>2, <2>4 DEF i, j
<1> QED
  BY <1>2, <1>3, <1>4, <1>5, <1>6
LEMMA Prefix ==
    ASSUME NEW S, NEW s \in Seq(S), NEW n \in 0..Len(s)
    PROVE  /\ SubSeq(s, 1, n) \in Seq(S) /\ Len(SubSeq(s, 1, n)) = n
           /\ \A i \in 1..n : i \in 1..Len(s) /\ SubSeq(s, 1, n)[i] = s[i]
OBVIOUS

LEMMA Concatenated ==
    ASSUME NEW S, NEW s \in Seq(S), NEW t \in Seq(S)
    PROVE  /\ s \o t \in Seq(S) /\ Len(s \o t) = Len(s) + Len(t)
           /\ \A i \in 1..(Len(s) + Len(t)) :
                 (s \o t)[i] = IF i <= Len(s) THEN s[i] ELSE t[i - Len(s)]
OBVIOUS

\* What is drained of two streams, one after the other, and the events in it.
Rows(b, m, c, n) == SubSeq(b, 1, m) \o SubSeq(c, 1, n)
EventsIn(b, m, c, n) == {b[i] : i \in 1..m} \cup {c[i] : i \in 1..n}

LEMMA RowsListed ==
    ASSUME NetworkViewAssumption, NEW b \in Seq(Settlement), NEW c \in Seq(Settlement),
           NEW m \in 0..Len(b), NEW n \in 0..Len(c)
    PROVE  Listed(Sorted(Rows(b, m, c, n))) = EventsIn(b, m, c, n)
<1> DEFINE s == SubSeq(b, 1, m)
           t == SubSeq(c, 1, n)
<1>1. /\ s \in Seq(Settlement) /\ Len(s) = m /\ \A i \in 1..m : s[i] = b[i]
      /\ t \in Seq(Settlement) /\ Len(t) = n /\ \A i \in 1..n : t[i] = c[i]
  BY Prefix
<1> HIDE DEF s, t
<1>2. m \in Nat /\ n \in Nat
  OBVIOUS
<1>3. /\ s \o t \in Seq(Settlement) /\ Len(s \o t) = m + n
      /\ \A i \in 1..m : (s \o t)[i] = b[i]
      /\ \A i \in 1..n : m + i \in 1..(m + n) /\ (s \o t)[m + i] = c[i]
      /\ \A i \in 1..(m + n) : i \in 1..m \/ (i - m \in 1..n /\ (s \o t)[i] = c[i - m])
  <2>1. s \o t \in Seq(Settlement) /\ Len(s \o t) = m + n
    BY <1>1, Concatenated
  <2>2. \A i \in 1..(m + n) : (s \o t)[i] = IF i <= m THEN s[i] ELSE t[i - m]
    BY <1>1, <1>2
  <2>3. \A i \in 1..m : i \in 1..(m + n) /\ i <= m
    BY <1>2
  <2>4. \A i \in 1..n : m + i \in 1..(m + n) /\ ~ (m + i <= m) /\ (m + i) - m = i
    BY <1>2
  <2>5. \A i \in 1..(m + n) : i \in 1..m \/ (i - m \in 1..n /\ ~ (i <= m))
    BY <1>2
  <2>6. \A i \in 1..m : (s \o t)[i] = b[i]
    BY <1>1, <2>2, <2>3
  <2>7. \A i \in 1..n : (s \o t)[m + i] = c[i]
    BY <1>1, <2>2, <2>4
  <2>8. \A i \in 1..(m + n) : i \in 1..m \/ (i - m \in 1..n /\ (s \o t)[i] = c[i - m])
    BY <1>1, <2>2, <2>5
  <2> QED
    BY <2>1, <2>4, <2>6, <2>7, <2>8
<1>4. Listed(Sorted(s \o t)) = {(s \o t)[i] : i \in 1..(m + n)}
  <2> DEFINE u == s \o t
  <2>1. u \in Seq(Settlement) /\ Len(u) = m + n
    BY <1>3
  <2> HIDE DEF u
  <2>2. /\ Sorted(u) \in Seq(Settlement) /\ Len(Sorted(u)) = m + n
        /\ \A k \in 1..(m + n) : At(u, k) \in 1..(m + n) /\ Sorted(u)[k] = u[At(u, k)]
        /\ \A i \in 1..(m + n) : \E k \in 1..(m + n) : At(u, k) = i
    BY <2>1, SortedRows
  <2>3. DOMAIN Sorted(u) = 1..(m + n)
    BY <2>2
  <2>4. Listed(Sorted(u)) = {Sorted(u)[k] : k \in 1..(m + n)}
    BY <2>3 DEF Listed
  <2>5. ASSUME NEW i \in 1..(m + n) PROVE \E k \in 1..(m + n) : Sorted(u)[k] = u[i]
    <3>1. PICK k \in 1..(m + n) : At(u, k) = i
      BY <2>2
    <3> QED
      BY <2>2, <3>1
  <2>6. ASSUME NEW k \in 1..(m + n) PROVE \E i \in 1..(m + n) : Sorted(u)[k] = u[i]
    BY <2>2
  <2> DEFINE rows == {Sorted(u)[k] : k \in 1..(m + n)}
             all == {u[i] : i \in 1..(m + n)}
  <2>7. \A x \in rows : x \in all
    BY <2>6
  <2>8. \A x \in all : x \in rows
    <3> SUFFICES ASSUME NEW i \in 1..(m + n) PROVE u[i] \in rows
      OBVIOUS
    <3> QED
      BY <2>5
  <2>9. rows = all
    <3> HIDE DEF rows, all
    <3> QED
      BY <2>7, <2>8
  <2> QED
    BY <2>4, <2>9 DEF u
<1>5. {(s \o t)[i] : i \in 1..(m + n)} = {b[i] : i \in 1..m} \cup {c[i] : i \in 1..n}
  <2> DEFINE u == s \o t
  <2>1. \A i \in 1..m : i \in 1..(m + n) /\ u[i] = b[i]
    BY <1>2, <1>3
  <2>2. \A i \in 1..n : m + i \in 1..(m + n) /\ u[m + i] = c[i]
    BY <1>3
  <2>3. \A i \in 1..(m + n) : i \in 1..m \/ (i - m \in 1..n /\ u[i] = c[i - m])
    BY <1>3
  <2> HIDE DEF u
  <2>4. \A x \in {u[i] : i \in 1..(m + n)} : x \in {b[i] : i \in 1..m} \cup {c[i] : i \in 1..n}
    BY <2>1, <2>3
  <2>5. \A x \in {b[i] : i \in 1..m} : x \in {u[i] : i \in 1..(m + n)}
    BY <2>1
  <2>6. \A x \in {c[i] : i \in 1..n} : x \in {u[i] : i \in 1..(m + n)}
    BY <2>2
  <2>7. {u[i] : i \in 1..(m + n)} = {b[i] : i \in 1..m} \cup {c[i] : i \in 1..n}
    BY <2>4, <2>5, <2>6
  <2> QED
    BY <2>7 DEF u
<1> QED
  BY <1>4, <1>5 DEF s, t, Rows, EventsIn

-----------------------------------------------------------------------------
(***************************************************************************)
(* What the feed and the table rest on.  The streams hold every settlement *)
(* once (Numbered).  A refresh reads the total before it drains, so a      *)
(* finished drain has every settlement the total counts (Complete), and    *)
(* one that no other refresh ended beside has at least what is shown       *)
(* (Newer).                                                                *)
(***************************************************************************)
Numbered ==
    /\ \A k \in Kinds : \A i \in 1..Emitted(k) : log[k][i].number \in 1..Recorded
    /\ \A n \in 1..Recorded : \E k \in Kinds : \E i \in 1..Emitted(k) : log[k][i].number = n
    /\ \A k, l \in Kinds : \A i \in 1..Emitted(k), j \in 1..Emitted(l) :
          log[k][i].number = log[l][j].number => k = l /\ i = j

Has(contents, k) ==
    \A i \in 1..Emitted(k) : log[k][i].number <= contents.total => i <= contents.drained[k]

Complete(x) == \A k \in Kinds : x.phase = "drains" /\ k \notin x.todo => Has(x.got, k)

Newer(x) ==
    ~x.overlapped =>
        /\ "registrations" \notin x.todo => view.known <= x.got.known
        /\ \A k \in Kinds : x.phase = "drains" /\ k \notin x.todo =>
                                view.drained[k] <= x.got.drained[k]

Refreshing == \A r \in DOMAIN refresh : Complete(refresh[r]) /\ Newer(refresh[r])

FeedInv ==
    /\ IInv
    /\ Numbered
    /\ \A k \in Kinds : Has(view, k)
    /\ Refreshing

LEMMA SettleAppends ==
    ASSUME IInv, NEW kind \in Kinds, NEW keeper \in Keepers, Settle(kind, keeper)
    PROVE  /\ Recorded \in Nat /\ Recorded' = Recorded + 1
           /\ \A k \in Kinds : Emitted(k) \in Nat
           /\ \A k \in Kinds : Emitted(k)' = IF k = kind THEN Emitted(k) + 1 ELSE Emitted(k)
           /\ \A k \in Kinds : \A i \in 1..Emitted(k) : log'[k][i] = log[k][i]
           /\ log'[kind][Emitted(kind) + 1].number = Recorded + 1
<1> DEFINE s == [keeper |-> keeper, number |-> Recorded + 1]
<1>1. log' = [log EXCEPT ![kind] = Append(log[kind], s)] /\ s.number = Recorded + 1
  BY DEF Settle
<1> HIDE DEF s
<1>2. /\ log \in [Kinds -> Seq(Settlement)]
      /\ \A k \in Kinds : Emitted(k) \in Nat /\ Emitted(k) = Len(log[k])
  BY LengthType DEF IInv, Emitted
<1>3. /\ \A k \in Kinds : log'[k] = IF k = kind THEN Append(log[k], s) ELSE log[k]
      /\ \A k \in Kinds : Emitted(k)' = Len(log'[k])
  BY <1>1, <1>2 DEF Emitted
<1>4. \A k \in Kinds : /\ Len(Append(log[k], s)) = Len(log[k]) + 1
                       /\ \A i \in 1..Len(log[k]) : Append(log[k], s)[i] = log[k][i]
                       /\ Append(log[k], s)[Len(log[k]) + 1] = s
  BY <1>2
<1>5. \A k \in Kinds : Emitted(k)' = IF k = kind THEN Emitted(k) + 1 ELSE Emitted(k)
  <2> SUFFICES ASSUME NEW k \in Kinds
               PROVE  Emitted(k)' = IF k = kind THEN Emitted(k) + 1 ELSE Emitted(k)
    OBVIOUS
  <2>1. Emitted(k)' = Len(log'[k]) /\ Emitted(k) = Len(log[k])
    BY <1>2, <1>3
  <2>2. CASE k = kind
    BY <1>3, <1>4, <2>1, <2>2
  <2>3. CASE k # kind
    BY <1>3, <2>1, <2>3
  <2> QED
    BY <2>2, <2>3
<1>6. \A k \in Kinds : \A i \in 1..Emitted(k) : log'[k][i] = log[k][i]
  BY <1>2, <1>3, <1>4
<1>7. log'[kind][Emitted(kind) + 1] = s
  BY <1>2, <1>3, <1>4
<1>8. Recorded \in Nat /\ Recorded' = Recorded + 1
  BY <1>2, <1>5 DEF Recorded, Kinds
<1> QED
  BY <1>1, <1>2, <1>5, <1>6, <1>7, <1>8

LEMMA SettleNumbered ==
    ASSUME IInv, Numbered, NEW kind \in Kinds, NEW keeper \in Keepers, Settle(kind, keeper)
    PROVE  Numbered'
<1> DEFINE new == Emitted(kind) + 1
<1>1. /\ Recorded \in Nat /\ Recorded' = Recorded + 1
      /\ \A k \in Kinds : Emitted(k) \in Nat
      /\ \A k \in Kinds : Emitted(k)' = IF k = kind THEN Emitted(k) + 1 ELSE Emitted(k)
      /\ \A k \in Kinds : \A i \in 1..Emitted(k) : log'[k][i] = log[k][i]
      /\ log'[kind][new].number = Recorded + 1
  BY SettleAppends
<1>2. \A k \in Kinds : \A i \in 1..Emitted(k)' : i \in 1..Emitted(k) \/ (k = kind /\ i = new)
  BY <1>1
<1>3. \A k \in Kinds : \A i \in 1..Emitted(k) : i \in 1..Emitted(k)'
  BY <1>1
<1>4. new \in 1..Emitted(kind)'
  BY <1>1
<1> HIDE DEF new
<1>5. \A k \in Kinds : \A i \in 1..Emitted(k) :
          log'[k][i].number \in 1..Recorded /\ log'[k][i].number # Recorded + 1
  BY <1>1 DEF Numbered
<1>6. \A k \in Kinds : \A i \in 1..Emitted(k)' : log'[k][i].number \in 1..(Recorded + 1)
  BY <1>1, <1>2, <1>5
<1>7. ASSUME NEW n \in 1..(Recorded + 1)
      PROVE  \E k \in Kinds : \E i \in 1..Emitted(k)' : log'[k][i].number = n
  <2>1. CASE n = Recorded + 1
    BY <1>1, <1>4, <2>1
  <2>2. CASE n # Recorded + 1
    <3>1. n \in 1..Recorded
      BY <1>1, <2>2
    <3>2. PICK k \in Kinds : \E i \in 1..Emitted(k) : log[k][i].number = n
      BY <3>1 DEF Numbered
    <3>3. PICK i \in 1..Emitted(k) : log[k][i].number = n
      BY <3>2
    <3> QED
      BY <1>1, <1>3, <3>3
  <2> QED
    BY <2>1, <2>2
<1>8. ASSUME NEW k \in Kinds, NEW l \in Kinds, NEW i \in 1..Emitted(k)', NEW j \in 1..Emitted(l)',
             log'[k][i].number = log'[l][j].number
      PROVE  k = l /\ i = j
  <2>1. CASE i \in 1..Emitted(k) /\ j \in 1..Emitted(l)
    <3>1. log[k][i].number = log[l][j].number
      BY <1>1, <1>8, <2>1
    <3> QED
      BY <2>1, <3>1 DEF Numbered
  <2>2. CASE k = kind /\ i = new /\ j \in 1..Emitted(l)
    BY <1>1, <1>5, <1>8, <2>2
  <2>3. CASE l = kind /\ j = new /\ i \in 1..Emitted(k)
    BY <1>1, <1>5, <1>8, <2>3
  <2>4. CASE k = kind /\ i = new /\ l = kind /\ j = new
    BY <2>4
  <2> QED
    BY <1>2, <2>1, <2>2, <2>3, <2>4
<1> QED
  BY <1>1, <1>6, <1>7, <1>8 DEF Numbered

\* A new settlement has a number no total counts yet.
LEMMA SettleHas ==
    ASSUME IInv, NEW kind \in Kinds, NEW keeper \in Keepers, Settle(kind, keeper),
           NEW x \in Contents, IsOfChain(x), NEW k \in Kinds, Has(x, k)
    PROVE  Has(x, k)'
<1>1. /\ Recorded \in Nat
      /\ Emitted(k) \in Nat
      /\ Emitted(k)' = IF k = kind THEN Emitted(k) + 1 ELSE Emitted(k)
      /\ \A i \in 1..Emitted(k) : log'[k][i] = log[k][i]
      /\ k = kind => log'[k][Emitted(k) + 1].number = Recorded + 1
  BY SettleAppends
<1>2. x.total \in Nat /\ x.total <= Recorded
  BY DEF Contents, IsOfChain
<1>3. \A i \in 1..Emitted(k)' : i \in 1..Emitted(k) \/ (k = kind /\ i = Emitted(k) + 1)
  BY <1>1
<1>4. ~ (Recorded + 1 <= x.total)
  BY <1>1, <1>2
<1> QED
  BY <1>1, <1>3, <1>4 DEF Has

-----------------------------------------------------------------------------
(* One lemma per step of a refresh. *)

LEMMA ReplaceRefreshing ==
    ASSUME IInv, Refreshing, NEW r \in DOMAIN refresh, NEW y,
           refresh' = [refresh EXCEPT ![r] = y], UNCHANGED <<log, view>>,
           Complete(y), Newer(y)
    PROVE  Refreshing'
<1>1. DOMAIN refresh' = DOMAIN refresh
  OBVIOUS
<1>2. \A q \in DOMAIN refresh : refresh'[q] = IF q = r THEN y ELSE refresh[q]
  OBVIOUS
<1>3. \A q \in DOMAIN refresh : Complete(refresh'[q]) /\ Newer(refresh'[q])
  BY <1>2 DEF Refreshing
<1>4. \A x : (Complete(x) => Complete(x)') /\ (Newer(x) => Newer(x)')
  BY DEF Complete, Newer, Has, Emitted
<1>5. \A q \in DOMAIN refresh : Complete(refresh[q])' /\ Newer(refresh[q])'
  BY <1>3 DEF Complete, Newer, Has, Emitted
<1> QED
  BY <1>1, <1>5 DEF Refreshing

LEMMA ReturnedRefreshing ==
    ASSUME IInv, Refreshing, NEW r \in DOMAIN refresh, NEW call, NEW got,
           Returned(r, call, got), UNCHANGED <<log, view>>,
           \A k \in Kinds : refresh[r].phase = "drains" /\ k \notin refresh[r].todo \ {call} =>
               Has(got, k) /\ (~refresh[r].overlapped => view.drained[k] <= got.drained[k]),
           "registrations" \notin refresh[r].todo \ {call} /\ ~refresh[r].overlapped =>
               view.known <= got.known
    PROVE  Refreshing'
<1> DEFINE x == refresh[r]
           todo == x.todo \ {call}
           y == After(x, call, got)
<1>1. x \in Refresh /\ Sound(x)
  BY ElementSound
<1>2. /\ y.got = got /\ y.overlapped = x.overlapped
      /\ y.phase = IF todo = {} THEN "drains" ELSE x.phase
      /\ y.todo = IF todo = {} /\ x.phase = "reads" THEN Kinds ELSE todo
  BY <1>1 DEF Refresh, After
<1>3. x.phase = "reads" \/ x.phase = "drains"
  BY <1>1 DEF Refresh
<1>4. \A k \in Kinds : y.phase = "drains" /\ k \notin y.todo =>
          Has(got, k) /\ (~x.overlapped => view.drained[k] <= got.drained[k])
  BY <1>2, <1>3
<1>5. "registrations" \notin y.todo => "registrations" \notin todo
  BY <1>2
<1> HIDE DEF y
<1>6. Complete(y) /\ Newer(y)
  BY <1>2, <1>4, <1>5 DEF Complete, Newer
<1>7. refresh' = [refresh EXCEPT ![r] = y]
  BY DEF Returned, y
<1> QED
  BY <1>6, <1>7, ReplaceRefreshing

LEMMA ReadRefreshing ==
    ASSUME IInv, Refreshing, NEW r \in DOMAIN refresh, ReadRegistry(r) \/ ReadRegistrations(r)
    PROVE  Refreshing'
<1> DEFINE x == refresh[r]
<1>1. x \in Refresh /\ x.got \in Contents /\ Sound(x) /\ Newer(x)
  BY ElementSound DEF Refreshing
<1>2. x.todo \cap Reads # {}
  BY DEF ReadRegistry, ReadRegistrations, Reads
<1>3. x.phase # "drains"
  BY <1>1, <1>2 DEF Sound, Refresh, Reads, Kinds
<1>4. UNCHANGED <<log, view>>
  BY DEF ReadRegistry, ReadRegistrations, chainVars
<1>5. CASE ReadRegistry(r)
  <2> DEFINE got == [x.got EXCEPT !.total = Recorded]
  <2>1. Returned(r, "registry", got)
    BY <1>5 DEF ReadRegistry
  <2>2. got.known = x.got.known
    BY <1>1 DEF Contents
  <2>3. "registrations" \notin x.todo \ {"registry"} => "registrations" \notin x.todo
    OBVIOUS
  <2> HIDE DEF got
  <2>4. "registrations" \notin x.todo \ {"registry"} /\ ~x.overlapped => view.known <= got.known
    BY <1>1, <2>2, <2>3 DEF Newer
  <2> QED
    BY <1>3, <1>4, <2>1, <2>4, ReturnedRefreshing
<1>6. CASE ReadRegistrations(r)
  <2> DEFINE got == [x.got EXCEPT !.known = Len(registrations)]
  <2>1. Returned(r, "registrations", got)
    BY <1>6 DEF ReadRegistrations
  <2>2. got.known = Len(registrations)
    BY <1>1 DEF Contents
  <2>3. view.known <= Len(registrations)
    BY DEF IInv, IsOfChain
  <2> HIDE DEF got
  <2> QED
    BY <1>3, <1>4, <2>1, <2>2, <2>3, ReturnedRefreshing
<1> QED
  BY <1>5, <1>6

LEMMA DrainRefreshing ==
    ASSUME IInv, Refreshing, NEW r \in DOMAIN refresh, NEW kind \in Kinds, Drain(r, kind)
    PROVE  Refreshing'
<1> DEFINE x == refresh[r]
           from == x.got.drained[kind]
           more == from + PageLimit < Emitted(kind)
           n == IF more THEN from + PageLimit ELSE Emitted(kind)
           got == [x.got EXCEPT !.drained[kind] = n]
<1>1. /\ x \in Refresh /\ x.got \in Contents /\ Sound(x) /\ Complete(x) /\ Newer(x)
      /\ x.got.drained \in [Kinds -> Nat]
  BY ElementSound DEF Refreshing
<1>2. kind \in x.todo
  BY DEF Drain
<1>3. x.phase = "drains"
  BY <1>1, <1>2 DEF Sound, Refresh, Reads, Kinds
<1>4. UNCHANGED <<log, view>>
  BY DEF Drain, chainVars
<1>5. /\ got.total = x.got.total /\ got.known = x.got.known
      /\ \A k \in Kinds : got.drained[k] = IF k = kind THEN n ELSE x.got.drained[k]
  <2> HIDE DEF n
  <2> QED
    BY <1>1 DEF Contents, Lengths
<1>6. \A k \in Kinds : k # kind /\ k \notin x.todo =>
          Has(got, k) /\ (~x.overlapped => view.drained[k] <= got.drained[k])
  <2> HIDE DEF got, n
  <2> QED
    BY <1>1, <1>3, <1>5 DEF Complete, Newer, Has
<1>7. "registrations" \notin x.todo /\ ~x.overlapped => view.known <= got.known
  <2> HIDE DEF got
  <2> QED
    BY <1>1, <1>5 DEF Newer
<1>8. CASE more
  <2> DEFINE y == [x EXCEPT !.got = got]
  <2>1. /\ y.got = got /\ y.phase = x.phase /\ y.todo = x.todo /\ y.overlapped = x.overlapped
    <3> HIDE DEF got
    <3> QED
      BY <1>1 DEF Refresh
  <2>2. refresh' = [refresh EXCEPT ![r] = y]
    BY <1>8 DEF Drain
  <2> HIDE DEF got, y
  <2>3. Complete(y) /\ Newer(y)
    BY <1>2, <1>6, <1>7, <2>1 DEF Complete, Newer
  <2> QED
    BY <1>4, <2>2, <2>3, ReplaceRefreshing
<1>9. CASE ~more
  <2>1. Returned(r, kind, got)
    BY <1>9 DEF Drain
  <2>2. got.drained[kind] = Emitted(kind)
    BY <1>5, <1>9
  <2>3. view.drained[kind] <= Emitted(kind) /\ Emitted(kind) \in Nat
    BY LengthType DEF IInv, IsOfChain
  <2> HIDE DEF got
  <2>4. Has(got, kind) /\ view.drained[kind] <= got.drained[kind]
    BY <2>2, <2>3 DEF Has
  <2>5. \A k \in Kinds : k \notin x.todo \ {kind} =>
            Has(got, k) /\ (~x.overlapped => view.drained[k] <= got.drained[k])
    BY <1>6, <2>4
  <2>6. "registrations" \notin x.todo \ {kind} => "registrations" \notin x.todo
    BY DEF Kinds
  <2> QED
    BY <1>4, <1>7, <2>1, <2>5, <2>6, ReturnedRefreshing
<1> QED
  BY <1>8, <1>9

\* A refresh that ends marks the others.
LEMMA EndedRefreshing ==
    ASSUME IInv, Refreshing, NEW r \in DOMAIN refresh, Ended(r), UNCHANGED log
    PROVE  Refreshing'
<1>1. Len(refresh) \in Nat /\ DOMAIN refresh = 1..Len(refresh) /\ r \in 1..Len(refresh)
  BY DEF IInv
<1>2. DOMAIN refresh' = 1..(Len(refresh) - 1)
  BY DEF Ended
<1> SUFFICES ASSUME NEW q \in 1..(Len(refresh) - 1)
             PROVE  Complete(refresh[q])' /\ Newer(refresh[q])'
  BY <1>2 DEF Refreshing
<1> DEFINE p == IF q < r THEN q ELSE q + 1
           x == refresh[p]
<1>3. p \in DOMAIN refresh
  BY <1>1
<1>4. refresh'[q] = [x EXCEPT !.overlapped = TRUE]
  BY DEF Ended
<1> HIDE DEF p
<1>5. x \in Refresh /\ Complete(x)
  BY <1>3, ElementSound DEF Refreshing
<1>6. /\ refresh'[q].overlapped = TRUE /\ refresh'[q].phase = x.phase
      /\ refresh'[q].todo = x.todo /\ refresh'[q].got = x.got
  BY <1>4, <1>5 DEF Refresh
<1> HIDE DEF x
<1>7. \A k \in Kinds : refresh'[q].phase = "drains" /\ k \notin refresh'[q].todo => Has(refresh'[q].got, k)
  BY <1>5, <1>6 DEF Complete
<1> QED
  BY <1>6, <1>7 DEF Complete, Newer, Has, Emitted

LEMMA FeedStep ==
    ASSUME NetworkViewAssumption, FeedInv, [Next]_vars
    PROVE  FeedInv'
<1>0. IInv' /\ IInv /\ Numbered /\ Refreshing
  BY InvStep DEF FeedInv
<1>1. ASSUME NEW keeper \in Keepers, NEW kind \in Kinds, Settle(kind, keeper) PROVE FeedInv'
  <2>1. Numbered'
    BY <1>0, <1>1, SettleNumbered
  <2>2. view' = view /\ refresh' = refresh
    BY <1>1 DEF Settle
  <2>3. \A k \in Kinds : Has(view, k)'
    <3>1. view \in Contents /\ IsOfChain(view) /\ \A k \in Kinds : Has(view, k)
      BY DEF FeedInv, IInv
    <3>2. ASSUME NEW k \in Kinds, NEW v, v = view PROVE Has(v, k)'
      BY <1>0, <1>1, <3>1, <3>2, SettleHas
    <3> QED
      BY <2>2, <3>2 DEF Has
  <2>4. ASSUME NEW r \in DOMAIN refresh PROVE Complete(refresh[r])' /\ Newer(refresh[r])'
    <3>1. /\ refresh[r].got \in Contents /\ IsOfChain(refresh[r].got)
          /\ Complete(refresh[r]) /\ Newer(refresh[r])
      BY <1>0, ElementSound DEF Refreshing
    <3>2. ASSUME NEW x, x = refresh[r] PROVE Complete(x)' /\ Newer(x)'
      <4>1. \A k \in Kinds : Has(x.got, k) => Has(x.got, k)'
        BY <1>0, <1>1, <3>1, <3>2, SettleHas
      <4> QED
        BY <2>2, <3>1, <3>2, <4>1 DEF Complete, Newer
    <3> QED
      BY <2>2, <3>2 DEF Complete, Newer, Has
  <2> QED
    BY <1>0, <2>1, <2>2, <2>3, <2>4 DEF FeedInv, Refreshing
<1>2. ASSUME UNCHANGED log PROVE Numbered'
  <2>1. (\A k : Emitted(k)' = Emitted(k)) /\ Recorded' = Recorded /\ log' = log
    BY <1>2 DEF Recorded, Emitted
  <2>2. \A k \in Kinds : \A i \in 1..Emitted(k)' : log'[k][i].number \in 1..Recorded'
    BY <1>0, <2>1 DEF Numbered
  <2>3. \A n \in 1..Recorded' :
            \E k \in Kinds : \E i \in 1..Emitted(k)' : log'[k][i].number = n
    BY <1>0, <2>1 DEF Numbered
  <2>4. \A k, l \in Kinds : \A i \in 1..Emitted(k)', j \in 1..Emitted(l)' :
            log'[k][i].number = log'[l][j].number => k = l /\ i = j
    BY <1>0, <2>1 DEF Numbered
  <2> QED
    BY <2>2, <2>3, <2>4 DEF Numbered
<1>3. ASSUME UNCHANGED <<log, view>>, Refreshing' PROVE FeedInv'
  BY <1>0, <1>2, <1>3 DEF FeedInv, Has, Emitted
<1>4. CASE UNCHANGED <<log, view, refresh>>
  <2>1. Refreshing'
    BY <1>0, <1>4 DEF Refreshing, Complete, Newer, Has, Emitted
  <2> QED
    BY <1>3, <1>4, <2>1
<1>5. CASE Poll
  <2>1. UNCHANGED <<log, view>> /\ refresh' = Append(refresh, Started)
    BY <1>5 DEF Poll, chainVars
  <2>2. refresh \in Seq(SoundRefresh)
    BY <1>0 DEF IInv
  <2>3. \A r \in DOMAIN refresh' :
            refresh'[r] = Started \/ (r \in DOMAIN refresh /\ refresh'[r] = refresh[r])
    BY <2>1, <2>2
  <2>4. Complete(Started)' /\ Newer(Started)'
    BY DEF Complete, Newer, Started, Reads
  <2>5. \A r \in DOMAIN refresh : Complete(refresh[r]) /\ Newer(refresh[r])
    BY <1>0 DEF Refreshing
  <2>6. \A r \in DOMAIN refresh' : Complete(refresh'[r]) /\ Newer(refresh'[r])
    BY <2>1, <2>3, <2>4, <2>5 DEF Complete, Newer, Started, Reads
  <2>7. Refreshing'
    BY <2>1, <2>6 DEF Refreshing, Complete, Newer, Has, Emitted
  <2> QED
    BY <1>3, <2>1, <2>7
<1>6. ASSUME NEW r \in DOMAIN refresh, ReadRegistry(r) \/ ReadRegistrations(r) PROVE FeedInv'
  BY <1>0, <1>3, <1>6, ReadRefreshing DEF ReadRegistry, ReadRegistrations, chainVars
<1>7. ASSUME NEW r \in DOMAIN refresh, NEW kind \in Kinds, Drain(r, kind) PROVE FeedInv'
  BY <1>0, <1>3, <1>7, DrainRefreshing DEF Drain, chainVars
<1>8. ASSUME NEW r \in DOMAIN refresh, Fail(r) PROVE FeedInv'
  BY <1>0, <1>3, <1>8, EndedRefreshing DEF Fail, chainVars
<1>9. ASSUME NEW r \in DOMAIN refresh, Show(r) PROVE FeedInv'
  <2>1. UNCHANGED log /\ Ended(r) /\ view' = refresh[r].got
    BY <1>9 DEF Show, chainVars
  <2>2. Complete(refresh[r]) /\ refresh[r].phase = "drains" /\ refresh[r].todo = {}
    BY <1>0, <1>9 DEF Show, Refreshing
  <2>3. \A k \in Kinds : Has(refresh[r].got, k)
    BY <2>2 DEF Complete
  <2>4. \A k \in Kinds : Has(view, k)'
    BY <2>1, <2>3 DEF Has, Emitted
  <2> QED
    BY <1>0, <1>2, <2>1, <2>4, EndedRefreshing DEF FeedInv
<1> QED
  BY <1>1, <1>4, <1>5, <1>6, <1>7, <1>8, <1>9
     DEF Next, Normal, Chain, RefreshStep, Register, vars, chainVars
LEMMA AlwaysFeedInv == Spec => []FeedInv
<1>1. Init /\ IInv => FeedInv
  <2> SUFFICES ASSUME Init, IInv PROVE FeedInv
    OBVIOUS
  <2>1. /\ \A k \in Kinds : Emitted(k) = 0
        /\ Recorded = 0
    BY DEF Init, Emitted, Recorded, Kinds
  <2>2. Numbered /\ \A k \in Kinds : Has(view, k)
    BY <2>1 DEF Numbered, Has
  <2>3. \A r \in DOMAIN refresh : refresh[r] = Started
    BY DEF Init
  <2>4. Complete(Started) /\ Newer(Started)
    BY DEF Complete, Newer, Started, Reads
  <2> QED
    BY <2>2, <2>3, <2>4 DEF FeedInv, Refreshing
<1>2. FeedInv /\ [Next]_vars => FeedInv'
  BY FeedStep, NetworkViewAssumption
<1> QED
  BY <1>1, <1>2, Inv, PTL DEF Spec

-----------------------------------------------------------------------------
(* The feed. *)

LEMMA EventsRows ==
    ASSUME NetworkViewAssumption, FeedInv
    PROVE  /\ Events \in Seq(Settlement)
           /\ \A k \in Kinds : \A i \in 1..view.drained[k] :
                 \E row \in 1..Len(Events) : Events[row] = log[k][i]
           /\ \A q, r \in 1..Len(Events) : Events[q] = Events[r] => q = r
           /\ \A q, r \in 1..Len(Events) :
                 q < r => TimeOf[Events[q].number] >= TimeOf[Events[r].number]
<1> DEFINE b == log["binary"]
           c == log["range"]
           m == view.drained["binary"]
           n == view.drained["range"]
           s == Shown("binary")
           t == Shown("range")
           u == s \o t
<1>1. /\ b \in Seq(Settlement) /\ c \in Seq(Settlement)
      /\ m \in 0..Len(b) /\ n \in 0..Len(c) /\ m \in Nat /\ n \in Nat
      /\ Len(b) = Emitted("binary") /\ Len(c) = Emitted("range")
  BY LengthType DEF FeedInv, IInv, IsOfChain, Contents, Lengths, Kinds, Emitted
<1>2. /\ s \in Seq(Settlement) /\ Len(s) = m
      /\ \A i \in 1..m : i \in 1..Len(b) /\ s[i] = b[i]
  BY <1>1, Prefix DEF Shown
<1>3. /\ t \in Seq(Settlement) /\ Len(t) = n
      /\ \A i \in 1..n : i \in 1..Len(c) /\ t[i] = c[i]
  BY <1>1, Prefix DEF Shown
<1> HIDE DEF s, t, m, n, b, c
<1>4. u \in Seq(Settlement) /\ Len(u) = m + n
  BY <1>2, <1>3, Concatenated
<1>5. \A i \in 1..(m + n) : u[i] = IF i <= m THEN s[i] ELSE t[i - m]
  <2>1. \A i \in 1..(Len(s) + Len(t)) : u[i] = IF i <= Len(s) THEN s[i] ELSE t[i - Len(s)]
    BY <1>2, <1>3, Concatenated
  <2> QED
    BY <1>2, <1>3, <2>1
<1> HIDE DEF u
<1>6. \A i \in 1..m : i \in 1..(m + n) /\ u[i] = b[i]
  <2>1. \A i \in 1..m : i \in 1..(m + n) /\ i <= m
    BY <1>1
  <2> QED
    BY <1>2, <1>5, <2>1
<1>7. \A i \in 1..n : m + i \in 1..(m + n) /\ u[m + i] = c[i]
  <2>1. \A i \in 1..n : m + i \in 1..(m + n) /\ ~ (m + i <= m) /\ (m + i) - m = i
    BY <1>1
  <2> QED
    BY <1>3, <1>5, <2>1
<1>8. \A i \in 1..(m + n) : (i \in 1..m /\ u[i] = b[i]) \/ (i - m \in 1..n /\ u[i] = c[i - m])
  <2>1. \A i \in 1..(m + n) : (i <= m /\ i \in 1..m) \/ (i - m \in 1..n /\ ~ (i <= m))
    BY <1>1
  <2> QED
    BY <1>2, <1>3, <1>5, <2>1
<1>9. Events = Sorted(u)
  BY DEF Events, u, s, t
<1>10. /\ Events \in Seq(Settlement) /\ Len(Events) = m + n
       /\ \A k \in 1..(m + n) : At(u, k) \in 1..(m + n) /\ Events[k] = u[At(u, k)]
       /\ \A i \in 1..(m + n) : \E k \in 1..(m + n) : At(u, k) = i
       /\ \A q, r \in 1..(m + n) : At(u, q) = At(u, r) => q = r
       /\ \A q, r \in 1..(m + n) :
             q < r => TimeOf[Events[q].number] >= TimeOf[Events[r].number]
  BY <1>4, <1>9, SortedRows
<1>11. \A i, j \in 1..(m + n) : u[i] = u[j] => i = j
  <2> SUFFICES ASSUME NEW i \in 1..(m + n), NEW j \in 1..(m + n), u[i] = u[j] PROVE i = j
    OBVIOUS
  <2>1. /\ \A x \in 1..m : x \in 1..Emitted("binary")
        /\ \A x \in 1..n : x \in 1..Emitted("range")
    BY <1>1, <1>2, <1>3
  <2>2. /\ \A x, y \in 1..m : b[x].number = b[y].number => x = y
        /\ \A x, y \in 1..n : c[x].number = c[y].number => x = y
        /\ \A x \in 1..m, y \in 1..n : b[x].number # c[y].number
    BY <2>1 DEF FeedInv, Numbered, Kinds, b, c
  <2>3. CASE i \in 1..m /\ j \in 1..m /\ u[i] = b[i] /\ u[j] = b[j]
    BY <2>2, <2>3
  <2>4. CASE i - m \in 1..n /\ j - m \in 1..n /\ u[i] = c[i - m] /\ u[j] = c[j - m]
    <3>1. i - m = j - m
      BY <2>2, <2>4
    <3> QED
      BY <1>1, <3>1
  <2>5. CASE i \in 1..m /\ j - m \in 1..n /\ u[i] = b[i] /\ u[j] = c[j - m]
    BY <2>2, <2>5
  <2>6. CASE i - m \in 1..n /\ j \in 1..m /\ u[i] = c[i - m] /\ u[j] = b[j]
    BY <2>2, <2>6
  <2> QED
    BY <1>8, <2>3, <2>4, <2>5, <2>6
<1>12. \A i \in 1..(m + n) : \E row \in 1..Len(Events) : Events[row] = u[i]
  <2> SUFFICES ASSUME NEW i \in 1..(m + n)
               PROVE  \E row \in 1..Len(Events) : Events[row] = u[i]
    OBVIOUS
  <2>1. PICK row \in 1..(m + n) : At(u, row) = i
    BY <1>10
  <2> QED
    BY <1>10, <2>1
<1>13. \A k \in Kinds : \A i \in 1..view.drained[k] :
           \E row \in 1..Len(Events) : Events[row] = log[k][i]
  <2>1. \A i \in 1..m : \E row \in 1..Len(Events) : Events[row] = b[i]
    BY <1>6, <1>12
  <2>2. \A i \in 1..n : \E row \in 1..Len(Events) : Events[row] = c[i]
    BY <1>7, <1>12
  <2> QED
    BY <2>1, <2>2 DEF Kinds, b, c, m, n
<1>14. \A q, r \in 1..Len(Events) : Events[q] = Events[r] => q = r
  <2> SUFFICES ASSUME NEW q \in 1..(m + n), NEW r \in 1..(m + n), Events[q] = Events[r]
               PROVE  q = r
    BY <1>10
  <2>1. /\ At(u, q) \in 1..(m + n) /\ At(u, r) \in 1..(m + n)
        /\ u[At(u, q)] = u[At(u, r)]
    BY <1>10
  <2>2. At(u, q) = At(u, r)
    BY <1>11, <2>1
  <2> QED
    BY <1>10, <2>2
<1> QED
  BY <1>10, <1>13, <1>14

LEMMA InvFeeds ==
    ASSUME NetworkViewAssumption, FeedInv
    PROVE  FeedHasNewest
<1> SUFFICES ASSUME NEW n \in 1..TotalSettlements
             PROVE  LET rows == Listed(SettlementFeed)
                    IN \/ \E row \in rows : row.number = n
                       \/ /\ Cardinality(rows) = PAGE
                          /\ \A row \in rows : TimeOf[row.number] >= TimeOf[n]
  BY DEF FeedHasNewest
<1> DEFINE size == IF PAGE < Len(Events) THEN PAGE ELSE Len(Events)
<1>1. ~loading /\ n \in 1..view.total
  <2>1. CASE loading
    BY <2>1 DEF TotalSettlements
  <2>2. CASE ~loading
    BY <2>2 DEF TotalSettlements
  <2> QED
    BY <2>1, <2>2
<1>2. /\ PAGE \in Nat /\ Events \in Seq(Settlement) /\ Len(Events) \in Nat
      /\ size \in 0..Len(Events) /\ size \in Nat
  <2>1. PAGE \in Nat
    BY DEF NetworkViewAssumption
  <2>2. Events \in Seq(Settlement) /\ Len(Events) \in Nat
    BY EventsRows
  <2> QED
    BY <2>1, <2>2
<1>3. SettlementFeed = SubSeq(Events, 1, size)
  BY <1>1 DEF SettlementFeed, SettlementsPage
<1>4. /\ Len(SettlementFeed) = size /\ SettlementFeed \in Seq(Settlement)
      /\ \A i \in 1..size : i \in 1..Len(Events) /\ SettlementFeed[i] = Events[i]
  <2> HIDE DEF size
  <2> QED
    BY <1>2, <1>3, Prefix
<1>5. Listed(SettlementFeed) = {Events[i] : i \in 1..size}
  <2>1. DOMAIN SettlementFeed = 1..size
    BY <1>4
  <2> HIDE DEF size
  <2> QED
    BY <1>4, <2>1 DEF Listed
<1>6. PICK row \in 1..Len(Events) : Events[row].number = n
  <2>1. n \in 1..Recorded
    <3>1. view.total \in Nat /\ view.total <= Recorded /\ Recorded \in Nat
      BY LengthType DEF FeedInv, IInv, IsOfChain, Contents, Recorded
    <3> QED
      BY <1>1, <3>1
  <2>2. PICK k \in Kinds : \E i \in 1..Emitted(k) : log[k][i].number = n
    BY <2>1 DEF FeedInv, Numbered
  <2>3. PICK i \in 1..Emitted(k) : log[k][i].number = n
    BY <2>2
  <2>4. i <= view.drained[k]
    BY <1>1, <2>3 DEF FeedInv, Has
  <2>5. i \in 1..view.drained[k]
    <3>1. view.drained[k] \in Nat /\ Emitted(k) \in Nat
      BY LengthType DEF FeedInv, IInv, Contents, Lengths
    <3> QED
      BY <2>4, <3>1
  <2> QED
    BY <2>3, <2>5, EventsRows
<1>7. CASE row <= size
  <2>1. row \in 1..size
    BY <1>2, <1>7
  <2> QED
    BY <1>5, <1>6, <2>1
<1>8. CASE ~ (row <= size)
  <2>1. size = PAGE /\ \A i \in 1..PAGE : i < row /\ i \in 1..Len(Events)
    BY <1>2, <1>8
  <2>2. \A i \in 1..PAGE : TimeOf[Events[i].number] >= TimeOf[n]
    BY <1>6, <2>1, EventsRows
  <2>3. Cardinality({Events[i] : i \in 1..PAGE}) = PAGE
    <3> DEFINE rows == {Events[i] : i \in 1..PAGE}
               f == [i \in 1..PAGE |-> Events[i]]
    <3>1. IsFiniteSet(1..PAGE) /\ Cardinality(1..PAGE) = PAGE
      <4>1. 1 \in Int /\ PAGE \in Int
        BY <1>2
      <4>2. IsFiniteSet(1..PAGE)
        BY <4>1, FS_Interval
      <4>3. Cardinality(1..PAGE) = IF 1 > PAGE THEN 0 ELSE PAGE - 1 + 1
        BY <4>1, FS_Interval
      <4> QED
        BY <1>2, <4>2, <4>3
    <3>2. \A i, j \in 1..PAGE : f[i] = f[j] => i = j
      BY <2>1, EventsRows
    <3>3. f \in Bijection(1..PAGE, rows)
      <4>1. f \in [1..PAGE -> rows] /\ \A x \in rows : \E i \in 1..PAGE : f[i] = x
        OBVIOUS
      <4> QED
        BY <3>2, <4>1 DEF Bijection, Injection, Surjection, IsInjective
    <3>4. ExistsBijection(1..PAGE, rows)
      BY <3>3 DEF ExistsBijection
    <3> HIDE DEF rows
    <3>5. Cardinality(rows) = PAGE
      BY <3>1, <3>4, FS_Bijection
    <3> QED
      BY <3>5 DEF rows
  <2> QED
    BY <1>5, <2>1, <2>2, <2>3
<1> QED
  BY <1>7, <1>8

\* Whatever the sizes of pages and feed, however many refreshes overlap and even if
\* settlements of the two streams have the same time: what the total counts is in the
\* feed, or the feed is full of settlements no older.
THEOREM FeedShowsNewest == Spec => []FeedHasNewest
<1>1. FeedInv => FeedHasNewest
  BY InvFeeds, NetworkViewAssumption
<1> QED
  BY <1>1, AlwaysFeedInv, PTL

-----------------------------------------------------------------------------
(* What was shown stays. *)

LEMMA TableGrows ==
    ASSUME NetworkViewAssumption, IInv, IInv',
           \A k \in Kinds : \A i \in 1..Emitted(k) : log'[k][i] = log[k][i],
           \A i \in 1..Len(registrations) : registrations'[i] = registrations[i],
           \A k \in Kinds : view.drained[k] <= view'.drained[k],
           view.known <= view'.known,
           view'.known = view.known \/ Len(registrations') <= RegLimit,
           loading' => loading
    PROVE  KeeperTable \subseteq KeeperTable'
<1> DEFINE InView(l, v) ==
               EventsIn(l["binary"], v.drained["binary"], l["range"], v.drained["range"])
<1>1. /\ log \in [Kinds -> Seq(Settlement)] /\ registrations \in Seq(Keepers)
      /\ view.known \in Nat /\ view.known <= Len(registrations)
      /\ Len(registrations) \in Nat
      /\ \A k \in Kinds : /\ view.drained[k] \in Nat /\ view.drained[k] <= Emitted(k)
                          /\ Emitted(k) = Len(log[k]) /\ Emitted(k) \in Nat
  BY LengthType DEF IInv, IsOfChain, Contents, Lengths, Emitted
<1>2. /\ log' \in [Kinds -> Seq(Settlement)] /\ registrations' \in Seq(Keepers)
      /\ view'.known \in Nat /\ view'.known <= Len(registrations')
      /\ Len(registrations') \in Nat
      /\ \A k \in Kinds : /\ view'.drained[k] \in Nat /\ view'.drained[k] <= Len(log'[k])
                          /\ Len(log'[k]) \in Nat
  <2>1. /\ log' \in [Kinds -> Seq(Settlement)] /\ registrations' \in Seq(Keepers)
        /\ view' \in Contents /\ view'.known <= Len(registrations')
        /\ \A k \in Kinds : view'.drained[k] <= Len(log'[k])
    BY DEF IInv, IsOfChain, Emitted
  <2>2. view'.known \in Nat /\ \A k \in Kinds : view'.drained[k] \in Nat
    BY <2>1 DEF Contents, Lengths
  <2> QED
    BY <2>1, <2>2
<1>3. Listed(Events) = InView(log, view)
  <2>1. /\ log["binary"] \in Seq(Settlement) /\ log["range"] \in Seq(Settlement)
        /\ view.drained["binary"] \in 0..Len(log["binary"])
        /\ view.drained["range"] \in 0..Len(log["range"])
    BY <1>1 DEF Kinds
  <2>2. Events = Sorted(Rows(log["binary"], view.drained["binary"],
                         log["range"], view.drained["range"]))
    BY DEF Events, Shown, Rows
  <2>3. Listed(Sorted(Rows(log["binary"], view.drained["binary"],
                         log["range"], view.drained["range"]))) = InView(log, view)
    BY <2>1, RowsListed
  <2> QED
    BY <2>2, <2>3
<1>4. Listed(Events') = InView(log', view')
  <2>1. /\ log'["binary"] \in Seq(Settlement) /\ log'["range"] \in Seq(Settlement)
        /\ view'.drained["binary"] \in 0..Len(log'["binary"])
        /\ view'.drained["range"] \in 0..Len(log'["range"])
    BY <1>2 DEF Kinds
  <2>2. Events' = Sorted(Rows(log'["binary"], view'.drained["binary"],
                         log'["range"], view'.drained["range"]))
    BY DEF Events, Shown, Sorted, Before, Rows
  <2>3. Listed(Sorted(Rows(log'["binary"], view'.drained["binary"],
                         log'["range"], view'.drained["range"]))) = InView(log', view')
    BY <2>1, RowsListed
  <2> QED
    BY <2>2, <2>3
<1>5. InView(log, view) \subseteq InView(log', view')
  <2>1. ASSUME NEW k \in Kinds, NEW i \in 1..view.drained[k]
        PROVE  i \in 1..view'.drained[k] /\ log'[k][i] = log[k][i]
    <3>1. /\ view.drained[k] \in Nat /\ view'.drained[k] \in Nat /\ Emitted(k) \in Nat
          /\ view.drained[k] <= view'.drained[k] /\ view.drained[k] <= Emitted(k)
      BY <1>1, <1>2, LengthType
    <3>2. i \in 1..view'.drained[k] /\ i \in 1..Emitted(k)
      BY <3>1
    <3> QED
      BY <3>2
  <2>2. \A x \in {log["binary"][i] : i \in 1..view.drained["binary"]} :
            x \in {log'["binary"][i] : i \in 1..view'.drained["binary"]}
    BY <2>1 DEF Kinds
  <2>3. \A x \in {log["range"][i] : i \in 1..view.drained["range"]} :
            x \in {log'["range"][i] : i \in 1..view'.drained["range"]}
    BY <2>1 DEF Kinds
  <2> QED
    BY <2>2, <2>3 DEF EventsIn
<1>6. NewestRegistrations \subseteq NewestRegistrations'
  <2> SUFFICES ASSUME NEW j \in 1..view.known, view.known - j < RegLimit
               PROVE  /\ j \in 1..view'.known /\ view'.known - j < RegLimit
                      /\ registrations'[j] = registrations[j]
    BY DEF NewestRegistrations
  <2>1. RegLimit \in Nat /\ Len(registrations) \in Nat /\ Len(registrations') \in Nat
    BY <1>1, <1>2 DEF NetworkViewAssumption
  <2>2. j \in 1..view'.known /\ j \in 1..Len(registrations)
    BY <1>1, <1>2, <2>1
  <2>3. view'.known - j < RegLimit
    BY <1>1, <1>2, <2>1
  <2> QED
    BY <2>2, <2>3
<1>7. ActiveKeepers \subseteq ActiveKeepers'
  <2>1. {e.keeper : e \in Listed(Events)} \subseteq {e.keeper : e \in Listed(Events')}
    BY <1>3, <1>4, <1>5
  <2> QED
    BY <1>6, <2>1 DEF ActiveKeepers, Listed
<1> QED
  BY <1>7 DEF KeeperTable

LEMMA StepVanishes ==
    ASSUME NetworkViewAssumption, FeedInv, IInv', [Next]_vars
    PROVE  \/ \E r \in DOMAIN refresh : refresh[r].overlapped /\ Ended(r)
           \/ /\ \A k \in Kinds : view.drained[k] <= view'.drained[k]
              /\ KeeperTable \subseteq KeeperTable' \/ Len(registrations) > RegLimit
<1> DEFINE Stays == /\ \A k \in Kinds : view.drained[k] <= view'.drained[k]
                    /\ KeeperTable \subseteq KeeperTable' \/ Len(registrations) > RegLimit
<1>1. /\ IInv /\ Refreshing
      /\ \A k \in Kinds : view.drained[k] \in Nat
      /\ view.known \in Nat /\ Len(registrations) \in Nat /\ RegLimit \in Nat
  BY LengthType DEF FeedInv, IInv, Contents, Lengths, NetworkViewAssumption
<1>2. ASSUME view' = view, loading' => loading,
             \A k \in Kinds : \A i \in 1..Emitted(k) : log'[k][i] = log[k][i],
             \A i \in 1..Len(registrations) : registrations'[i] = registrations[i]
      PROVE  Stays
  <2>1. (\A k \in Kinds : view.drained[k] <= view'.drained[k]) /\ view.known <= view'.known
    BY <1>1, <1>2
  <2> QED
    BY <1>1, <1>2, <2>1, TableGrows
<1> HIDE DEF Stays
<1>3. ASSUME NEW keeper \in Keepers, NEW kind \in Kinds, Settle(kind, keeper) PROVE Stays
  BY <1>1, <1>2, <1>3, SettleAppends DEF Settle
<1>4. ASSUME NEW keeper \in Keepers, Register(keeper) PROVE Stays
  <2>1. \A i \in 1..Len(registrations) : registrations'[i] = registrations[i]
    BY <1>1, <1>4 DEF Register, IInv
  <2> QED
    BY <1>2, <1>4, <2>1 DEF Register
<1>5. ASSUME UNCHANGED <<chainVars, view>>, loading' => loading PROVE Stays
  BY <1>2, <1>5 DEF chainVars
<1>6. ASSUME NEW r \in DOMAIN refresh, RefreshStep(r) /\ ~ Show(r) PROVE Stays
  <2>1. CASE ReadRegistry(r) \/ ReadRegistrations(r)
    BY <1>5, <2>1 DEF ReadRegistry, ReadRegistrations
  <2>2. CASE \E kind \in Kinds : Drain(r, kind)
    BY <1>5, <2>2 DEF Drain
  <2> QED
    BY <1>6, <2>1, <2>2 DEF RefreshStep
<1>7. ASSUME NEW r \in DOMAIN refresh, Fail(r) PROVE Stays
  BY <1>5, <1>7 DEF Fail
<1>8. ASSUME NEW r \in DOMAIN refresh, Show(r) PROVE (refresh[r].overlapped /\ Ended(r)) \/ Stays
  <2>1. /\ Ended(r) /\ UNCHANGED <<log, registrations>> /\ loading' = FALSE
        /\ view' = refresh[r].got /\ refresh[r].phase = "drains" /\ refresh[r].todo = {}
    BY <1>8 DEF Show, chainVars
  <2>2. CASE ~ refresh[r].overlapped
    <3>1. /\ \A k \in Kinds : view.drained[k] <= view'.drained[k]
          /\ view.known <= view'.known
      BY <1>1, <2>1, <2>2 DEF Refreshing, Newer
    <3>2. CASE Len(registrations) <= RegLimit
      BY <1>1, <2>1, <3>1, <3>2, TableGrows DEF Stays
    <3>3. CASE ~ (Len(registrations) <= RegLimit)
      BY <1>1, <3>1, <3>3 DEF Stays
    <3> QED
      BY <3>2, <3>3
  <2> QED
    BY <2>1, <2>2
<1>9. ASSUME Poll \/ UNCHANGED vars PROVE Stays
  BY <1>5, <1>9 DEF Poll, vars
<1>10. (\E r \in DOMAIN refresh : refresh[r].overlapped /\ Ended(r)) \/ Stays
  BY <1>3, <1>4, <1>6, <1>7, <1>8, <1>9 DEF Next, Normal, Chain
<1> QED
  BY <1>10 DEF Stays

\* A refresh that no other one ended beside never takes away a settlement, or a
\* keeper as long as one page holds all registrations.
THEOREM ShownStays == Spec => NothingVanishes
<1>1. FeedInv /\ FeedInv' /\ [Next]_vars =>
          [\/ \E r \in DOMAIN refresh : refresh[r].overlapped /\ Ended(r)
           \/ /\ \A k \in Kinds : view.drained[k] <= view'.drained[k]
              /\ KeeperTable \subseteq KeeperTable' \/ Len(registrations) > RegLimit]_vars
  <2>1. FeedInv' => IInv'
    BY DEF FeedInv
  <2> QED
    BY <2>1, StepVanishes, NetworkViewAssumption
<1> QED
  BY <1>1, AlwaysFeedInv, PTL DEF Spec, NothingVanishes
=============================================================================
