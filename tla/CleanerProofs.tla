--------------------------- MODULE CleanerProofs ---------------------------
(***************************************************************************)
(* Theorems about Cleaner for any frames, any sizes of the window and the  *)
(* reorder buffer, and any number of frames.                               *)
(***************************************************************************)
EXTENDS Cleaner, FiniteSetTheorems, TLAPS

USE CleanerAssumption

Contexts ==
  [known  : BOOLEAN,
   sec    : Nat,
   ms     : Nat,
   stash  : Seq(Frames),
   window : [0..(Window - 1) -> (-Int16Max - 1)..Int16Max],
   wIdx   : 0..(Window - 1),
   wCount : 0..Window]

\* A context station s can have: what waits in its stash is its own.
ContextOf(s, c) ==
  /\ c \in Contexts
  /\ Len(c.stash) <= StashSize
  /\ \A i \in 1..Len(c.stash) : c.stash[i].station = s

SameTime(c, d) == c.known = d.known /\ c.sec = d.sec /\ c.ms = d.ms

-----------------------------------------------------------------------------
(* What the operations do to a context.                                     *)

LEMMA NarrowFits ==
  ASSUME NEW v \in Nat
  PROVE  Narrow(v) \in (-Int16Max - 1)..Int16Max
  <1> DEFINE m == 2 * (Int16Max + 1)
  <1>1. m \in Nat \ {0} /\ v + Int16Max + 1 \in Nat
    OBVIOUS
  <1>2. (v + Int16Max + 1) % m \in 0..(m - 1)
    <2> HIDE DEF m
    <2> QED
      BY <1>1
  <1> QED
    BY <1>2 DEF Narrow

LEMMA AdmitContext ==
  ASSUME NEW s, NEW c, ContextOf(s, c), NEW f \in Frames
  PROVE  /\ ContextOf(s, Admit(c, f))
         /\ Admit(c, f).known = TRUE
         /\ Admit(c, f).sec = f.sec /\ Admit(c, f).ms = f.ms
  <1> DEFINE a == Admit(c, f)
  <1>1. c \in Contexts /\ f.sec \in Nat /\ f.ms \in Nat /\ f.value \in Nat
    BY DEF ContextOf
  <1>2. /\ a.window = [c.window EXCEPT ![c.wIdx] = Narrow(f.value)]
        /\ a.wIdx = (c.wIdx + 1) % Window
        /\ a.wCount = IF c.wCount < Window THEN c.wCount + 1 ELSE c.wCount
        /\ a.sec = f.sec /\ a.ms = f.ms /\ a.known = TRUE /\ a.stash = c.stash
    BY <1>1 DEF Admit, Contexts
  <1>3. a.window \in [0..(Window - 1) -> (-Int16Max - 1)..Int16Max]
    BY <1>1, <1>2, NarrowFits DEF Contexts
  <1>4. a.wIdx \in 0..(Window - 1) /\ a.wCount \in 0..Window
    <2>1. Window \in Nat \ {0}
      OBVIOUS
    <2>2. c.wIdx \in 0..(Window - 1) /\ c.wCount \in 0..Window
      BY <1>1 DEF Contexts
    <2>3. c.wIdx + 1 \in Nat
      BY <2>1, <2>2
    <2>4. (c.wIdx + 1) % Window \in 0..(Window - 1)
      BY <2>1, <2>3
    <2> HIDE DEF a
    <2> QED
      BY <1>2, <2>1, <2>2, <2>4
  <1>5. a \in Contexts
    BY <1>1, <1>2, <1>3, <1>4 DEF Contexts, Admit
  <1> QED
    BY <1>2, <1>5 DEF ContextOf

LEMMA SwapContext ==
  ASSUME NEW s, NEW c, ContextOf(s, c), NEW i \in 1..Len(c.stash),
         NEW f \in Frames, f.station = s
  PROVE  ContextOf(s, Swap(c, i, f)) /\ SameTime(Swap(c, i, f), c)
  <1>1. c \in Contexts /\ c.stash \in Seq(Frames)
    BY DEF ContextOf, Contexts
  <1> DEFINE t == [c.stash EXCEPT ![i] = f]
  <1>2. t \in Seq(Frames) /\ Len(t) = Len(c.stash)
    BY <1>1
  <1>3. \A j \in 1..Len(c.stash) : t[j] = IF j = i THEN f ELSE c.stash[j]
    BY <1>1
  <1>4. Swap(c, i, f) = [c EXCEPT !.stash = t]
    BY <1>1 DEF Swap, Contexts
  <1>5. Swap(c, i, f) \in Contexts /\ Swap(c, i, f).stash = t
    <2> HIDE DEF t
    <2> QED
      BY <1>1, <1>2, <1>4 DEF Contexts
  <1>6. SameTime(Swap(c, i, f), c)
    BY <1>1, <1>4 DEF SameTime, Contexts
  <1> QED
    BY <1>2, <1>3, <1>5, <1>6 DEF ContextOf

LEMMA StashContext ==
  ASSUME NEW s, NEW c, ContextOf(s, c), Len(c.stash) < StashSize,
         NEW f \in Frames, f.station = s
  PROVE  /\ ContextOf(s, [c EXCEPT !.stash = Append(c.stash, f)])
         /\ SameTime([c EXCEPT !.stash = Append(c.stash, f)], c)
  <1> DEFINE t == Append(c.stash, f)
             d == [c EXCEPT !.stash = t]
  <1>1. c \in Contexts /\ c.stash \in Seq(Frames)
    BY DEF ContextOf, Contexts
  <1>2. /\ t \in Seq(Frames) /\ Len(t) = Len(c.stash) + 1
        /\ \A j \in 1..Len(t) : t[j] = IF j = Len(t) THEN f ELSE c.stash[j]
    BY <1>1
  <1>3. d \in Contexts /\ d.stash = t /\ SameTime(d, c)
    <2> HIDE DEF t
    <2> QED
      BY <1>1, <1>2 DEF Contexts, SameTime
  <1>4. Len(t) <= StashSize
    BY <1>1, <1>2
  <1>5. ASSUME NEW j \in 1..Len(t) PROVE t[j].station = s
    <2>1. j # Len(t) => j \in 1..Len(c.stash)
      BY <1>1, <1>2
    <2> HIDE DEF t
    <2> QED
      BY <1>2, <2>1 DEF ContextOf
  <1>6. ContextOf(s, d)
    <2> HIDE DEF t, d
    <2> QED
      BY <1>3, <1>4, <1>5 DEF ContextOf
  <1> QED
    BY <1>3, <1>6

-----------------------------------------------------------------------------
(* Types.                                                                   *)

Homes ==
  /\ ctx \in [Stations -> Contexts]
  /\ \A s \in Stations : ContextOf(s, ctx[s])

\* No counter is ahead of the frames.
Books ==
  /\ offered \subseteq Frames /\ IsFiniteSet(offered)
  /\ Cardinality(offered) <= MaxFrames
  /\ clean \in [Kinds -> Nat]
  /\ \A k \in Kinds : clean[k] <= Cardinality(offered)

Places ==
  /\ passed \in Seq(Frames)
  /\ alarmed \cup discarded \cup released \subseteq Frames

CleanIInv == Homes /\ Books /\ Places

LEMMA InitClean == Init => CleanIInv
  <1> SUFFICES ASSUME Init PROVE CleanIInv
    OBVIOUS
  <1>1. EmptyCtx \in Contexts /\ Len(EmptyCtx.stash) = 0
    <2>1. /\ << >> \in Seq(Frames) /\ Len(<< >>) = 0
          /\ [i \in 0..(Window - 1) |-> 0]
               \in [0..(Window - 1) -> (-Int16Max - 1)..Int16Max]
          /\ 0 \in 0..(Window - 1) /\ 0 \in 0..Window /\ 0 \in Nat
      OBVIOUS
    <2> QED
      BY <2>1 DEF EmptyCtx, Contexts
  <1>2. Homes
    <2>1. ctx = [s \in Stations |-> EmptyCtx] /\ StashSize \in Nat
      BY DEF Init
    <2> QED
      BY <1>1, <2>1 DEF Homes, ContextOf
  <1>3. Books
    <2>1. offered = {} /\ clean = [k \in Kinds |-> 0]
      BY DEF Init
    <2>2. IsFiniteSet({}) /\ Cardinality({}) = 0
      BY FS_EmptySet
    <2> QED
      BY <2>1, <2>2 DEF Books
  <1>4. Places
    <2>1. passed = << >> /\ alarmed = {} /\ discarded = {} /\ released = {}
      BY DEF Init
    <2> QED
      BY <2>1 DEF Places
  <1> QED
    BY <1>2, <1>3, <1>4 DEF CleanIInv

LEMMA HomesChange ==
  ASSUME Homes, NEW s \in Stations, NEW c, ContextOf(s, c), ctx' = [ctx EXCEPT ![s] = c]
  PROVE  Homes'
  BY DEF Homes, ContextOf

LEMMA ProcessHomes ==
  ASSUME Homes, NEW f \in Frames, NEW c, ContextOf(f.station, c), ProcessValidFrame(c, f)
  PROVE  Homes'
  <1>1. f.station \in Stations
    BY DEF Stations
  <1>2. CASE Pass(c, f)
    BY <1>1, <1>2, AdmitContext, HomesChange DEF Pass
  <1>3. CASE OutOfRange(c, f) \/ Anomaly(c, f)
    BY <1>1, <1>3, HomesChange DEF OutOfRange, Anomaly
  <1> QED
    BY <1>2, <1>3 DEF ProcessValidFrame

\* The frame a full stash gives up, and what stays behind.
LEMMA SwapOut ==
  ASSUME Homes, NEW f \in Frames, NEW i \in DOMAIN ctx[f.station].stash
  PROVE  LET c == ctx[f.station]
             g == c.stash[i]
         IN  /\ g \in Frames /\ g.station = f.station
             /\ ContextOf(f.station, c)
             /\ ContextOf(g.station, Swap(c, i, f)) /\ SameTime(Swap(c, i, f), c)
  <1> DEFINE c == ctx[f.station]
  <1>1. f.station \in Stations
    BY DEF Stations
  <1>2. ContextOf(f.station, c) /\ c.stash \in Seq(Frames)
    BY <1>1 DEF Homes, Contexts
  <1>3. i \in 1..Len(c.stash) /\ c.stash[i] \in Frames
    BY <1>2
  <1>4. c.stash[i].station = f.station
    BY <1>2, <1>3 DEF ContextOf
  <1> HIDE DEF c
  <1> QED
    BY <1>2, <1>3, <1>4, SwapContext DEF c

LEMMA HomesStep ==
  ASSUME CleanIInv, NEW f \in Frames, CleanerProcess(f)
  PROVE  Homes'
  <1> DEFINE c == ctx[f.station]
  <1>0. Homes /\ f.station \in Stations /\ ContextOf(f.station, c)
    BY DEF CleanIInv, Homes, Stations
  <1>1. CASE CleanAlarm(f) \/ CleanHeart(f) \/ CleanNoContext(f) \/ CleanStale(f)
    <2>1. ctx' = ctx
      BY <1>1 DEF CleanAlarm, CleanHeart, CleanNoContext, CleanStale, ctxvars
    <2> QED
      BY <1>0, <2>1 DEF Homes
  <1>2. CASE CleanInOrder(f)
    BY <1>0, <1>2, ProcessHomes DEF CleanInOrder
  <1>3. CASE CleanStash(f)
    <2>1. /\ Len(c.stash) < StashSize
          /\ ctx' = [ctx EXCEPT ![f.station].stash = Append(c.stash, f)]
      BY <1>3 DEF CleanStash
    <2>2. ctx' = [ctx EXCEPT ![f.station] = [c EXCEPT !.stash = Append(c.stash, f)]]
      BY <1>0, <2>1 DEF Homes
    <2>3. ContextOf(f.station, [c EXCEPT !.stash = Append(c.stash, f)])
      BY <1>0, <2>1, StashContext
    <2> QED
      BY <1>0, <2>2, <2>3, HomesChange
  <1>4. CASE CleanSwap(f)
    <2>1. PICK i \in DOMAIN c.stash : ProcessValidFrame(Swap(c, i, f), c.stash[i])
      BY <1>4 DEF CleanSwap
    <2>2. c.stash[i] \in Frames /\ ContextOf(c.stash[i].station, Swap(c, i, f))
      BY <1>0, SwapOut
    <2> QED
      BY <1>0, <2>1, <2>2, ProcessHomes
  <1> QED
    BY <1>1, <1>2, <1>3, <1>4 DEF CleanerProcess

LEMMA CountBounded ==
  ASSUME Books, NEW f \in Frames, Offer(f),
         clean' = clean \/ \E k \in Kinds : Count(k)
  PROVE  Books'
  <1>1. /\ offered \subseteq Frames /\ IsFiniteSet(offered) /\ f \notin offered
        /\ offered' = offered \cup {f} /\ Cardinality(offered) < MaxFrames
    BY DEF Books, Offer
  <1>2. IsFiniteSet(offered') /\ Cardinality(offered') = Cardinality(offered) + 1
    BY <1>1, FS_AddElement
  <1>3. Cardinality(offered) \in Nat
    BY <1>1, FS_CardinalityType
  <1>4. clean \in [Kinds -> Nat] /\ \A k \in Kinds : clean[k] <= Cardinality(offered)
    BY DEF Books
  <1>5. clean' \in [Kinds -> Nat] /\ \A k \in Kinds : clean'[k] <= clean[k] + 1
    BY <1>4 DEF Count
  <1>6. \A k \in Kinds : clean'[k] <= Cardinality(offered')
    BY <1>2, <1>3, <1>4, <1>5
  <1>7. offered' \subseteq Frames /\ Cardinality(offered') <= MaxFrames
    <2>1. MaxFrames \in Nat
      OBVIOUS
    <2> QED
      BY <1>1, <1>2, <1>3, <2>1
  <1> QED
    BY <1>2, <1>5, <1>6, <1>7 DEF Books

LEMMA ProcessPlaces ==
  ASSUME Places, NEW f \in Frames, NEW c, ProcessValidFrame(c, f)
  PROVE  /\ passed' \in Seq(Frames) /\ discarded' \subseteq Frames
         /\ \E k \in Kinds : Count(k)
  <1>1. 0 \in Kinds /\ 1 \in Kinds /\ 2 \in Kinds
    BY DEF Kinds
  <1>2. passed \in Seq(Frames) /\ discarded \subseteq Frames
    BY DEF Places
  <1>3. CASE OutOfRange(c, f)
    BY <1>1, <1>2, <1>3 DEF OutOfRange, Discard
  <1>4. CASE Anomaly(c, f)
    BY <1>1, <1>2, <1>4 DEF Anomaly, Discard
  <1>5. CASE Pass(c, f)
    BY <1>1, <1>2, <1>5 DEF Pass
  <1> QED
    BY <1>3, <1>4, <1>5 DEF ProcessValidFrame

LEMMA PlacesStep ==
  ASSUME CleanIInv, NEW f \in Frames, CleanerProcess(f)
  PROVE  Books' /\ Places'
  <1>0. Homes /\ Books /\ Places
    BY DEF CleanIInv
  <1>1. CASE CleanAlarm(f) \/ CleanHeart(f) \/ CleanStale(f)
    <2>1. \E k \in Kinds : Count(k)
      BY <1>1 DEF CleanAlarm, CleanHeart, CleanStale, Discard, Kinds
    <2>2. Offer(f) /\ Places'
      BY <1>0, <1>1 DEF CleanAlarm, CleanHeart, CleanStale, Discard, Places
    <2> QED
      BY <1>0, <2>1, <2>2, CountBounded
  <1>2. CASE CleanInOrder(f)
    <2>1. Offer(f) /\ ProcessValidFrame(ctx[f.station], f) /\ UNCHANGED <<alarmed, released>>
      BY <1>2 DEF CleanInOrder
    <2> QED
      BY <1>0, <2>1, ProcessPlaces, CountBounded DEF Places
  <1>3. CASE CleanStash(f)
    <2>1. Offer(f) /\ UNCHANGED <<clean, passed, alarmed, discarded, released>>
      BY <1>3 DEF CleanStash
    <2> QED
      BY <1>0, <2>1, CountBounded DEF Places
  <1>4. CASE CleanSwap(f)
    <2> DEFINE c == ctx[f.station]
    <2>1. PICK i \in DOMAIN c.stash :
             /\ ProcessValidFrame(Swap(c, i, f), c.stash[i])
             /\ released' = released \cup {c.stash[i]}
      BY <1>4 DEF CleanSwap
    <2>2. Offer(f) /\ alarmed' = alarmed /\ c.stash[i] \in Frames
      BY <1>0, <1>4, SwapOut DEF CleanSwap
    <2>3. /\ passed' \in Seq(Frames) /\ discarded' \subseteq Frames
          /\ \E k \in Kinds : Count(k)
      BY <1>0, <2>1, <2>2, ProcessPlaces
    <2> QED
      BY <1>0, <2>1, <2>2, <2>3, CountBounded DEF Places
  <1>5. CASE CleanNoContext(f)
    <2>1. Offer(f) /\ clean' = clean /\ Places'
      BY <1>0, <1>5 DEF CleanNoContext, Places
    <2> QED
      BY <1>0, <2>1, CountBounded
  <1> QED
    BY <1>1, <1>2, <1>3, <1>4, <1>5 DEF CleanerProcess

LEMMA CleanInvariant == Spec => []CleanIInv
  <1>1. CleanIInv /\ [Next]_clvars => CleanIInv'
    <2>1. ASSUME CleanIInv, NEW f \in Frames, CleanerProcess(f) PROVE CleanIInv'
      BY <2>1, HomesStep, PlacesStep DEF CleanIInv
    <2>2. ASSUME CleanIInv, UNCHANGED clvars PROVE CleanIInv'
      BY <2>2 DEF CleanIInv, Homes, Books, Places, clvars, ctxvars
    <2> QED
      BY <2>1, <2>2 DEF Next
  <1> QED
    BY <1>1, InitClean, PTL DEF Spec

\* A frame without a counter is one of the drops.
Tally == have \subseteq Stations /\ uncounted \subseteq discarded

LEMMA TallyNext ==
  ASSUME Tally, [Next]_clvars
  PROVE  Tally'
  <1>1. ASSUME NEW f \in Frames, CleanerProcess(f) PROVE Tally'
    <2>1. f.station \in Stations
      BY DEF Stations
    <2>2. CASE CleanAlarm(f) \/ CleanHeart(f)
      BY <2>2 DEF CleanAlarm, CleanHeart, Discard, ctxvars, Tally
    <2>3. CASE CleanNoContext(f)
      BY <2>3 DEF CleanNoContext, Tally
    <2>4. CASE CleanStale(f) \/ CleanStash(f)
      BY <2>1, <2>4 DEF CleanStale, CleanStash, Discard, Context, Tally
    <2>5. CASE CleanInOrder(f) \/ CleanSwap(f)
      <3>1. Context(f) /\ \E c, g : ProcessValidFrame(c, g)
        BY <2>5 DEF CleanInOrder, CleanSwap
      <3>2. discarded \subseteq discarded'
        BY <3>1 DEF ProcessValidFrame, OutOfRange, Anomaly, Pass, Discard
      <3> QED
        BY <2>1, <3>1, <3>2 DEF Context, Tally
    <2> QED
      BY <1>1, <2>2, <2>3, <2>4, <2>5 DEF CleanerProcess
  <1>2. CASE UNCHANGED clvars
    BY <1>2 DEF clvars, ctxvars, Tally
  <1> QED
    BY <1>1, <1>2 DEF Next

LEMMA InitTally == Init => Tally
  BY DEF Init, Tally

\* The window's index and values, the stash and the counters stay in their
\* ranges for every order of frames: w_idx wraps around within the window, and
\* what is written to it has been narrowed to 16 bits.
THEOREM CleanerTyping == Spec => []TypeOK
  <1>1. CleanIInv /\ Tally => TypeOK
    <2> SUFFICES ASSUME CleanIInv, Tally PROVE TypeOK
      OBVIOUS
    <2>1. ASSUME NEW s \in Stations
          PROVE  /\ ctx[s].known \in BOOLEAN
                 /\ Len(ctx[s].stash) <= StashSize
                 /\ Range(ctx[s].stash) \subseteq Frames
                 /\ ctx[s].window \in [0..(Window - 1) -> (-Int16Max - 1)..Int16Max]
                 /\ ctx[s].wIdx \in 0..(Window - 1)
                 /\ ctx[s].wCount \in 0..Window
      <3>1. ContextOf(s, ctx[s])
        BY DEF CleanIInv, Homes
      <3>2. ctx[s] \in Contexts
        BY <3>1 DEF ContextOf
      <3>3. Range(ctx[s].stash) \subseteq Frames
        BY <3>2 DEF Contexts, Range
      <3> QED
        BY <3>1, <3>2, <3>3 DEF ContextOf, Contexts
    <2>2. clean \in [Kinds -> 0..MaxFrames]
      <3>1. offered \subseteq Frames /\ Cardinality(offered) \in Nat
        BY FS_CardinalityType DEF CleanIInv, Books
      <3> QED
        BY <3>1 DEF CleanIInv, Books
    <2>3. passed \in Seq(Frames) /\ offered \cup alarmed \cup discarded \cup released \subseteq Frames
      BY DEF CleanIInv, Books, Places
    <2> QED
      BY <2>1, <2>2, <2>3 DEF TypeOK, Tally
  <1> QED
    BY <1>1, CleanInvariant, InitTally, TallyNext, PTL DEF Spec

-----------------------------------------------------------------------------
(* Order.                                                                   *)

\* No frame of the station has come out of its stash after place i, up to j.
NoneReleased(i, j) ==
  \A k \in (i + 1)..j : passed[k].station = passed[i].station => passed[k] \notin released

\* The timestamp c keeps is not before that of f.
NotBehind(c, f) == c.known /\ ~Before(c, f)

\* Why comparing with the last timestamp is enough: whatever passed since the
\* last frame out of the stash is not after it.
LastIsLatest ==
  \A i \in 1..Len(passed) :
     NoneReleased(i, Len(passed)) => NotBehind(ctx[passed[i].station], passed[i])

OrderIInv == CleanIInv /\ LastIsLatest /\ OnlyStashGoesBack

LEMMA BeforeAfter ==
  ASSUME NEW c, c.sec \in Nat, c.ms \in Nat, NEW f \in Frames, NEW g \in Frames,
         ~Before(c, f), Before(c, g)
  PROVE  Before(f, g)
  <1>1. f.sec \in Nat /\ f.ms \in Nat /\ g.sec \in Nat /\ g.ms \in Nat
    OBVIOUS
  <1> QED
    BY <1>1 DEF Before

LEMMA NotBehindItself ==
  ASSUME NEW d, NEW f \in Frames, d.known = TRUE, d.sec = f.sec, d.ms = f.ms
  PROVE  NotBehind(d, f)
  <1>1. f.sec \in Nat /\ f.ms \in Nat
    OBVIOUS
  <1>2. ~Before(d, f)
    BY <1>1 DEF Before
  <1> QED
    BY <1>2 DEF NotBehind

LEMMA SameTimeSame ==
  ASSUME NEW c, NEW d, NEW f, SameTime(c, d)
  PROVE  /\ NotBehind(c, f) <=> NotBehind(d, f)
         /\ Stale(c, f) <=> Stale(d, f)
  BY DEF SameTime, NotBehind, Stale, Before

\* Steps that pass nothing and leave the timestamps alone.
LEMMA NothingPassed ==
  ASSUME OrderIInv, passed' = passed, released \subseteq released',
         \A s \in Stations : SameTime(ctx'[s], ctx[s])
  PROVE  LastIsLatest' /\ OnlyStashGoesBack'
  <1>1. passed \in Seq(Frames)
    BY DEF OrderIInv, CleanIInv, Places
  <1>2. \A i, j : NoneReleased(i, j)' => NoneReleased(i, j)
    BY DEF NoneReleased
  <1>3. LastIsLatest'
    <2> SUFFICES ASSUME NEW i \in 1..Len(passed), NoneReleased(i, Len(passed))'
                 PROVE  NotBehind(ctx'[passed[i].station], passed[i])
      BY DEF LastIsLatest
    <2>1. NotBehind(ctx[passed[i].station], passed[i])
      BY <1>2 DEF OrderIInv, LastIsLatest
    <2>2. passed[i].station \in Stations
      BY <1>1 DEF Stations
    <2> QED
      BY <2>1, <2>2, SameTimeSame
  <1>4. OnlyStashGoesBack'
    BY DEF OrderIInv, OnlyStashGoesBack
  <1> QED
    BY <1>3, <1>4

\* Steps that pass a frame that comes out of the stash, or after the last one.
LEMMA OnePassed ==
  ASSUME OrderIInv, NEW g \in Frames, NEW d,
         passed' = Append(passed, g), released \subseteq released',
         ctx' = [ctx EXCEPT ![g.station] = d],
         d.known = TRUE, d.sec = g.sec, d.ms = g.ms,
         g \in released' \/ ~Stale(ctx[g.station], g)
  PROVE  LastIsLatest' /\ OnlyStashGoesBack'
  <1> DEFINE s == g.station
  <1>0. PICK n : n = Len(passed)
    OBVIOUS
  <1>1. /\ passed \in Seq(Frames) /\ n \in Nat /\ s \in Stations
        /\ ctx \in [Stations -> Contexts]
    BY <1>0 DEF OrderIInv, CleanIInv, Places, Homes, Stations
  <1>2. /\ Len(passed') = n + 1 /\ passed'[n + 1] = g
        /\ \A i \in 1..n : passed'[i] = passed[i]
    BY <1>0, <1>1
  <1>3. \A i \in 1..(n + 1) : passed'[i] \in Frames
    BY <1>1, <1>2
  <1>4. ASSUME NEW i \in 1..n, NEW j \in Nat, n <= j, NoneReleased(i, j)'
        PROVE  NoneReleased(i, n)
    BY <1>1, <1>2, <1>4 DEF NoneReleased
  <1>5. ASSUME NEW i \in 1..n, NoneReleased(i, n + 1)'
        PROVE  NotBehind(ctx[passed[i].station], passed[i])
    <2>1. NoneReleased(i, n)
      BY <1>1, <1>4, <1>5
    <2> QED
      BY <1>0, <2>1 DEF OrderIInv, LastIsLatest
  <1>6. ASSUME NEW i \in 1..n
        PROVE  passed[i] \in Frames /\ passed[i].station \in Stations
    <2>1. passed[i] \in Frames
      BY <1>0, <1>1
    <2> QED
      BY <2>1 DEF Stations
  \* An earlier frame of the station, with none released since, precedes g.
  <1>7. ASSUME NEW i \in 1..n, passed[i].station = s, NoneReleased(i, n + 1)'
        PROVE  Before(passed[i], g)
    <2>1. n + 1 \in (i + 1)..(n + 1)
      BY <1>1
    <2>2. g \notin released'
      BY <1>2, <1>7, <2>1 DEF NoneReleased
    <2>3. ~Stale(ctx[s], g)
      BY <2>2
    <2>4. NotBehind(ctx[s], passed[i])
      BY <1>7, <1>5
    <2>5. ctx[s] \in Contexts
      BY <1>1
    <2>6. ctx[s].sec \in Nat /\ ctx[s].ms \in Nat /\ passed[i] \in Frames
      BY <1>6, <2>5 DEF Contexts
    <2> QED
      BY <2>3, <2>4, <2>6, BeforeAfter DEF NotBehind, Stale
  <1>8. ASSUME NEW i \in 1..(n + 1), NoneReleased(i, n + 1)'
        PROVE  NotBehind(ctx'[passed'[i].station], passed'[i])
    <2>1. CASE i = n + 1
      <3>1. ctx'[s] = d /\ passed'[i] = g
        BY <1>1, <1>2, <2>1
      <3> QED
        BY <3>1, NotBehindItself
    <2>2. CASE i \in 1..n /\ passed[i].station # s
      <3>1. ctx'[passed[i].station] = ctx[passed[i].station]
        BY <1>1, <1>6, <2>2
      <3>2. NotBehind(ctx[passed[i].station], passed[i])
        BY <1>8, <1>5, <2>2
      <3> QED
        BY <1>2, <2>2, <3>1, <3>2
    <2>3. CASE i \in 1..n /\ passed[i].station = s
      <3>1. Before(passed[i], g) /\ passed[i] \in Frames
        BY <1>7, <1>8, <1>6, <2>3
      <3>2. ctx'[s] = d
        BY <1>1
      <3>3. ~Before(d, passed[i])
        <4>1. /\ g.sec \in Nat /\ g.ms \in Nat
              /\ passed[i].sec \in Nat /\ passed[i].ms \in Nat
          BY <3>1
        <4>2. PICK a, b, p, q \in Nat :
                 a = g.sec /\ b = g.ms /\ p = passed[i].sec /\ q = passed[i].ms
          BY <4>1
        <4>3. p < a \/ (p = a /\ q < b)
          BY <3>1, <4>2 DEF Before
        <4>4. ~(a < p \/ (a = p /\ b < q))
          BY <4>3
        <4> QED
          BY <4>2, <4>4 DEF Before
      <3> QED
        BY <1>2, <2>3, <3>2, <3>3 DEF NotBehind
    <2>4. i = n + 1 \/ i \in 1..n
      BY <1>1
    <2> QED
      BY <2>1, <2>2, <2>3, <2>4, Zenon
  <1>9. LastIsLatest'
    BY <1>2, <1>8 DEF LastIsLatest
  <1>10. OnlyStashGoesBack'
    <2> SUFFICES ASSUME NEW i \in 1..(n + 1), NEW j \in 1..(n + 1), i < j,
                        passed'[i].station = passed'[j].station,
                        NoneReleased(i, j)'
                 PROVE  Before(passed'[i], passed'[j])
      <3>1. DOMAIN passed' = 1..(n + 1)
        BY <1>1, <1>2
      <3> QED
        BY <3>1 DEF OnlyStashGoesBack, NoneReleased
    <2>1. CASE j = n + 1
      <3>1. i \in 1..n /\ passed'[j] = g /\ passed'[i] = passed[i]
        BY <1>1, <1>2, <2>1
      <3> QED
        BY <1>7, <2>1, <3>1
    <2>2. CASE j \in 1..n
      <3>1. i \in 1..n /\ DOMAIN passed = 1..n
        BY <1>0, <1>1, <2>2
      <3>2. NoneReleased(i, j)
        BY <1>2, <2>2, <3>1 DEF NoneReleased
      <3>3. Before(passed[i], passed[j])
        BY <1>2, <2>2, <3>1, <3>2 DEF OrderIInv, OnlyStashGoesBack, NoneReleased
      <3> QED
        BY <1>2, <2>2, <3>1, <3>3
    <2>3. j = n + 1 \/ j \in 1..n
      BY <1>1
    <2> QED
      BY <2>1, <2>2, <2>3, Zenon
  <1> QED
    BY <1>9, <1>10

LEMMA ProcessOrder ==
  ASSUME OrderIInv, NEW f \in Frames, NEW c, ContextOf(f.station, c),
         SameTime(c, ctx[f.station]), ProcessValidFrame(c, f),
         released \subseteq released',
         f \in released' \/ ~Stale(ctx[f.station], f)
  PROVE  LastIsLatest' /\ OnlyStashGoesBack'
  <1>1. CASE Pass(c, f)
    <2>1. passed' = Append(passed, f) /\ ctx' = [ctx EXCEPT ![f.station] = Admit(c, f)]
      BY <1>1 DEF Pass
    <2> QED
      BY <2>1, AdmitContext, OnePassed
  <1>2. CASE OutOfRange(c, f) \/ Anomaly(c, f)
    <2>1. passed' = passed /\ ctx' = [ctx EXCEPT ![f.station] = c]
      BY <1>2 DEF OutOfRange, Anomaly
    <2>2. \A s \in Stations : SameTime(ctx'[s], ctx[s])
      BY <2>1 DEF OrderIInv, CleanIInv, Homes, SameTime
    <2> QED
      BY <2>1, <2>2, NothingPassed
  <1> QED
    BY <1>1, <1>2 DEF ProcessValidFrame

LEMMA OrderStep ==
  ASSUME OrderIInv, NEW f \in Frames, CleanerProcess(f)
  PROVE  LastIsLatest' /\ OnlyStashGoesBack'
  <1> DEFINE c == ctx[f.station]
  <1>0. /\ Homes /\ f.station \in Stations /\ ContextOf(f.station, c)
        /\ \A s \in Stations : SameTime(ctx[s], ctx[s])
    BY DEF OrderIInv, CleanIInv, Homes, Stations, SameTime
  <1>1. CASE CleanAlarm(f) \/ CleanHeart(f) \/ CleanNoContext(f) \/ CleanStale(f)
    <2>1. UNCHANGED <<ctx, passed, released>>
      BY <1>1 DEF CleanAlarm, CleanHeart, CleanNoContext, CleanStale, ctxvars
    <2> QED
      BY <1>0, <2>1, NothingPassed
  <1>2. CASE CleanInOrder(f)
    <2>1. /\ ProcessValidFrame(c, f) /\ released' = released /\ ~Stale(c, f)
      BY <1>2 DEF CleanInOrder
    <2> QED
      BY <1>0, <2>1, ProcessOrder
  <1>3. CASE CleanStash(f)
    <2>1. /\ Len(c.stash) < StashSize /\ UNCHANGED <<passed, released>>
          /\ ctx' = [ctx EXCEPT ![f.station].stash = Append(c.stash, f)]
      BY <1>3 DEF CleanStash
    <2>2. ctx' = [ctx EXCEPT ![f.station] = [c EXCEPT !.stash = Append(c.stash, f)]]
      BY <1>0, <2>1 DEF Homes
    <2>3. SameTime([c EXCEPT !.stash = Append(c.stash, f)], c)
      BY <1>0, <2>1, StashContext
    <2>4. \A s \in Stations : SameTime(ctx'[s], ctx[s])
      BY <1>0, <2>2, <2>3 DEF Homes
    <2> QED
      BY <2>1, <2>4, NothingPassed
  <1>4. CASE CleanSwap(f)
    <2>1. PICK i \in DOMAIN c.stash :
             /\ ProcessValidFrame(Swap(c, i, f), c.stash[i])
             /\ released' = released \cup {c.stash[i]}
      BY <1>4 DEF CleanSwap
    <2> DEFINE g == c.stash[i]
    <2>2. /\ g \in Frames /\ g.station = f.station
          /\ ContextOf(g.station, Swap(c, i, f)) /\ SameTime(Swap(c, i, f), c)
      BY <1>0, SwapOut
    <2> QED
      BY <2>1, <2>2, ProcessOrder
  <1> QED
    BY <1>1, <1>2, <1>3, <1>4 DEF CleanerProcess

LEMMA InitOrder == Init => LastIsLatest /\ OnlyStashGoesBack
  <1> SUFFICES ASSUME Init PROVE LastIsLatest /\ OnlyStashGoesBack
    OBVIOUS
  <1>1. passed = << >>
    BY DEF Init
  <1> QED
    BY <1>1 DEF LastIsLatest, OnlyStashGoesBack

\* Duplicates and late frames of the network never get out, although only the
\* last timestamp is remembered: the timestamps of a station's frames in Q2 go
\* up, except where one came out of the reorder buffer (cleaner.c:184, 211).
THEOREM StationOrder == Spec => []OnlyStashGoesBack
  <1>1. OrderIInv /\ [Next]_clvars => OrderIInv'
    <2> SUFFICES ASSUME OrderIInv, [Next]_clvars PROVE OrderIInv'
      OBVIOUS
    <2>1. ASSUME NEW f \in Frames, CleanerProcess(f) PROVE OrderIInv'
      BY <2>1, HomesStep, PlacesStep, OrderStep DEF OrderIInv, CleanIInv
    <2>2. ASSUME UNCHANGED clvars PROVE OrderIInv'
      BY <2>2 DEF OrderIInv, CleanIInv, Homes, Books, Places, LastIsLatest,
                  OnlyStashGoesBack, NoneReleased, clvars, ctxvars
    <2> QED
      BY <2>1, <2>2 DEF Next
  <1>2. OrderIInv => OnlyStashGoesBack
    BY DEF OrderIInv
  <1> QED
    BY <1>1, <1>2, InitClean, InitOrder, PTL DEF Spec, OrderIInv

-----------------------------------------------------------------------------
(* One place for every frame.                                               *)

\* EachFrameOnce, place by place.
OneHome ==
  /\ offered = Range(passed) \cup alarmed \cup discarded \cup Stashed
  /\ Range(passed) \cap alarmed = {} /\ Range(passed) \cap discarded = {}
  /\ alarmed \cap discarded = {}
  /\ Stashed \cap (Range(passed) \cup alarmed \cup discarded) = {}
  /\ IsInjective(passed)
  /\ \A s \in Stations : IsInjective(ctx[s].stash)

OnceIInv == CleanIInv /\ OneHome

\* The frames that have left the cleaner, one way or another.
Left == offered \ Stashed

\* In a step at most one frame leaves; it is counted, or it had no context.
OneLeaves ==
  \/ Left' = Left /\ UNCHANGED <<clean, uncounted>>
  \/ \E g \in Frames \ Left, k \in Kinds :
        Left' = Left \cup {g} /\ Count(k) /\ uncounted' = uncounted
  \/ \E g \in Frames \ Left :
        Left' = Left \cup {g} /\ clean' = clean /\ uncounted' = uncounted \cup {g}

\* A frame at the end of a sequence.
LEMMA AppendRange ==
  ASSUME NEW p \in Seq(Frames), NEW f \in Frames
  PROVE  /\ Range(Append(p, f)) = Range(p) \cup {f}
         /\ IsInjective(p) /\ f \notin Range(p) => IsInjective(Append(p, f))
  <1>1. PICK n \in Nat : n = Len(p)
    OBVIOUS
  <1> DEFINE q == Append(p, f)
  <1>2. /\ DOMAIN q = 1..(n + 1) /\ DOMAIN p = 1..n
        /\ q[n + 1] = f /\ \A i \in 1..n : q[i] = p[i]
    BY <1>1
  <1> HIDE DEF q
  <1>3. \A i \in 1..(n + 1) : i \in 1..n \/ i = n + 1
    OBVIOUS
  <1>4. n + 1 \in 1..(n + 1) /\ \A i \in 1..n : i \in 1..(n + 1)
    OBVIOUS
  <1>5. Range(q) = Range(p) \cup {f}
    <2>1. ASSUME NEW x \in Range(q) PROVE x \in Range(p) \cup {f}
      BY <1>2, <1>3, <2>1 DEF Range
    <2>2. ASSUME NEW x \in Range(p) PROVE x \in Range(q)
      BY <1>2, <1>4, <2>2 DEF Range
    <2>3. f \in Range(q)
      BY <1>2, <1>4 DEF Range
    <2> QED
      BY <2>1, <2>2, <2>3
  <1>6. ASSUME IsInjective(p), f \notin Range(p) PROVE IsInjective(q)
    <2>1. \A i \in 1..n : p[i] # f
      BY <1>2, <1>6 DEF Range
    <2> SUFFICES ASSUME NEW i \in 1..(n + 1), NEW j \in 1..(n + 1), q[i] = q[j]
                 PROVE  i = j
      BY <1>2 DEF IsInjective
    <2>2. CASE i \in 1..n /\ j \in 1..n
      BY <1>2, <1>6, <2>2 DEF IsInjective
    <2>3. CASE i = n + 1 \/ j = n + 1
      BY <1>2, <1>3, <2>1, <2>3
    <2> QED
      BY <1>3, <2>2, <2>3
  <1> QED
    BY <1>5, <1>6 DEF q

\* A frame in the place of another.
LEMMA SwapRange ==
  ASSUME NEW p \in Seq(Frames), NEW i \in 1..Len(p), NEW f \in Frames,
         IsInjective(p), f \notin Range(p)
  PROVE  /\ p[i] \in Range(p) /\ p[i] # f
         /\ Range([p EXCEPT ![i] = f]) = (Range(p) \ {p[i]}) \cup {f}
         /\ IsInjective([p EXCEPT ![i] = f])
  <1> DEFINE q == [p EXCEPT ![i] = f]
  <1>1. /\ DOMAIN q = DOMAIN p /\ i \in DOMAIN p
        /\ \A j \in DOMAIN p : q[j] = IF j = i THEN f ELSE p[j]
    OBVIOUS
  <1> HIDE DEF q
  <1>2. p[i] \in Range(p) /\ \A j \in DOMAIN p : p[j] # f
    BY <1>1 DEF Range
  <1>3. \A j \in DOMAIN p : p[j] = p[i] => j = i
    BY <1>1 DEF IsInjective
  <1>4. Range(q) = (Range(p) \ {p[i]}) \cup {f}
    <2>1. ASSUME NEW x \in Range(q) PROVE x \in (Range(p) \ {p[i]}) \cup {f}
      BY <1>1, <1>3, <2>1 DEF Range
    <2>2. ASSUME NEW x \in Range(p) \ {p[i]} PROVE x \in Range(q)
      <3>1. PICK j \in DOMAIN p : p[j] = x
        BY DEF Range
      <3>2. j # i
        BY <3>1
      <3> QED
        BY <1>1, <3>1, <3>2 DEF Range
    <2>3. f \in Range(q)
      BY <1>1 DEF Range
    <2> QED
      BY <2>1, <2>2, <2>3
  <1>5. IsInjective(q)
    BY <1>1, <1>2 DEF IsInjective
  <1> QED
    BY <1>2, <1>4, <1>5 DEF q

\* What is stashed after the stash of one station has changed.
LEMMA StashedChange ==
  ASSUME Homes, NEW s \in Stations, NEW stash,
         \A r \in Stations : ctx'[r].stash = IF r = s THEN stash ELSE ctx[r].stash
  PROVE  \A f : f \in Stashed' <=>
                  \/ f \in Range(stash)
                  \/ \E r \in Stations \ {s} : f \in Range(ctx[r].stash)
  <1>1. \A f : f \in Stashed' <=> \E r \in Stations : f \in Range(ctx'[r].stash)
    BY DEF Stashed
  <1> QED
    BY <1>1, Zenon

\* Stashed frames, station by station.
LEMMA StashedHere ==
  \A f : f \in Stashed <=> \E r \in Stations : f \in Range(ctx[r].stash)
  BY DEF Stashed

\* What waits in the stash of a station is of that station.
LEMMA StashedAtHome ==
  ASSUME Homes, NEW s \in Stations, NEW f \in Range(ctx[s].stash)
  PROVE  f \in Frames /\ f.station = s
  <1>1. ContextOf(s, ctx[s]) /\ ctx[s].stash \in Seq(Frames)
    BY DEF Homes, Contexts
  <1>2. PICK i \in 1..Len(ctx[s].stash) : f = ctx[s].stash[i]
    BY <1>1 DEF Range
  <1> QED
    BY <1>1, <1>2 DEF ContextOf

\* The frame goes to Q2 or is dropped, and the stash stays as the reordering
\* left it.
LEMMA ProcessSettles ==
  ASSUME Homes, NEW f \in Frames, NEW c, ContextOf(f.station, c), ProcessValidFrame(c, f)
  PROVE  /\ \A r \in Stations :
               ctx'[r].stash = IF r = f.station THEN c.stash ELSE ctx[r].stash
         /\ \/ passed' = Append(passed, f) /\ discarded' = discarded
            \/ passed' = passed /\ discarded' = discarded \cup {f}
  <1>1. /\ ctx \in [Stations -> Contexts] /\ f.station \in Stations
        /\ c \in Contexts
    BY DEF Homes, ContextOf, Stations
  <1>2. CASE Pass(c, f)
    <2>1. Admit(c, f).stash = c.stash
      BY <1>1 DEF Admit, Contexts
    <2>2. /\ ctx' = [ctx EXCEPT ![f.station] = Admit(c, f)]
          /\ passed' = Append(passed, f) /\ discarded' = discarded
      BY <1>2 DEF Pass
    <2> QED
      BY <1>1, <2>1, <2>2
  <1>3. CASE OutOfRange(c, f) \/ Anomaly(c, f)
    <2>1. /\ ctx' = [ctx EXCEPT ![f.station] = c]
          /\ passed' = passed /\ discarded' = discarded \cup {f}
      BY <1>3 DEF OutOfRange, Anomaly, Discard
    <2> QED
      BY <1>1, <2>1
  <1> QED
    BY <1>2, <1>3 DEF ProcessValidFrame

\* A frame that is nowhere yet, or was waiting, goes to Q2 or is dropped.
LEMMA FrameSettles ==
  ASSUME OneHome, passed \in Seq(Frames), NEW g \in Frames,
         g \notin Range(passed) \cup alarmed \cup discarded,
         \/ passed' = Append(passed, g) /\ discarded' = discarded
         \/ passed' = passed /\ discarded' = discarded \cup {g}
  PROVE  /\ Range(passed') \cup discarded' = Range(passed) \cup discarded \cup {g}
         /\ Range(passed') \cap alarmed = {} /\ Range(passed') \cap discarded' = {}
         /\ alarmed \cap discarded' = {}
         /\ IsInjective(passed')
  <1>1. Range(Append(passed, g)) = Range(passed) \cup {g} /\ IsInjective(Append(passed, g))
    BY AppendRange DEF OneHome
  <1> QED
    BY <1>1 DEF OneHome

\* What one frame does to the places, and to the counters.
LEMMA OnceStep ==
  ASSUME OnceIInv, NEW f \in Frames, CleanerProcess(f)
  PROVE  OneHome' /\ OneLeaves
  <1> DEFINE c == ctx[f.station]
             s == f.station
  <1>0. /\ Homes /\ Places /\ OneHome /\ s \in Stations
        /\ ContextOf(s, c) /\ c.stash \in Seq(Frames) /\ passed \in Seq(Frames)
        /\ ctx \in [Stations -> Contexts]
    BY DEF OnceIInv, CleanIInv, Homes, Places, Stations, ContextOf, Contexts
  <1>1. /\ f \notin offered /\ offered' = offered \cup {f}
        /\ f \notin Range(passed) \cup alarmed \cup discarded /\ f \notin Stashed
    <2>1. Offer(f)
      BY DEF CleanerProcess, CleanAlarm, CleanHeart, CleanStale, CleanInOrder,
             CleanStash, CleanSwap, CleanNoContext
    <2> QED
      BY <1>0, <2>1 DEF Offer, OneHome
  <1>2. \A r \in Stations : f \notin Range(ctx[r].stash)
    BY <1>1, StashedHere
  <1>3. /\ Left = Range(passed) \cup alarmed \cup discarded
        /\ 0 \in Kinds /\ 1 \in Kinds /\ 2 \in Kinds /\ 3 \in Kinds /\ 4 \in Kinds
    BY <1>0 DEF Left, OneHome, Kinds
  <1>4. CASE CleanAlarm(f)
    <2>1. /\ alarmed' = alarmed \cup {f} /\ Count(1)
          /\ UNCHANGED <<ctx, passed, discarded, uncounted>>
      BY <1>4 DEF CleanAlarm, ctxvars
    <2>2. Stashed' = Stashed /\ Range(passed') = Range(passed)
      BY <2>1 DEF Stashed
    <2>3. OneHome'
      BY <1>0, <1>1, <2>1, <2>2 DEF OneHome
    <2>4. Left' = Left \cup {f} /\ f \notin Left
      BY <1>1, <1>3, <2>2 DEF Left
    <2> QED
      BY <1>3, <2>1, <2>3, <2>4 DEF OneLeaves
  <1>5. CASE CleanHeart(f) \/ CleanStale(f)
    <2>1. /\ discarded' = discarded \cup {f} /\ (Count(3) \/ Count(4))
          /\ UNCHANGED <<ctx, passed, alarmed, uncounted>>
      BY <1>5 DEF CleanHeart, CleanStale, Discard, Context, ctxvars
    <2>2. Stashed' = Stashed /\ Range(passed') = Range(passed)
      BY <2>1 DEF Stashed
    <2>3. OneHome'
      BY <1>0, <1>1, <2>1, <2>2 DEF OneHome
    <2>4. Left' = Left \cup {f} /\ f \notin Left
      BY <1>1, <1>3, <2>2 DEF Left
    <2> QED
      BY <1>3, <2>1, <2>3, <2>4 DEF OneLeaves
  <1>6. CASE CleanInOrder(f)
    <2>1. ProcessValidFrame(c, f) /\ UNCHANGED <<alarmed, uncounted>>
      BY <1>6 DEF CleanInOrder, Context
    <2>2. /\ \A r \in Stations : ctx'[r].stash = ctx[r].stash
          /\ \/ passed' = Append(passed, f) /\ discarded' = discarded
             \/ passed' = passed /\ discarded' = discarded \cup {f}
      BY <1>0, <2>1, ProcessSettles
    <2>3. Stashed' = Stashed
      BY <2>2 DEF Stashed
    <2>4. /\ Range(passed') \cup discarded' = Range(passed) \cup discarded \cup {f}
          /\ Range(passed') \cap alarmed = {} /\ Range(passed') \cap discarded' = {}
          /\ alarmed \cap discarded' = {} /\ IsInjective(passed')
      BY <1>0, <1>1, <2>2, FrameSettles
    <2>5. \E k \in Kinds : Count(k)
      BY <1>0, <2>1, ProcessPlaces
    <2>6. OneHome'
      BY <1>0, <1>1, <2>1, <2>2, <2>3, <2>4 DEF OneHome
    <2>7. Left' = Left \cup {f} /\ f \notin Left
      BY <1>1, <1>3, <2>3 DEF Left
    <2> QED
      BY <2>1, <2>5, <2>6, <2>7 DEF OneLeaves
  <1>7. CASE CleanStash(f)
    <2> DEFINE t == Append(c.stash, f)
    <2>1. /\ ctx' = [ctx EXCEPT ![s].stash = t]
          /\ UNCHANGED <<clean, passed, alarmed, discarded, uncounted>>
      BY <1>7 DEF CleanStash, Context
    <2>2. \A r \in Stations : ctx'[r].stash = IF r = s THEN t ELSE ctx[r].stash
      <3> HIDE DEF t
      <3> QED
        BY <1>0, <2>1 DEF Contexts
    <2>3. Range(t) = Range(c.stash) \cup {f} /\ IsInjective(t)
      BY <1>0, <1>2, AppendRange DEF OneHome
    <2> HIDE DEF t
    <2>4. Stashed' = Stashed \cup {f}
      <3>1. \A g : g \in Stashed' <=>
              \/ g \in Range(t)
              \/ \E r \in Stations \ {s} : g \in Range(ctx[r].stash)
        BY <1>0, <2>2, StashedChange
      <3>2. \A g : g \in Stashed' <=> g \in Stashed \/ g = f
        BY <1>0, <2>3, <3>1, StashedHere
      <3> QED
        BY <3>2
    <2>5. OneHome'
      <3>1. \A r \in Stations : IsInjective(ctx'[r].stash)
        BY <1>0, <2>2, <2>3 DEF OneHome
      <3>2. Range(passed') = Range(passed) /\ (IsInjective(passed') <=> IsInjective(passed))
        BY <2>1
      <3> QED
        BY <1>0, <1>1, <2>1, <2>4, <3>1, <3>2 DEF OneHome
    <2>6. Left' = Left
      BY <1>1, <2>4 DEF Left
    <2> QED
      BY <2>1, <2>5, <2>6 DEF OneLeaves
  <1>8. CASE CleanSwap(f)
    <2>1. PICK i \in DOMAIN c.stash : ProcessValidFrame(Swap(c, i, f), c.stash[i])
      BY <1>8 DEF CleanSwap
    <2>2. UNCHANGED <<alarmed, uncounted>>
      BY <1>8 DEF CleanSwap, Context
    <2> DEFINE g == c.stash[i]
               t == [c.stash EXCEPT ![i] = f]
    <2>3. /\ g \in Frames /\ g.station = s
          /\ ContextOf(g.station, Swap(c, i, f)) /\ Swap(c, i, f).stash = t
      <3>1. Swap(c, i, f).stash = t
        BY <1>0 DEF Swap, ContextOf, Contexts
      <3> QED
        BY <1>0, <3>1, SwapOut
    <2>4. /\ i \in 1..Len(c.stash) /\ IsInjective(c.stash) /\ f \notin Range(c.stash)
      BY <1>0, <1>2 DEF OneHome
    <2>5. /\ g \in Range(c.stash) /\ g # f
          /\ Range(t) = (Range(c.stash) \ {g}) \cup {f}
          /\ IsInjective(t)
      BY <1>0, <2>4, SwapRange
    <2>6. /\ \A r \in Stations : ctx'[r].stash = IF r = s THEN t ELSE ctx[r].stash
          /\ \/ passed' = Append(passed, g) /\ discarded' = discarded
             \/ passed' = passed /\ discarded' = discarded \cup {g}
          /\ \E k \in Kinds : Count(k)
      <3> DEFINE d == Swap(c, i, f)
      <3>1. /\ g \in Frames /\ g.station = s /\ d.stash = t
            /\ ContextOf(g.station, d) /\ ProcessValidFrame(d, g)
        BY <2>1, <2>3
      <3> HIDE DEF d, g, t
      <3>2. /\ \A r \in Stations :
                  ctx'[r].stash = IF r = g.station THEN d.stash ELSE ctx[r].stash
            /\ \/ passed' = Append(passed, g) /\ discarded' = discarded
               \/ passed' = passed /\ discarded' = discarded \cup {g}
        BY <1>0, <3>1, ProcessSettles
      <3>3. \E k \in Kinds : Count(k)
        BY <1>0, <3>1, ProcessPlaces
      <3> QED
        BY <3>1, <3>2, <3>3
    <2> HIDE DEF g, t
    <2>7. g \in Stashed /\ g \notin Range(passed) \cup alarmed \cup discarded
      <3>1. g \in Stashed
        BY <1>0, <2>5, StashedHere
      <3> QED
        BY <1>0, <3>1 DEF OneHome
    <2>8. Stashed' = (Stashed \ {g}) \cup {f}
      <3>1. \A h : h \in Stashed' <=>
              \/ h \in Range(t)
              \/ \E r \in Stations \ {s} : h \in Range(ctx[r].stash)
        BY <1>0, <2>6, StashedChange
      <3>2. \A r \in Stations \ {s} : g \notin Range(ctx[r].stash)
        BY <1>0, <2>3, StashedAtHome
      <3>3. \A h : h \in Stashed <=>
              \/ h \in Range(c.stash)
              \/ \E r \in Stations \ {s} : h \in Range(ctx[r].stash)
        BY <1>0, StashedHere
      <3>4. \A h : h \in Stashed' <=> h \in (Stashed \ {g}) \cup {f}
        BY <2>5, <3>1, <3>2, <3>3, Zenon
      <3> QED
        BY <3>4
    <2>9. /\ Range(passed') \cup discarded' = Range(passed) \cup discarded \cup {g}
          /\ Range(passed') \cap alarmed = {} /\ Range(passed') \cap discarded' = {}
          /\ alarmed \cap discarded' = {} /\ IsInjective(passed')
      BY <1>0, <2>3, <2>6, <2>7, FrameSettles
    <2>10. OneHome'
      <3>1. \A r \in Stations : IsInjective(ctx'[r].stash)
        BY <1>0, <2>5, <2>6 DEF OneHome
      <3> QED
        BY <1>0, <1>1, <2>2, <2>5, <2>7, <2>8, <2>9, <3>1 DEF OneHome
    <2>11. Left' = Left \cup {g} /\ g \notin Left
      BY <1>0, <1>1, <2>5, <2>7, <2>8 DEF Left, OneHome
    <2> QED
      BY <2>2, <2>3, <2>6, <2>10, <2>11 DEF OneLeaves
  <1>9. CASE CleanNoContext(f)
    <2>1. /\ discarded' = discarded \cup {f}
          /\ uncounted' = uncounted \cup {f}
          /\ UNCHANGED <<ctx, clean, passed, alarmed>>
      BY <1>9 DEF CleanNoContext
    <2>2. Stashed' = Stashed /\ Range(passed') = Range(passed)
      BY <2>1 DEF Stashed
    <2>3. OneHome'
      BY <1>0, <1>1, <2>1, <2>2 DEF OneHome
    <2>4. Left' = Left \cup {f} /\ f \notin Left
      BY <1>1, <1>3, <2>2 DEF Left
    <2> QED
      BY <1>3, <2>1, <2>3, <2>4 DEF OneLeaves
  <1> QED
    BY <1>4, <1>5, <1>6, <1>7, <1>8, <1>9 DEF CleanerProcess

\* Before the first frame.
LEMMA InitOnce == Init => OneHome /\ Left = {}
  <1> SUFFICES ASSUME Init PROVE OneHome /\ Left = {}
    OBVIOUS
  <1>1. passed = << >> /\ alarmed = {} /\ discarded = {} /\ offered = {}
    BY DEF Init
  <1>2. \A s \in Stations : ctx[s].stash = << >>
    BY DEF Init, EmptyCtx
  <1>3. Range(<< >>) = {} /\ IsInjective(<< >>)
    BY DEF Range, IsInjective
  <1>4. Stashed = {}
    BY <1>2, <1>3 DEF Stashed
  <1> QED
    BY <1>1, <1>2, <1>3, <1>4 DEF OneHome, Left

\* Steps keep the places apart.
LEMMA OnceNext ==
  ASSUME OnceIInv, [Next]_clvars
  PROVE  OnceIInv' /\ OneLeaves
  <1>1. ASSUME NEW f \in Frames, CleanerProcess(f) PROVE OnceIInv' /\ OneLeaves
    <2>1. CleanIInv'
      BY <1>1, HomesStep, PlacesStep DEF OnceIInv, CleanIInv
    <2> QED
      BY <1>1, <2>1, OnceStep DEF OnceIInv
  <1>2. ASSUME UNCHANGED clvars PROVE OnceIInv' /\ OneLeaves
    BY <1>2 DEF OnceIInv, CleanIInv, Homes, Books, Places, OneHome, Stashed,
                OneLeaves, Left, clvars, ctxvars
  <1> QED
    BY <1>1, <1>2 DEF Next

\* No order of frames loses or doubles one: whatever cleaner_process was given
\* is in Q2, dropped, or in one slot of its station's reorder_buf, also when a
\* frame takes the place of the oldest one in a full buffer (cleaner.c:208).
THEOREM FramesOnce == Spec => []EachFrameOnce
  <1>1. OnceIInv => EachFrameOnce
    <2> SUFFICES ASSUME OnceIInv PROVE EachFrameOnce
      OBVIOUS
    <2> DEFINE places == <<Range(passed), alarmed, discarded, Stashed>>
    <2>1. DOMAIN places = 1..4 /\ 1..4 = {1, 2, 3, 4}
      OBVIOUS
    <2>2. /\ places[1] = Range(passed) /\ places[2] = alarmed
          /\ places[3] = discarded /\ places[4] = Stashed
      OBVIOUS
    <2> HIDE DEF places
    <2>3. Range(places) = {Range(passed), alarmed, discarded, Stashed}
      BY <2>1, <2>2 DEF Range
    <2>4. UNION Range(places) = Range(passed) \cup alarmed \cup discarded \cup Stashed
      BY <2>3
    <2>5. \A i, j \in DOMAIN places : i # j => places[i] \cap places[j] = {}
      <3> SUFFICES ASSUME NEW i \in {1, 2, 3, 4}, NEW j \in {1, 2, 3, 4}, i # j
                   PROVE  places[i] \cap places[j] = {}
        BY <2>1
      <3>1. /\ places[1] \cap places[2] = {} /\ places[1] \cap places[3] = {}
            /\ places[1] \cap places[4] = {} /\ places[2] \cap places[3] = {}
            /\ places[2] \cap places[4] = {} /\ places[3] \cap places[4] = {}
        BY <2>2 DEF OnceIInv, OneHome
      <3> QED
        BY <3>1
    <2>6. ASSUME NEW s \in Stations, NEW f \in Range(ctx[s].stash) PROVE f.station = s
      BY StashedAtHome DEF OnceIInv, CleanIInv
    <2> QED
      BY <2>4, <2>5, <2>6 DEF EachFrameOnce, OnceIInv, OneHome, places
  <1>2. OnceIInv /\ [Next]_clvars => OnceIInv'
    BY OnceNext
  <1> QED
    BY <1>1, <1>2, InitClean, InitOnce, PTL DEF Spec, OnceIInv

-----------------------------------------------------------------------------
(* The books.                                                               *)

Counted == clean[0] + clean[1] + clean[2] + clean[3] + clean[4]

CountIInv ==
  /\ OnceIInv /\ Tally
  /\ Cardinality(Left) = Counted + Cardinality(uncounted)

\* The frames without a context are some of those that left, finitely many.
LEMMA FewUncounted ==
  ASSUME CountIInv
  PROVE  /\ IsFiniteSet(Left) /\ IsFiniteSet(uncounted) /\ uncounted \subseteq Left
         /\ clean \in [Kinds -> Nat] /\ Kinds = {0, 1, 2, 3, 4}
         /\ Counted \in Nat /\ Cardinality(uncounted) \in Nat
  <1>1. IsFiniteSet(offered) /\ Left \subseteq offered
    BY DEF CountIInv, OnceIInv, CleanIInv, Books, Left
  <1>2. uncounted \subseteq Left
    BY DEF CountIInv, OnceIInv, OneHome, Tally, Left
  <1>3. IsFiniteSet(Left) /\ IsFiniteSet(uncounted)
    BY <1>1, <1>2, FS_Subset
  <1>4. clean \in [Kinds -> Nat] /\ Kinds = {0, 1, 2, 3, 4}
    BY DEF CountIInv, OnceIInv, CleanIInv, Books, Kinds
  <1>5. Cardinality(uncounted) \in Nat
    BY <1>3, FS_CardinalityType
  <1> QED
    BY <1>2, <1>3, <1>4, <1>5 DEF Counted

\* A frame that leaves is counted by one of the five counters, or without a
\* context.
LEMMA CountStep ==
  ASSUME CountIInv, OneLeaves
  PROVE  Cardinality(Left') = Counted' + Cardinality(uncounted')
  <1>0. /\ IsFiniteSet(Left) /\ IsFiniteSet(uncounted) /\ uncounted \subseteq Left
        /\ clean \in [Kinds -> Nat] /\ Kinds = {0, 1, 2, 3, 4}
        /\ Counted \in Nat /\ Cardinality(uncounted) \in Nat
        /\ Cardinality(Left) = Counted + Cardinality(uncounted)
    BY FewUncounted DEF CountIInv
  <1>1. CASE Left' = Left /\ UNCHANGED <<clean, uncounted>>
    BY <1>0, <1>1 DEF Counted
  <1>2. ASSUME NEW g \in Frames \ Left, NEW k \in Kinds,
               Left' = Left \cup {g}, Count(k), uncounted' = uncounted
        PROVE  Cardinality(Left') = Counted' + Cardinality(uncounted')
    <2>1. Cardinality(Left') = Cardinality(Left) + 1
      BY <1>0, <1>2, FS_AddElement
    <2>2. PICK a, b, d, e, h \in Nat :
             a = clean[0] /\ b = clean[1] /\ d = clean[2] /\ e = clean[3] /\ h = clean[4]
      BY <1>0
    <2>3. \A i \in Kinds : clean'[i] = IF i = k THEN clean[i] + 1 ELSE clean[i]
      BY <1>0, <1>2 DEF Count
    <2>4. /\ clean'[0] = (IF k = 0 THEN a + 1 ELSE a)
          /\ clean'[1] = (IF k = 1 THEN b + 1 ELSE b)
          /\ clean'[2] = (IF k = 2 THEN d + 1 ELSE d)
          /\ clean'[3] = (IF k = 3 THEN e + 1 ELSE e)
          /\ clean'[4] = (IF k = 4 THEN h + 1 ELSE h)
      BY <1>0, <2>2, <2>3
    <2>5. Counted = a + b + d + e + h /\ Counted' = a + b + d + e + h + 1
      BY <1>0, <2>2, <2>4 DEF Counted
    <2> QED
      BY <1>0, <1>2, <2>1, <2>5
  <1>3. ASSUME NEW g \in Frames \ Left,
               Left' = Left \cup {g}, clean' = clean, uncounted' = uncounted \cup {g}
        PROVE  Cardinality(Left') = Counted' + Cardinality(uncounted')
    <2>1. Cardinality(Left') = Cardinality(Left) + 1
      BY <1>0, <1>3, FS_AddElement
    <2>2. g \notin uncounted
      BY <1>0
    <2>3. Cardinality(uncounted') = Cardinality(uncounted) + 1
      BY <1>0, <1>3, <2>2, FS_AddElement
    <2>4. Counted' = Counted
      BY <1>3 DEF Counted
    <2> QED
      BY <1>0, <2>1, <2>3, <2>4
  <1> QED
    BY <1>1, <1>2, <1>3 DEF OneLeaves

\* stats_on_clean sees every frame that leaves the cleaner once: "so that the
\* books balance" (cleaner.c:174).  For every frame and every order, what the
\* counters lack is in the reorder buffers or was dropped for want of a context
\* (cleaner.c:180), and those drops are counted by nothing.
THEOREM BooksBalance == Spec => []Reconciled
  <1>1. Init => CountIInv
    <2> SUFFICES ASSUME Init PROVE CountIInv
      OBVIOUS
    <2>1. Left = {} /\ uncounted = {} /\ OnceIInv /\ Tally
      BY InitClean, InitOnce, InitTally DEF OnceIInv, Init
    <2>2. Cardinality({}) = 0
      BY FS_EmptySet
    <2>3. \A k \in {0, 1, 2, 3, 4} : clean[k] = 0
      BY DEF Init, Kinds
    <2> QED
      BY <2>1, <2>2, <2>3 DEF CountIInv, Counted
  <1>2. CountIInv /\ [Next]_clvars => CountIInv'
    BY OnceNext, TallyNext, CountStep DEF CountIInv
  <1>3. CountIInv => Reconciled
    BY DEF CountIInv, Reconciled, Left, Counted
  <1> QED
    BY <1>1, <1>2, <1>3, PTL DEF Spec

-----------------------------------------------------------------------------
(* The window.                                                              *)

\* The slot k places before slot w, in a ring.
LEMMA SlotBefore ==
  ASSUME NEW m \in Nat \ {0}, NEW w \in 0..(m - 1), NEW k \in 0..m
  PROVE  /\ (w - k) % m = IF w >= k THEN w - k ELSE w - k + m
         /\ (w + 1) % m = IF w + 1 = m THEN 0 ELSE w + 1
  OBVIOUS

WindowIInv == CleanIInv /\ WindowIsRecent

\* The index after a passed frame is a number.
LEMMA AdmitIndex ==
  ASSUME NEW c \in Contexts, NEW f \in Frames
  PROVE  Admit(c, f).wIdx \in 0..(Window - 1)
  <1>1. Admit(c, f).wIdx = (c.wIdx + 1) % Window
    BY DEF Admit, Contexts
  <1>2. PICK m \in Nat \ {0} : m = Window
    OBVIOUS
  <1>3. PICK w \in 0..(m - 1) : w = c.wIdx
    BY <1>2 DEF Contexts
  <1>4. (w + 1) % m = IF w + 1 = m THEN 0 ELSE w + 1
    BY SlotBefore
  <1> QED
    BY <1>1, <1>2, <1>3, <1>4

SameWindow(c, d) == c.window = d.window /\ c.wIdx = d.wIdx /\ c.wCount = d.wCount

\* Later frames of a station, one frame later.
LEMMA PassedAfterAppend ==
  ASSUME passed \in Seq(Frames), NEW g \in Frames, passed' = Append(passed, g),
         NEW i \in 0..Len(passed), NEW s
  PROVE  /\ Cardinality(PassedAfter(i, s)) \in Nat
         /\ Cardinality(PassedAfter(i, s)')
              = Cardinality(PassedAfter(i, s)) + IF g.station = s THEN 1 ELSE 0
  <1>1. PICK n \in Nat : n = Len(passed)
    OBVIOUS
  <1>2. /\ DOMAIN passed = 1..n /\ DOMAIN passed' = 1..(n + 1)
        /\ passed'[n + 1] = g /\ \A j \in 1..n : passed'[j] = passed[j]
    BY <1>1
  <1>3. IsFiniteSet(PassedAfter(i, s))
    <2>1. IsFiniteSet(1..n) /\ PassedAfter(i, s) \subseteq 1..n
      BY <1>2, FS_Interval DEF PassedAfter
    <2> QED
      BY <2>1, FS_Subset
  <1>4. Cardinality(PassedAfter(i, s)) \in Nat
    BY <1>3, FS_CardinalityType
  <1>5. 1..(n + 1) = (1..n) \cup {n + 1}
    <2>1. 1..(n + 1) \subseteq (1..n) \cup {n + 1}
      OBVIOUS
    <2>2. (1..n) \cup {n + 1} \subseteq 1..(n + 1)
      OBVIOUS
    <2> QED
      BY <2>1, <2>2
  <1>6. n + 1 > i /\ n + 1 \notin 1..n
    BY <1>1
  <1>7. CASE g.station = s
    <2>1. PassedAfter(i, s)' = PassedAfter(i, s) \cup {n + 1}
      BY <1>2, <1>5, <1>6, <1>7 DEF PassedAfter
    <2>2. n + 1 \notin PassedAfter(i, s)
      BY <1>2, <1>6 DEF PassedAfter
    <2>3. Cardinality(PassedAfter(i, s) \cup {n + 1}) = Cardinality(PassedAfter(i, s)) + 1
      BY <1>3, <2>2, FS_AddElement
    <2> QED
      BY <1>4, <1>7, <2>1, <2>3
  <1>8. CASE g.station # s
    <2>1. PassedAfter(i, s)' = PassedAfter(i, s)
      BY <1>2, <1>5, <1>6, <1>8 DEF PassedAfter
    <2> QED
      BY <1>4, <1>8, <2>1
  <1> QED
    BY <1>4, <1>7, <1>8

\* What a passed frame does to the window, read from the latest value back.
LEMMA AdmitWindow ==
  ASSUME NEW c \in Contexts, NEW f \in Frames
  PROVE  LET a == Admit(c, f)
         IN  /\ a.wCount = IF c.wCount < Window THEN c.wCount + 1 ELSE Window
             /\ a.window[(a.wIdx - 1) % Window] = Narrow(f.value)
             /\ \A k \in 0..(Window - 2) :
                   a.window[(a.wIdx - 1 - (k + 1)) % Window]
                     = c.window[(c.wIdx - 1 - k) % Window]
  <1> DEFINE a == Admit(c, f)
  <1>1. PICK m \in Nat \ {0} : m = Window
    OBVIOUS
  <1>2. PICK w \in 0..(m - 1) : w = c.wIdx
    BY <1>1 DEF Contexts
  <1>3. c.window \in [0..(m - 1) -> (-Int16Max - 1)..Int16Max] /\ c.wCount \in 0..m
    BY <1>1 DEF Contexts
  <1>4. /\ a.window = [c.window EXCEPT ![w] = Narrow(f.value)]
        /\ a.wIdx = (w + 1) % m
        /\ a.wCount = IF c.wCount < m THEN c.wCount + 1 ELSE c.wCount
    BY <1>1, <1>2 DEF Admit, Contexts
  <1> HIDE DEF a
  <1>5. PICK v \in 0..(m - 1) : /\ v = a.wIdx
                                /\ v = IF w + 1 = m THEN 0 ELSE w + 1
    <2>1. (w + 1) % m = IF w + 1 = m THEN 0 ELSE w + 1
      BY SlotBefore
    <2>2. (IF w + 1 = m THEN 0 ELSE w + 1) \in 0..(m - 1)
      OBVIOUS
    <2> QED
      BY <1>4, <2>1, <2>2
  <1>6. \A j \in 0..(m - 1) : a.window[j] = IF j = w THEN Narrow(f.value) ELSE c.window[j]
    BY <1>3, <1>4
  <1>7. (v - 1) % m = w
    <2>1. 1 \in 0..m
      OBVIOUS
    <2>2. (v - 1) % m = IF v >= 1 THEN v - 1 ELSE v - 1 + m
      BY <2>1, SlotBefore
    <2> QED
      BY <1>5, <2>2
  <1>8. ASSUME NEW k \in 0..(m - 2)
        PROVE  a.window[(v - 1 - (k + 1)) % m] = c.window[(w - 1 - k) % m]
    <2>1. PICK i \in 0..m : i = k + 2
      OBVIOUS
    <2>2. PICK j \in 0..m : j = k + 1
      OBVIOUS
    <2>3. v - 1 - (k + 1) = v - i /\ w - 1 - k = w - j
      BY <2>1, <2>2
    <2>4. (v - i) % m = (IF v >= i THEN v - i ELSE v - i + m)
      BY SlotBefore
    <2>5. (w - j) % m = (IF w >= j THEN w - j ELSE w - j + m)
      BY SlotBefore
    <2>6. PICK x \in 0..(m - 1) : x = (w - j) % m /\ x # w /\ x = (v - i) % m
      <3>1. (IF v >= i THEN v - i ELSE v - i + m) = (IF w >= j THEN w - j ELSE w - j + m)
        BY <1>5, <2>1, <2>2
      <3>2. /\ (IF w >= j THEN w - j ELSE w - j + m) \in 0..(m - 1)
            /\ (IF w >= j THEN w - j ELSE w - j + m) # w
        BY <2>2
      <3> QED
        BY <2>4, <2>5, <3>1, <3>2
    <2>7. a.window[x] = c.window[x]
      BY <1>6, <2>6
    <2> QED
      BY <2>3, <2>6, <2>7
  <1>9. a.window[(v - 1) % m] = Narrow(f.value)
    BY <1>6, <1>7
  <1>10. a.wCount = IF c.wCount < m THEN c.wCount + 1 ELSE m
    BY <1>3, <1>4
  <1> QED
    BY <1>1, <1>2, <1>5, <1>8, <1>9, <1>10 DEF a

\* The next frame of a station has passed.
LEMMA PassedWindow ==
  ASSUME WindowIInv, NEW g \in Frames, NEW c \in Contexts,
         SameWindow(c, ctx[g.station]),
         passed' = Append(passed, g), ctx' = [ctx EXCEPT ![g.station] = Admit(c, g)]
  PROVE  WindowIsRecent'
  <1> DEFINE s == g.station
             a == Admit(c, g)
             Later(i, r) == Cardinality(PassedAfter(i, r))
  <1>0. PICK n \in Nat : n = Len(passed)
    BY DEF WindowIInv, CleanIInv, Places
  <1>1. /\ passed \in Seq(Frames) /\ s \in Stations /\ ctx \in [Stations -> Contexts]
        /\ DOMAIN passed = 1..n /\ DOMAIN passed' = 1..(n + 1)
        /\ passed'[n + 1] = g /\ \A i \in 1..n : passed'[i] = passed[i]
        /\ n + 1 \notin 1..n /\ 1..(n + 1) = (1..n) \cup {n + 1}
    BY <1>0 DEF WindowIInv, CleanIInv, Places, Homes, Stations
  <1>2. PICK m \in Nat \ {0} : m = Window
    OBVIOUS
  <1>3. PICK x \in 0..m : x = c.wCount /\ x = ctx[s].wCount
    BY <1>1, <1>2 DEF Contexts, SameWindow
  <1>4. /\ a.wCount = (IF x < m THEN x + 1 ELSE m)
        /\ a.window[(a.wIdx - 1) % m] = Narrow(g.value)
        /\ \A k \in 0..(m - 2) :
              a.window[(a.wIdx - 1 - (k + 1)) % m] = c.window[(c.wIdx - 1 - k) % m]
    BY <1>2, <1>3, AdmitWindow
  <1>5. \A r \in Stations : ctx'[r] = IF r = s THEN a ELSE ctx[r]
    BY <1>1
  <1> HIDE DEF a
  <1>6. \A i \in 0..n, r \in Stations :
           /\ Later(i, r) \in Nat
           /\ Later(i, r)' = Later(i, r) + IF s = r THEN 1 ELSE 0
    BY <1>0, <1>1, PassedAfterAppend
  <1>7. Later(n + 1, s)' = 0
    <2>1. PassedAfter(n + 1, s)' = {}
      BY <1>1 DEF PassedAfter
    <2> QED
      BY <2>1, FS_EmptySet
  <1>8. /\ \A i \in 1..n :
              Later(i, passed[i].station) < m =>
                /\ Later(i, passed[i].station) < ctx[passed[i].station].wCount
                /\ ctx[passed[i].station].window
                     [(ctx[passed[i].station].wIdx - 1 - Later(i, passed[i].station)) % m]
                     = Narrow(passed[i].value)
        /\ \A r \in Stations : ctx[r].wCount <= Later(0, r)
    BY <1>1, <1>2 DEF WindowIInv, WindowIsRecent
  <1> HIDE DEF Later
  <1>9. ASSUME NEW i \in 1..n, passed[i].station = s, Later(i, s)' < m
        PROVE  /\ Later(i, s)' < a.wCount
               /\ a.window[(a.wIdx - 1 - Later(i, s)') % m] = Narrow(passed[i].value)
    <2>1. i \in 0..n
      OBVIOUS
    <2>2. PICK k \in Nat : k = Later(i, s) /\ Later(i, s)' = k + 1
      BY <1>1, <1>6, <2>1
    <2>3. k \in 0..(m - 2)
      BY <1>9, <2>2
    <2>4. k < x /\ c.window[(c.wIdx - 1 - k) % m] = Narrow(passed[i].value)
      <3>1. k < m
        BY <2>3
      <3>2. /\ k < ctx[s].wCount
            /\ ctx[s].window[(ctx[s].wIdx - 1 - k) % m] = Narrow(passed[i].value)
        BY <1>8, <1>9, <2>2, <3>1
      <3> QED
        BY <1>3, <3>2 DEF SameWindow
    <2>5. k + 1 < a.wCount
      <3>1. a.wCount = (IF x < m THEN x + 1 ELSE m)
        BY <1>4
      <3>2. k < x /\ k + 1 < m
        BY <2>3, <2>4
      <3> QED
        BY <3>1, <3>2
    <2>6. a.window[(a.wIdx - 1 - (k + 1)) % m] = Narrow(passed[i].value)
      BY <1>4, <2>3, <2>4
    <2> QED
      BY <2>2, <2>5, <2>6
  <1>10. ASSUME NEW i \in 1..(n + 1), NEW r \in Stations, r = passed'[i].station,
                Later(i, r)' < m
         PROVE  /\ Later(i, r)' < ctx'[r].wCount
                /\ ctx'[r].window[(ctx'[r].wIdx - 1 - Later(i, r)') % m]
                     = Narrow(passed'[i].value)
    <2>1. CASE i = n + 1
      <3>1. passed'[i] = g /\ r = s /\ ctx'[r] = a
        BY <1>1, <1>5, <1>10, <2>1
      <3>2. Later(i, r)' = 0
        BY <1>7, <2>1, <3>1
      <3>3. 0 < a.wCount
        <4>1. a.wCount = (IF x < m THEN x + 1 ELSE m)
          BY <1>4
        <4> QED
          BY <4>1
      <3>4. a.window[(a.wIdx - 1 - 0) % m] = Narrow(g.value)
        <4>1. a.wIdx \in Int
          BY AdmitIndex DEF a
        <4>2. a.wIdx - 1 - 0 = a.wIdx - 1
          BY <4>1
        <4> QED
          BY <1>4, <4>2
      <3> QED
        BY <3>1, <3>2, <3>3, <3>4
    <2>2. CASE i \in 1..n /\ r = s
      <3>1. passed'[i] = passed[i] /\ ctx'[r] = a
        BY <1>1, <1>5, <2>2
      <3>2. passed[i].station = s /\ Later(i, s)' < m
        BY <1>10, <2>2, <3>1
      <3>3. /\ Later(i, s)' < a.wCount
            /\ a.window[(a.wIdx - 1 - Later(i, s)') % m] = Narrow(passed[i].value)
        BY <1>9, <2>2, <3>2
      <3> QED
        BY <2>2, <3>1, <3>3
    <2>3. CASE i \in 1..n /\ r # s
      <3>1. passed'[i] = passed[i] /\ ctx'[r] = ctx[r] /\ i \in 0..n
        BY <1>1, <1>5, <2>3
      <3>2. Later(i, r)' = Later(i, r) /\ r = passed[i].station
        BY <1>6, <1>10, <2>3, <3>1
      <3>3. /\ Later(i, r) < ctx[r].wCount
            /\ ctx[r].window[(ctx[r].wIdx - 1 - Later(i, r)) % m]
                 = Narrow(passed[i].value)
        BY <1>8, <1>10, <2>3, <3>2
      <3> QED
        BY <3>1, <3>2, <3>3
    <2> QED
      BY <1>1, <2>1, <2>2, <2>3
  <1>11. ASSUME NEW r \in Stations PROVE ctx'[r].wCount <= Later(0, r)'
    <2>1. PICK k \in Nat : k = Later(0, r) /\ Later(0, r)' = k + IF s = r THEN 1 ELSE 0
      BY <1>6
    <2>2. CASE r = s
      <3>1. x <= k /\ ctx'[r].wCount = (IF x < m THEN x + 1 ELSE m) /\ Later(0, r)' = k + 1
        BY <1>3, <1>4, <1>5, <1>8, <2>1, <2>2
      <3> QED
        BY <3>1
    <2>3. CASE r # s
      BY <1>5, <1>8, <2>1, <2>3
    <2> QED
      BY <2>2, <2>3
  <1>12. ASSUME NEW i \in 1..(n + 1) PROVE passed'[i].station \in Stations
    BY <1>1 DEF Stations
  <1>13. \A i \in DOMAIN passed' :
            LET d     == ctx'[passed'[i].station]
                later == Cardinality({j \in DOMAIN passed' :
                            j > i /\ passed'[j].station = passed'[i].station})
            IN  later < Window =>
                  /\ later < d.wCount
                  /\ d.window[(d.wIdx - 1 - later) % Window] = Narrow(passed'[i].value)
    <2> TAKE i \in DOMAIN passed'
    <2>1. PICK r \in Stations : r = passed'[i].station
      BY <1>1, <1>12
    <2>2. Later(i, r)' = Cardinality({j \in DOMAIN passed' :
                            j > i /\ passed'[j].station = passed'[i].station})
      BY <2>1 DEF Later, PassedAfter
    <2>3. i \in 1..(n + 1)
      BY <1>1
    <2> QED
      BY <1>2, <1>10, <2>1, <2>2, <2>3
  <1>14. \A r \in Stations : ctx'[r].wCount <= Cardinality(PassedAfter(0, r)')
    BY <1>11 DEF Later
  <1> QED
    BY <1>13, <1>14 DEF WindowIsRecent, PassedAfter

\* Steps that pass nothing leave the windows alone.
LEMMA NoWindow ==
  ASSUME WindowIInv, passed' = passed, \A r \in Stations : SameWindow(ctx'[r], ctx[r])
  PROVE  WindowIsRecent'
  <1>1. \A i \in DOMAIN passed : passed[i].station \in Stations
    BY DEF WindowIInv, CleanIInv, Places, Stations
  <1>2. /\ \A i \in DOMAIN passed : SameWindow(ctx'[passed[i].station], ctx[passed[i].station])
        /\ \A i, s : PassedAfter(i, s)' = PassedAfter(i, s)
    BY <1>1 DEF PassedAfter
  <1>3. ASSUME NEW i \in DOMAIN passed,
               Cardinality(PassedAfter(i, passed[i].station)) < Window
        PROVE  LET c     == ctx'[passed[i].station]
                   later == Cardinality(PassedAfter(i, passed[i].station))
               IN  /\ later < c.wCount
                   /\ c.window[(c.wIdx - 1 - later) % Window] = Narrow(passed[i].value)
    BY <1>2, <1>3 DEF WindowIInv, WindowIsRecent, SameWindow
  <1>4. ASSUME NEW s \in Stations
        PROVE  ctx'[s].wCount <= Cardinality(PassedAfter(0, s))
    BY DEF WindowIInv, WindowIsRecent, SameWindow
  <1> QED
    BY <1>3, <1>4 DEF WindowIsRecent, PassedAfter

\* process_valid_frame, on a context whose window is that of the station.
LEMMA ProcessWindow ==
  ASSUME WindowIInv, NEW f \in Frames, NEW c, ContextOf(f.station, c),
         SameWindow(c, ctx[f.station]), ProcessValidFrame(c, f)
  PROVE  WindowIsRecent'
  <1>1. CASE Pass(c, f)
    BY <1>1, PassedWindow DEF Pass, ContextOf
  <1>2. CASE OutOfRange(c, f) \/ Anomaly(c, f)
    <2>1. passed' = passed /\ ctx' = [ctx EXCEPT ![f.station] = c]
      BY <1>2 DEF OutOfRange, Anomaly
    <2>2. \A r \in Stations : SameWindow(ctx'[r], ctx[r])
      BY <2>1 DEF WindowIInv, CleanIInv, Homes, SameWindow
    <2> QED
      BY <2>1, <2>2, NoWindow
  <1> QED
    BY <1>1, <1>2 DEF ProcessValidFrame

\* One frame.
LEMMA WindowStep ==
  ASSUME WindowIInv, NEW f \in Frames, CleanerProcess(f)
  PROVE  WindowIsRecent'
  <1> DEFINE s == f.station
             c == ctx[s]
  <1>0. /\ Homes /\ s \in Stations /\ ContextOf(s, c) /\ c \in Contexts
        /\ ctx \in [Stations -> Contexts] /\ \A d : SameWindow(d, d)
    BY DEF WindowIInv, CleanIInv, Homes, Stations, SameWindow
  <1>1. CASE CleanAlarm(f) \/ CleanHeart(f) \/ CleanNoContext(f) \/ CleanStale(f)
    <2>1. UNCHANGED <<ctx, passed>>
      BY <1>1 DEF CleanAlarm, CleanHeart, CleanNoContext, CleanStale, ctxvars
    <2> QED
      BY <1>0, <2>1, NoWindow
  <1>2. CASE CleanInOrder(f)
    BY <1>0, <1>2, ProcessWindow DEF CleanInOrder
  <1>3. CASE CleanStash(f)
    <2> DEFINE t == Append(c.stash, f)
    <2>1. ctx' = [ctx EXCEPT ![s].stash = t] /\ passed' = passed
      BY <1>3 DEF CleanStash
    <2> HIDE DEF t
    <2>2. \A r \in Stations : SameWindow(ctx'[r], ctx[r])
      BY <1>0, <2>1 DEF SameWindow, Contexts
    <2> QED
      BY <2>1, <2>2, NoWindow
  <1>4. CASE CleanSwap(f)
    <2>1. PICK i \in DOMAIN c.stash : ProcessValidFrame(Swap(c, i, f), c.stash[i])
      BY <1>4 DEF CleanSwap
    <2> DEFINE g == c.stash[i]
               d == Swap(c, i, f)
    <2>2. g \in Frames /\ g.station = s /\ ContextOf(g.station, d)
      BY <1>0, SwapOut
    <2>3. SameWindow(d, ctx[s])
      BY <1>0 DEF Swap, SameWindow, Contexts
    <2>4. ProcessValidFrame(d, g)
      BY <2>1
    <2> HIDE DEF d, g
    <2> QED
      BY <2>2, <2>3, <2>4, ProcessWindow
  <1> QED
    BY <1>1, <1>2, <1>3, <1>4 DEF CleanerProcess

\* The baseline of the 3-sigma rule is what passed last, for every window size
\* and every order of frames: process_valid_frame (cleaner.c:137) overwrites just
\* the values that have a full window of later ones.
THEOREM RecentWindow == Spec => []WindowIsRecent
  <1>1. Init => WindowIsRecent
    <2> SUFFICES ASSUME Init PROVE WindowIsRecent
      OBVIOUS
    <2>1. passed = << >> /\ \A s \in Stations : ctx[s].wCount = 0
      BY DEF Init, EmptyCtx
    <2>2. \A s : PassedAfter(0, s) = {}
      BY <2>1 DEF PassedAfter
    <2>3. Cardinality({}) = 0
      BY FS_EmptySet
    <2>4. \A s \in Stations : ctx[s].wCount <= Cardinality(PassedAfter(0, s))
      <3> TAKE s \in Stations
      <3>1. Cardinality(PassedAfter(0, s)) = 0
        BY <2>2, <2>3, Zenon
      <3> QED
        BY <2>1, <3>1
    <2>5. DOMAIN passed = {}
      BY <2>1
    <2> QED
      BY <2>4, <2>5 DEF WindowIsRecent
  <1>2. WindowIInv /\ [Next]_clvars => WindowIInv'
    <2> SUFFICES ASSUME WindowIInv, [Next]_clvars PROVE WindowIInv'
      OBVIOUS
    <2>1. ASSUME NEW f \in Frames, CleanerProcess(f) PROVE WindowIInv'
      BY <2>1, HomesStep, PlacesStep, WindowStep DEF WindowIInv, CleanIInv
    <2>2. ASSUME UNCHANGED clvars PROVE WindowIInv'
      <3>1. CleanIInv'
        BY <2>2 DEF WindowIInv, CleanIInv, Homes, Books, Places, clvars, ctxvars
      <3>2. WindowIsRecent'
        BY <2>2, NoWindow DEF SameWindow, clvars, ctxvars
      <3> QED
        BY <3>1, <3>2 DEF WindowIInv
    <2> QED
      BY <2>1, <2>2 DEF Next
  <1>3. WindowIInv => WindowIsRecent
    BY DEF WindowIInv
  <1> QED
    BY <1>1, <1>2, <1>3, InitClean, PTL DEF Spec, WindowIInv

=============================================================================
