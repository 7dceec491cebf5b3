------------------------------ MODULE Cleaner ------------------------------
(***************************************************************************)
(* cleaner_process of pipeline/cleaner.c with the sliding window of        *)
(* pipeline/station_ctx.c, one frame at a time, as cleaner_thread (main.c) *)
(* calls it: the only thread that touches a station's context.             *)
(*                                                                         *)
(* One measurement, co_ppb, stands for the six of a frame: it is the one   *)
(* whose accepted range (50000) does not fit the int16_t of its window.    *)
(* Timestamps and the window are scaled down, their wrap-around included.  *)
(***************************************************************************)
EXTENDS Integers, Sequences, FiniteSets, SequencesExt

CONSTANTS
  Frames,      \* what can arrive: [type, station, sec, ms, value, copy]
  MaxFrames,   \* bound on the frames of a behaviour
  AllocFails,  \* bound on the contexts that cannot be allocated
  Window,      \* WINDOW_SIZE
  StashSize,   \* frames in reorder_buf
  MaxGap,      \* the 10 seconds of the reordering rule
  SecModulus,  \* timestamp_sec is a uint32_t
  MaxValue,    \* the limit of the range check
  Int16Max     \* the largest int16_t

ASSUME CleanerAssumption ==
  /\ \A f \in Frames :
        /\ f.type \in {"data", "alarm", "heart"}
        /\ f.sec \in 0..(SecModulus - 1)
        /\ f.ms \in Nat
        /\ f.value \in Nat
  /\ MaxFrames \in Nat /\ AllocFails \in Nat
  /\ {Window, StashSize, MaxGap, SecModulus, MaxValue, Int16Max} \subseteq Nat \ {0}

Stations == {f.station : f \in Frames}

VARIABLES
  ctx,        \* the station_internal_ctx_t of every station
  have,       \* the stations for which one was allocated
  clean,      \* the stats_on_clean counters, indexed by kind
  offered,    \* history: frames given to cleaner_process
  passed,     \* history: measurements pushed to Q2, in order
  alarmed,    \* history: alarms pushed to Q2
  discarded,  \* history: frames dropped for good
  uncounted,  \* history: those of them that no counter shows
  released    \* history: passed frames that had waited in a reorder_buf

ctxvars == <<ctx, have, uncounted>>
clvars == <<ctxvars, clean, offered, passed, alarmed, discarded, released>>

Kinds == 0..4   \* pass, alarm or anomaly, range, duplicate, reorder or other

EmptyCtx ==
  [known  |-> FALSE,                          \* has_valid_timestamp
   sec    |-> 0,                              \* last_valid_timestamp_sec
   ms     |-> 0,                              \* last_valid_timestamp_ms
   stash  |-> << >>,                          \* reorder_buf, reorder_count
   window |-> [i \in 0..(Window - 1) |-> 0],  \* window_co
   wIdx   |-> 0,
   wCount |-> 0]

TypeOK ==
  /\ \A s \in Stations :
        /\ ctx[s].known \in BOOLEAN
        /\ Len(ctx[s].stash) <= StashSize
        /\ Range(ctx[s].stash) \subseteq Frames
        /\ ctx[s].window \in [0..(Window - 1) -> (-Int16Max - 1)..Int16Max]
        /\ ctx[s].wIdx \in 0..(Window - 1)
        /\ ctx[s].wCount \in 0..Window
  /\ clean \in [Kinds -> 0..MaxFrames]
  /\ passed \in Seq(Frames)
  /\ have \subseteq Stations
  /\ uncounted \subseteq discarded
  /\ offered \cup alarmed \cup discarded \cup released \subseteq Frames

Init ==
  /\ ctx = [s \in Stations |-> EmptyCtx]
  /\ clean = [k \in Kinds |-> 0]
  /\ offered = {} /\ passed = << >> /\ alarmed = {} /\ discarded = {}
  /\ released = {} /\ have = {} /\ uncounted = {}

-----------------------------------------------------------------------------
(* Timestamps and the 3-sigma rule.                                         *)

\* Timestamp a comes before timestamp b.
Before(a, b) == a.sec < b.sec \/ (a.sec = b.sec /\ a.ms < b.ms)

\* Bug: a repeated timestamp is let through.
Backwards(c, f) == c.known /\ Before(f, c)

\* A duplicate, or a timestamp that went backwards.
Stale(c, f) == c.known /\ ~Before(c, f)

\* last_valid_timestamp_sec + 10, in 32 bits.
Jumps(c, f) == c.known /\ f.sec > (c.sec + MaxGap) % SecModulus

\* (int16_t)co_ppb
Narrow(v) == ((v + Int16Max + 1) % (2 * (Int16Max + 1))) - (Int16Max + 1)

SumOver(g) == FoldFunction(LAMBDA a, b : a + b, 0, g)

\* anomaly_detect_all: |x - mean| > 3 sigma, multiplied by the number of
\* values and squared; a window without deviation detects nothing.
Anomalous(c, f) ==
  LET n == Window
      s == SumOver(c.window)
      spread == n * SumOver([i \in 0..(n - 1) |-> c.window[i]^2]) - s^2
  IN  /\ c.wCount = Window
      /\ spread # 0
      /\ (n * Narrow(f.value) - s)^2 > 9 * spread

\* Bug: the write index stands still once the window is full.
AdmitStuck(c, f) ==
  [c EXCEPT !.window[c.wIdx] = Narrow(f.value),
            !.wIdx = IF c.wCount < Window THEN (c.wIdx + 1) % Window ELSE c.wIdx,
            !.wCount = IF c.wCount < Window THEN c.wCount + 1 ELSE c.wCount,
            !.sec = f.sec, !.ms = f.ms, !.known = TRUE]

\* Bug: the write index runs past the window.
AdmitOverrun(c, f) ==
  [c EXCEPT !.window[c.wIdx] = Narrow(f.value),
            !.wIdx = c.wIdx + 1,
            !.wCount = IF c.wCount < Window THEN c.wCount + 1 ELSE c.wCount,
            !.sec = f.sec, !.ms = f.ms, !.known = TRUE]

\* What a passed frame leaves behind in its station's context.
Admit(c, f) ==
  [c EXCEPT !.window[c.wIdx] = Narrow(f.value),
            !.wIdx = (c.wIdx + 1) % Window,
            !.wCount = IF c.wCount < Window THEN c.wCount + 1 ELSE c.wCount,
            !.sec = f.sec, !.ms = f.ms, !.known = TRUE]

-----------------------------------------------------------------------------
Count(kind) == clean' = [clean EXCEPT ![kind] = @ + 1]

Offer(f) ==
  /\ f \in Frames \ offered
  /\ Cardinality(offered) < MaxFrames
  /\ offered' = offered \cup {f}

Discard(f, kind) ==
  /\ discarded' = discarded \cup {f}
  /\ Count(kind)

\* process_valid_frame, and the push to Q2 of what passes; c is the context as
\* the reordering left it.
OutOfRange(c, f) ==
  /\ f.value > MaxValue
  /\ Discard(f, 2)
  /\ ctx' = [ctx EXCEPT ![f.station] = c]
  /\ UNCHANGED passed

Anomaly(c, f) ==
  /\ f.value <= MaxValue
  /\ Anomalous(c, f)
  /\ Discard(f, 1)
  /\ ctx' = [ctx EXCEPT ![f.station] = c]
  /\ UNCHANGED passed

Pass(c, f) ==
  /\ f.value <= MaxValue
  /\ ~Anomalous(c, f)
  /\ ctx' = [ctx EXCEPT ![f.station] = Admit(c, f)]
  /\ passed' = Append(passed, f)
  /\ Count(0)
  /\ UNCHANGED discarded

ProcessValidFrame(c, f) == OutOfRange(c, f) \/ Anomaly(c, f) \/ Pass(c, f)

-----------------------------------------------------------------------------
(* cleaner_process.                                                         *)

\* Alarms skip everything and are never dropped.
CleanAlarm(f) ==
  /\ Offer(f)
  /\ f.type = "alarm"
  /\ alarmed' = alarmed \cup {f}
  /\ Count(1)
  /\ UNCHANGED <<ctxvars, passed, discarded, released>>

\* Bug: heartbeats are dropped without being counted.
CleanHeartSilently(f) ==
  /\ Offer(f)
  /\ f.type = "heart"
  /\ discarded' = discarded \cup {f}
  /\ UNCHANGED <<ctxvars, clean, passed, alarmed, released>>

CleanHeart(f) ==
  /\ Offer(f)
  /\ f.type = "heart"
  /\ Discard(f, 4)
  /\ UNCHANGED <<ctxvars, passed, alarmed, released>>

\* get_internal_ctx: the station's context, allocated at its first data frame.
Context(f) ==
  /\ have' = have \cup {f.station}
  /\ UNCHANGED uncounted

\* There is none and no memory for one: the frame is dropped, and not counted.
CleanNoContext(f) ==
  /\ Offer(f)
  /\ f.type = "data"
  /\ f.station \notin have
  /\ Cardinality(uncounted) < AllocFails
  /\ discarded' = discarded \cup {f}
  /\ uncounted' = uncounted \cup {f}
  /\ UNCHANGED <<ctx, have, clean, passed, alarmed, released>>

CleanStale(f) ==
  /\ Offer(f)
  /\ f.type = "data"
  /\ Stale(ctx[f.station], f)
  /\ Context(f)
  /\ Discard(f, 3)
  /\ UNCHANGED <<ctx, passed, alarmed, released>>

CleanInOrder(f) ==
  /\ Offer(f)
  /\ f.type = "data"
  /\ ~Stale(ctx[f.station], f)
  /\ ~Jumps(ctx[f.station], f)
  /\ Context(f)
  /\ ProcessValidFrame(ctx[f.station], f)
  /\ UNCHANGED <<alarmed, released>>

\* A timestamp far ahead, and room in the stash: it waits there.
CleanStash(f) ==
  LET c == ctx[f.station]
  IN  /\ Offer(f)
      /\ f.type = "data"
      /\ ~Stale(c, f)
      /\ Jumps(c, f)
      /\ Len(c.stash) < StashSize
      /\ Context(f)
      /\ ctx' = [ctx EXCEPT ![f.station].stash = Append(c.stash, f)]
      /\ UNCHANGED <<clean, passed, alarmed, discarded, released>>

\* The first of the stashed frames with the smallest timestamp.
IsOldest(stash, i) ==
  /\ \A j \in DOMAIN stash : ~Before(stash[j], stash[i])
  /\ \A j \in 1..(i - 1) : Before(stash[i], stash[j])

\* Bug: the oldest frame leaves the stash and the new one does not enter it.
SwapForgets(c, i, f) == [c EXCEPT !.stash[i] = c.stash[i]]

\* The frame takes the place of the oldest one in the stash.
Swap(c, i, f) == [c EXCEPT !.stash[i] = f]

\* No room: the oldest stashed frame is processed in place of this one.  It
\* is not compared with the last timestamp again.
CleanSwap(f) ==
  LET c == ctx[f.station]
  IN  /\ Offer(f)
      /\ f.type = "data"
      /\ ~Stale(c, f)
      /\ Jumps(c, f)
      /\ Len(c.stash) = StashSize
      /\ Context(f)
      /\ \E i \in DOMAIN c.stash :
            /\ IsOldest(c.stash, i)
            /\ ProcessValidFrame(Swap(c, i, f), c.stash[i])
            /\ released' = released \cup {c.stash[i]}
      /\ UNCHANGED alarmed

CleanerProcess(f) ==
  \/ CleanAlarm(f) \/ CleanHeart(f) \/ CleanNoContext(f) \/ CleanStale(f)
  \/ CleanInOrder(f) \/ CleanStash(f) \/ CleanSwap(f)

Next == \E f \in Frames : CleanerProcess(f)

Spec == Init /\ [][Next]_clvars

-----------------------------------------------------------------------------
(* Properties.                                                              *)

Stashed == UNION {Range(ctx[s].stash) : s \in Stations}

\* Every frame is in one place - Q2, the alarms, the drops, or one slot of its
\* own station's stash - and the swap with a full stash neither loses nor
\* doubles one.
EachFrameOnce ==
  LET places == <<Range(passed), alarmed, discarded, Stashed>>
  IN  /\ offered = UNION Range(places)
      /\ \A i, j \in DOMAIN places : i # j => places[i] \cap places[j] = {}
      /\ IsInjective(passed)
      /\ \A s \in Stations :
            /\ IsInjective(ctx[s].stash)
            /\ \A f \in Range(ctx[s].stash) : f.station = s

\* The counters account for every frame that left the cleaner, "so that the
\* books balance" (cleaner.c:174), but for the frames of a station without a
\* context (cleaner.c:180); what else is missing is in the stashes.
Reconciled ==
  Cardinality(offered \ Stashed)
    = clean[0] + clean[1] + clean[2] + clean[3] + clean[4] + Cardinality(uncounted)

\* The timestamps of a station's frames in Q2 are strictly increasing, except
\* where a frame came from the stash: duplicates and late frames of the
\* network, which are compared with the last timestamp only, never get out.
OnlyStashGoesBack ==
  \A i, j \in DOMAIN passed :
     LET a == passed[i]
         b == passed[j]
     IN  /\ i < j
         /\ a.station = b.station
         /\ \A k \in (i + 1)..j : passed[k].station = a.station
                                    => passed[k] \notin released
         => Before(a, b)

\* The places in Q2 of a station's frames, after place i.
PassedAfter(i, s) == {j \in DOMAIN passed : j > i /\ passed[j].station = s}

\* The baseline of the 3-sigma rule is what passed last, whatever order
\* anomalies, stashed frames and wrap-arounds of the index came in: a passed
\* value is in the window until Window more of its station have passed, as many
\* slots behind w_idx - 1 as there are later ones.
WindowIsRecent ==
  /\ \A i \in DOMAIN passed :
        LET c     == ctx[passed[i].station]
            later == Cardinality(PassedAfter(i, passed[i].station))
        IN  later < Window =>
              /\ later < c.wCount
              /\ c.window[(c.wIdx - 1 - later) % Window] = Narrow(passed[i].value)
  /\ \A s \in Stations : ctx[s].wCount <= Cardinality(PassedAfter(0, s))

=============================================================================
