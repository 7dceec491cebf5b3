-------------------------- MODULE ThreadPoolProofs --------------------------
(***************************************************************************)
(* Theorems about ThreadPool for any number of submitters and workers, any *)
(* capacity and any limits.                                                *)
(*                                                                         *)
(* The number of workers and the types are bounded whatever happens.  That *)
(* a queue is overrun only when more commands were issued than it has      *)
(* slots, that every task is in one place, and what commands cost, are one *)
(* argument: until the first overrun the queue is a well-formed ring that  *)
(* repeats no frame, so the ring that is overrun holds Capacity different  *)
(* commands, and the one that overruns it is another.                      *)
(***************************************************************************)
EXTENDS ThreadPool, RingQueueProofs

USE CapacityPositive, BatchAssumption, FrameAssumption

\* The workers push, too.
LEMMA WorkersPush == \A w \in Poppers : w \in Pushers /\ w \notin Submitters
  BY PoolAssumption

-----------------------------------------------------------------------------
(* The number of workers.                                                   *)

\* tp->workers is finite, and a worker leaves of its own accord only when the
\* pool is being destroyed.
SizeIInv ==
  /\ pc \in [Pushers -> WorkerAt \cup SubmitterAt]
  /\ workers \subseteq Poppers
  /\ shutdown \in BOOLEAN
  /\ \A w \in Poppers : pc[w] = "leave" => shutdown = TRUE
  /\ PoolSize

\* What Goto leaves of pc.
LEMMA GotoType ==
  ASSUME pc \in [Pushers -> WorkerAt \cup SubmitterAt], NEW t \in Pushers,
         NEW place \in WorkerAt \cup SubmitterAt, Goto(t, place)
  PROVE  /\ pc' \in [Pushers -> WorkerAt \cup SubmitterAt]
         /\ pc'[t] = place
         /\ \A u \in Pushers : u # t => pc'[u] = pc[u]
  BY DEF Goto

\* tp_init leaves between 1 and MinWorkers workers.
LEMMA InitSize == PoolInit => SizeIInv
  <1> SUFFICES ASSUME PoolInit PROVE SizeIInv
    OBVIOUS
  <1>1. workers \subseteq Poppers /\ Cardinality(workers) \in 1..MinWorkers
    BY DEF PoolInit
  <1>2. Cardinality(workers) <= MaxWorkers
    BY <1>1, PoolAssumption
  <1>3. workers # {}
    BY <1>1, FS_EmptySet, PoolAssumption
  <1>4. /\ pc \in [Pushers -> WorkerAt \cup SubmitterAt]
        /\ \A w \in Poppers : pc[w] # "leave"
    BY WorkersPush DEF PoolInit, WorkerAt, SubmitterAt
  <1> QED
    BY <1>1, <1>2, <1>3, <1>4 DEF SizeIInv, PoolSize, PoolInit

\* The steps that change neither the list of workers nor the flag, and lead
\* nobody out.
LEMMA RestKeepsSize ==
  ASSUME SizeIInv, NEW t \in Pushers,
         NEW place \in (WorkerAt \cup SubmitterAt) \ {"leave"},
         Goto(t, place), UNCHANGED <<workers, shutdown>>
  PROVE  SizeIInv'
  <1>1. /\ pc' \in [Pushers -> WorkerAt \cup SubmitterAt]
        /\ pc'[t] = place
        /\ \A u \in Pushers : u # t => pc'[u] = pc[u]
    BY GotoType DEF SizeIInv
  <1>2. \A w \in Poppers : pc'[w] = "leave" => shutdown' = TRUE
    <2> TAKE w \in Poppers
    <2>1. CASE w = t
      BY <1>1, <2>1
    <2>2. CASE w # t
      BY <1>1, <2>2, WorkersPush DEF SizeIInv
    <2> QED
      BY <2>1, <2>2
  <1> QED
    BY <1>1, <1>2 DEF SizeIInv, PoolSize

\* A worker is taken off the list: there must be others, or the pool is being
\* destroyed.
LEMMA UnlinkKeepsSize ==
  ASSUME SizeIInv, NEW w \in Poppers, Unlink(w), UNCHANGED shutdown,
         TooMany \/ shutdown = TRUE
  PROVE  SizeIInv'
  <1>1. IsFiniteSet(workers) /\ Cardinality(workers) \in Nat
    BY PoolAssumption, FS_Subset, FS_CardinalityType DEF SizeIInv
  <1>2. /\ Cardinality(workers \ {w}) \in Nat
        /\ Cardinality(workers \ {w}) <= Cardinality(workers)
        /\ Cardinality(workers) - 1 <= Cardinality(workers \ {w})
    <2>1. /\ IsFiniteSet(workers \ {w})
          /\ Cardinality(workers \ {w})
               = IF w \in workers THEN Cardinality(workers) - 1 ELSE Cardinality(workers)
      BY <1>1, FS_RemoveElement
    <2>2. Cardinality(workers \ {w}) \in Nat
      BY <2>1, FS_CardinalityType
    <2> QED
      BY <1>1, <2>1, <2>2
  <1>3. Cardinality(workers') <= MaxWorkers
    BY <1>1, <1>2, PoolAssumption DEF SizeIInv, PoolSize, Unlink
  <1>4. TooMany => workers' # {}
    <2>1. TooMany => Cardinality(workers \ {w}) # 0
      BY <1>1, <1>2, PoolAssumption DEF TooMany
    <2> QED
      BY <2>1, FS_EmptySet DEF Unlink
  <1>5. /\ pc' \in [Pushers -> WorkerAt \cup SubmitterAt]
        /\ pc'[w] = "none"
        /\ \A u \in Pushers : u # w => pc'[u] = pc[u]
    <2>1. Goto(w, "none") /\ w \in Pushers /\ "none" \in WorkerAt \cup SubmitterAt
      BY WorkersPush DEF Unlink, WorkerAt
    <2> QED
      BY <2>1, GotoType DEF SizeIInv
  <1>6. \A v \in Poppers : pc'[v] = "leave" => shutdown' = TRUE
    <2> TAKE v \in Poppers
    <2>1. CASE v = w
      BY <1>5, <2>1
    <2>2. CASE v # w
      BY <1>5, <2>2, WorkersPush DEF SizeIInv
    <2> QED
      BY <2>1, <2>2
  <1>7. workers' \subseteq Poppers
    BY DEF Unlink, SizeIInv
  <1> QED
    BY <1>3, <1>4, <1>5, <1>6, <1>7 DEF SizeIInv, PoolSize

\* SCALE_UP counts and adds under one hold of tp->lock.
LEMMA ScaleUpKeepsSize ==
  ASSUME SizeIInv, NEW w \in Poppers, ScaleUp(w)
  PROVE  SizeIInv'
  <1>0. w \in Pushers /\ "check" \in (WorkerAt \cup SubmitterAt) \ {"leave"}
    BY WorkersPush DEF WorkerAt
  <1>1. CASE Goto(w, "check") /\ UNCHANGED workers
    BY <1>0, <1>1, RestKeepsSize DEF ScaleUp
  <1>2. ASSUME Cardinality(workers) < MaxWorkers, NEW n \in Poppers \ workers,
               workers' = workers \cup {n},
               pc' = [pc EXCEPT ![w] = "check", ![n] = "check"]
        PROVE  SizeIInv'
    <2>1. IsFiniteSet(workers) /\ Cardinality(workers) \in Nat
      BY PoolAssumption, FS_Subset, FS_CardinalityType DEF SizeIInv
    <2>2. Cardinality(workers') = Cardinality(workers) + 1
      BY <1>2, <2>1, FS_AddElement
    <2>3. Cardinality(workers') <= MaxWorkers /\ workers' # {}
      BY <1>2, <2>1, <2>2, PoolAssumption
    <2>4. n \in Pushers
      BY WorkersPush
    <2>5. /\ pc' \in [Pushers -> WorkerAt \cup SubmitterAt]
          /\ \A u \in Pushers : pc'[u] = "check" \/ pc'[u] = pc[u]
      BY <1>0, <1>2, <2>4 DEF SizeIInv
    <2>6. shutdown' = shutdown
      BY DEF ScaleUp
    <2>7. \A v \in Poppers : pc'[v] = "leave" => shutdown' = TRUE
      BY <2>5, <2>6, WorkersPush DEF SizeIInv
    <2>8. workers' \subseteq Poppers
      BY <1>2 DEF SizeIInv
    <2> QED
      BY <2>3, <2>5, <2>6, <2>7, <2>8 DEF SizeIInv, PoolSize
  <1> QED
    BY <1>1, <1>2 DEF ScaleUp

\* CheckShutdown is the only way to "leave".
LEMMA CheckKeepsSize ==
  ASSUME SizeIInv, NEW w \in Poppers, CheckShutdown(w)
  PROVE  SizeIInv'
  <1>0. /\ w \in Pushers /\ "leave" \in WorkerAt \cup SubmitterAt
        /\ "take" \in (WorkerAt \cup SubmitterAt) \ {"leave"}
    BY WorkersPush DEF WorkerAt
  <1>1. CASE shutdown = TRUE
    <2>1. Goto(w, "leave")
      BY <1>1 DEF CheckShutdown
    <2>2. /\ pc' \in [Pushers -> WorkerAt \cup SubmitterAt]
          /\ shutdown' = TRUE /\ UNCHANGED workers
      BY <1>0, <1>1, <2>1, GotoType DEF SizeIInv, CheckShutdown
    <2> QED
      BY <1>1, <2>2 DEF SizeIInv, PoolSize
  <1>2. CASE shutdown # TRUE
    <2>1. Goto(w, "take") /\ UNCHANGED <<workers, shutdown>>
      BY <1>2 DEF CheckShutdown, SizeIInv
    <2> QED
      BY <1>0, <2>1, RestKeepsSize
  <1> QED
    BY <1>1, <1>2

\* Every step of a submitter only moves it on.
LEMMA SubmitterMoves ==
  ASSUME SizeIInv, NEW s \in Submitters,
         TpSubmit(s) \/ SubmitAgain(s) \/ ReadLevel(s) \/ CountLevel(s) \/ OnHighWater(s)
  PROVE  /\ \E place \in SubmitterAt : Goto(s, place)
         /\ UNCHANGED <<workers, shutdown>>
  <1>1. CASE TpSubmit(s) \/ SubmitAgain(s)
    BY <1>1 DEF TpSubmit, SubmitAgain, AfterPush, Goto, SubmitterAt
  <1>2. CASE ReadLevel(s)
    BY <1>2 DEF ReadLevel, SubmitterAt
  <1>3. CASE CountLevel(s)
    BY <1>3 DEF CountLevel, SubmitterAt
  <1>4. CASE OnHighWater(s)
    BY <1>4 DEF OnHighWater, SubmitterAt
  <1> QED
    BY <1>1, <1>2, <1>3, <1>4

\* A worker that neither leaves, nor adds or unlinks one, only moves on.
LEMMA WorkerMoves ==
  ASSUME NEW w \in Poppers,
         \/ TakeFrame(w) \/ TakeWait(w) \/ WaitReturns(w)
         \/ IdleTimeout(w) \/ OnLowWater(w) \/ RunTask(w)
  PROVE  /\ \E place \in {"check", "wait", "idle", "low", "work"} : Goto(w, place)
         /\ UNCHANGED <<workers, shutdown>>
  <1>1. CASE TakeFrame(w) \/ TakeWait(w) \/ WaitReturns(w)
    BY <1>1 DEF TakeFrame, TakeInto, TakeWait, WaitReturns
  <1>2. CASE IdleTimeout(w) \/ OnLowWater(w) \/ RunTask(w)
    BY <1>2 DEF IdleTimeout, OnLowWater, RunTask
  <1> QED
    BY <1>1, <1>2

\* Every step keeps it.
LEMMA NextSize == SizeIInv /\ [PoolNext]_pvars => SizeIInv'
  <1> SUFFICES ASSUME SizeIInv, [PoolNext]_pvars PROVE SizeIInv'
    OBVIOUS
  <1>1. ASSUME NEW s \in Submitters,
               TpSubmit(s) \/ SubmitAgain(s) \/ ReadLevel(s) \/ CountLevel(s)
                 \/ OnHighWater(s)
        PROVE  SizeIInv'
    <2>1. s \in Pushers /\ SubmitterAt \subseteq (WorkerAt \cup SubmitterAt) \ {"leave"}
      BY PoolAssumption DEF SubmitterAt
    <2> QED
      BY <1>1, <2>1, SubmitterMoves, RestKeepsSize
  <1>2. ASSUME NEW w \in Poppers, WorkerStep(w)
        PROVE  SizeIInv'
    <2>1. CASE \/ TakeFrame(w) \/ TakeWait(w) \/ WaitReturns(w)
               \/ IdleTimeout(w) \/ OnLowWater(w) \/ RunTask(w)
      <3>1. /\ w \in Pushers
            /\ {"check", "wait", "idle", "low", "work"}
                 \subseteq (WorkerAt \cup SubmitterAt) \ {"leave"}
        BY WorkersPush DEF WorkerAt
      <3> QED
        BY <2>1, <3>1, WorkerMoves, RestKeepsSize
    <2>2. CASE CheckShutdown(w)
      BY <2>2, CheckKeepsSize
    <2>3. CASE ScaleUp(w)
      BY <2>3, ScaleUpKeepsSize
    <2>4. CASE ScaleDown(w)
      <3>1. CASE TooMany
        BY <2>4, <3>1, UnlinkKeepsSize DEF ScaleDown
      <3>2. CASE ~TooMany
        <4>1. w \in Pushers /\ "check" \in (WorkerAt \cup SubmitterAt) \ {"leave"}
          BY WorkersPush DEF WorkerAt
        <4> QED
          BY <2>4, <3>2, <4>1, RestKeepsSize DEF ScaleDown
      <3> QED
        BY <3>1, <3>2
    <2>5. CASE Leave(w)
      <3>1. shutdown = TRUE
        BY <2>5 DEF Leave, SizeIInv
      <3> QED
        BY <2>5, <3>1, UnlinkKeepsSize DEF Leave
    <2> QED
      BY <1>2, <2>1, <2>2, <2>3, <2>4, <2>5 DEF WorkerStep
  <1>3. CASE TpDestroy
    BY <1>3
    DEF TpDestroy, SetShutdown, WakeAll, Drain, RingDestroy, FreeQueue, SizeIInv,
        PoolSize
  <1>4. CASE UNCHANGED pvars
    BY <1>4 DEF pvars, pool, SizeIInv, PoolSize
  <1> QED
    BY <1>1, <1>2, <1>3, <1>4 DEF PoolNext

\* Whatever SCALE_UP and SCALE_DOWN commands are under way, there are never
\* more workers than MaxWorkers, and until tp_destroy never none.
THEOREM PoolSizeBounded == PoolSpec => []PoolSize
  <1>1. SizeIInv => PoolSize
    BY DEF SizeIInv
  <1> QED
    BY <1>1, InitSize, NextSize, PTL DEF PoolSpec

-----------------------------------------------------------------------------
(* Types.  A ring that is overrun stays well-typed: it was full, so every    *)
(* slot holds a frame from then on.                                          *)

AllFilled(r) == \A s \in Slots : r.buf[s] \in Frames

\* The occupied slots hold frames: all slots do, or the ring was never overrun.
Filled(r) == WellFormed(r) \/ AllFilled(r)

QueueIInv == BlockingTypeOK /\ Filled(q)

\* The type invariant holds because a frame is taken from an occupied slot, and
\* a worker at "work" has one in its hand.
AtWork == \A w \in Poppers : pc[w] = "work" => hand[w] \in Frames

TypeIInv == PoolTypeOK /\ Filled(q) /\ AtWork

\* The slots of a full ring are all occupied.
LEMMA FullIsFilled ==
  ASSUME NEW r \in Ring, WellFormed(r), r.count = Capacity
  PROVE  AllFilled(r)
  <1> SUFFICES ASSUME NEW s \in Slots PROVE r.buf[s] \in Frames
    BY DEF AllFilled
  <1> DEFINE d == IF s >= r.tail THEN s - r.tail ELSE s - r.tail + Capacity
  <1>1. r.tail \in Slots
    BY DEF Ring
  <1>2. d \in 0..(r.count - 1) /\ d \in 0..Capacity
    BY <1>1 DEF Slots
  <1>3. Slot(r.tail + d)
          = IF r.tail + d < Capacity THEN r.tail + d ELSE r.tail + d - Capacity
    BY <1>1, <1>2, SlotForward
  <1>4. r.tail + d = s \/ r.tail + d = s + Capacity
    BY <1>1 DEF Slots
  <1> HIDE DEF d
  <1>5. Slot(r.tail + d) = s
    BY <1>1, <1>2, <1>3, <1>4 DEF Slots
  <1> QED
    BY <1>2, <1>5 DEF WellFormed

\* A frame written anywhere leaves a ring, and no slot empty that was not.
LEMMA WriteFilled ==
  ASSUME NEW r \in Ring, NEW f \in Frames
  PROVE  Write(r, f) \in Ring /\ (AllFilled(r) => AllFilled(Write(r, f)))
  <1>1. /\ r.count \in Nat /\ r.tail \in Slots /\ r.head \in Slots
        /\ r.dropped \in Nat /\ r.buf \in [Slots -> Frames \cup {NoFrame}]
    BY DEF Ring
  <1>2. Slot(r.head + 1) \in Slots
    <2>1. r.head + 1 \in Int
      BY <1>1 DEF Slots
    <2> QED
      BY <2>1, SlotType
  <1>3. Write(r, f) \in Ring
    BY <1>1, <1>2 DEF Write, Ring
  <1>4. AllFilled(r) => AllFilled(Write(r, f))
    BY <1>1 DEF AllFilled, Write
  <1> QED
    BY <1>3, <1>4

\* The shift of drop_oldest_normal empties no slot.
LEMMA RemoveFilled ==
  ASSUME NEW r \in Ring, r.count = Capacity, AllFilled(r), NEW i \in Slots
  PROVE  RemoveNormal(r, i) \in Ring /\ AllFilled(RemoveNormal(r, i))
  <1> DEFINE w == RemoveNormal(r, i)
  <1>1. /\ r.count \in Nat /\ r.tail \in Slots /\ r.head \in Slots /\ r.dropped \in Nat
    BY DEF Ring
  <1>2. (r.head - 1) % Capacity \in Slots
    BY <1>1, SlotBack DEF Slots
  <1>3. \A s \in Slots : Slot(s + 1) \in Slots
    BY SlotType DEF Slots
  <1>4. w.buf \in [Slots -> Frames]
    BY <1>3 DEF RemoveNormal, AllFilled
  <1>5. w = [buf |-> w.buf, head |-> (r.head - 1) % Capacity, tail |-> r.tail,
             count |-> r.count - 1, dropped |-> r.dropped + 1]
    BY DEF RemoveNormal
  <1>6. r.count - 1 \in Nat /\ r.dropped + 1 \in Nat
    BY <1>1
  <1> HIDE DEF w
  <1>7. w \in Ring
    BY <1>1, <1>2, <1>4, <1>5, <1>6 DEF Ring
  <1>8. AllFilled(w)
    BY <1>4 DEF AllFilled
  <1> QED
    BY <1>7, <1>8 DEF w

\* The rest of ring_push keeps the queue well-typed, also when it overruns it.
LEMMA PushKeepsQueue ==
  ASSUME QueueIInv, NEW p \in Pushers, NEW f \in Frames, PushLoop(p, f),
         offered' \subseteq Frames
  PROVE  QueueIInv'
  <1>0. q \in Ring /\ q.count \in Nat /\ (WellFormed(q) \/ AllFilled(q))
    BY DEF QueueIInv, Filled, BlockingTypeOK, Ring
  <1>4. /\ overran' \in BOOLEAN
        /\ UNCHANGED <<running, woken, loops, popped>>
    BY DEF PushLoop, QueueIInv, BlockingTypeOK
  <1>1. CASE PushStore(p, f)
    <2>1. q' = Write(q, f) /\ q.count # Capacity
      BY <1>1 DEF PushStore
    <2>2. q' \in Ring /\ Filled(q')
      <3>1. WellFormed(q) => WellFormed(Write(q, f))
        BY <1>0, <2>1, WriteLemma DEF WellFormed
      <3> QED
        BY <1>0, <2>1, <3>1, WriteFilled DEF Filled
    <2>3. Overwritten(q) \subseteq Frames
      <3>1. q.count > Capacity => AllFilled(q)
        BY <1>0 DEF WellFormed
      <3>2. q.head \in Slots
        BY <1>0 DEF Ring
      <3> QED
        BY <3>1, <3>2 DEF Overwritten, AllFilled
    <2>4. /\ notEmpty' \subseteq notEmpty /\ lost' = lost \cup Overwritten(q)
          /\ holding' = [holding EXCEPT ![p] = NoFrame] /\ notFull' = notFull
      BY <1>1 DEF PushStore, SignalNotEmpty
    <2> QED
      BY <1>4, <2>2, <2>3, <2>4 DEF QueueIInv, BlockingTypeOK, loops
  <1>2. CASE PushAlarm(p, f)
    <2>1. q.count = Capacity
      BY <1>2 DEF PushAlarm
    <2>2. AllFilled(q)
      BY <1>0, <2>1, FullIsFilled
    <2>3. PICK i \in Slots : /\ q' = Write(DropOldestNormal(q, i), f)
                             /\ lost' = lost \cup DroppedFrame(q, i)
      BY <1>2 DEF PushAlarm
    <2>4. DropOldestNormal(q, i) \in Ring /\ AllFilled(DropOldestNormal(q, i))
      BY <1>0, <2>1, <2>2, RemoveFilled DEF DropOldestNormal
    <2>5. q' \in Ring /\ AllFilled(q')
      BY <2>3, <2>4, WriteFilled
    <2>6. DroppedFrame(q, i) \subseteq Frames
      <3>1. q.tail + i \in Int
        BY <1>0 DEF Ring, Slots
      <3>2. q.head \in Slots
        BY <1>0 DEF Ring
      <3> QED
        BY <2>2, <3>1, <3>2, SlotType DEF DroppedFrame, AllFilled
    <2>7. /\ notEmpty' \subseteq notEmpty /\ notFull' = notFull
          /\ holding' = [holding EXCEPT ![p] = NoFrame]
      BY <1>2 DEF PushAlarm, SignalNotEmpty
    <2> QED
      BY <1>4, <2>3, <2>5, <2>6, <2>7 DEF QueueIInv, Filled, BlockingTypeOK, loops
  <1>3. CASE PushSleep(p, f)
    <2>1. /\ UNCHANGED <<q, notEmpty, lost>>
          /\ notFull' = notFull \cup {p} /\ holding' = [holding EXCEPT ![p] = f]
      BY <1>3 DEF PushSleep
    <2>2. BlockingTypeOK'
      BY <1>4, <2>1 DEF QueueIInv, BlockingTypeOK, loops
    <2>3. Filled(q)'
      BY <2>1 DEF QueueIInv, Filled, WellFormed, AllFilled
    <2> QED
      BY <2>2, <2>3 DEF QueueIInv
  <1> QED
    BY <1>1, <1>2, <1>3 DEF PushLoop

\* The frame at tail is one a producer wrote.
LEMMA TakeIsFrame ==
  ASSUME QueueIInv, q.count > 0
  PROVE  q.buf[q.tail] \in Frames
  <1>1. q.tail \in Slots /\ q.count \in Nat
    BY DEF QueueIInv, BlockingTypeOK, Ring
  <1>2. Slot(q.tail + 0) = q.tail /\ 0 \in 0..(q.count - 1)
    BY <1>1 DEF Slots, Slot
  <1> QED
    BY <1>1, <1>2 DEF QueueIInv, Filled, WellFormed, AllFilled

\* Frames leave a ring that holds them, whether it was overrun or not.
LEMMA TakeKeepsRing ==
  ASSUME QueueIInv, NEW n \in 0..q.count
  PROVE  Take(q, n) \in Ring /\ Filled(Take(q, n))
  <1>1. q \in Ring /\ q.tail \in Slots /\ q.count \in Nat /\ n \in Nat
    BY DEF QueueIInv, BlockingTypeOK, Ring
  <1>2. Slot(q.tail + n) \in Slots
    <2>1. q.tail + n \in Int
      BY <1>1 DEF Slots
    <2> QED
      BY <2>1, SlotType
  <1>3. Take(q, n) \in Ring
    <2>1. q.count - n \in Nat
      BY <1>1
    <2> QED
      BY <1>1, <1>2, <2>1 DEF Take, Ring
  <1>4. AllFilled(q) => AllFilled(Take(q, n))
    <2>1. Take(q, n).buf = q.buf
      BY <1>1 DEF Take, Ring
    <2> QED
      BY <2>1 DEF AllFilled
  <1>5. WellFormed(q) => WellFormed(Take(q, n))
    BY <1>1, TakeLemma
  <1> QED
    BY <1>3, <1>4, <1>5 DEF QueueIInv, Filled

\* What the queue holds are frames.
LEMMA ContentsAreFrames ==
  ASSUME QueueIInv
  PROVE  Range(Contents(q)) \subseteq Frames
  <1> SUFFICES ASSUME NEW i \in 1..q.count
               PROVE  q.buf[Slot(q.tail + (i - 1))] \in Frames
    BY DEF Contents, Range
  <1>1. q.tail \in Slots /\ q.count \in Nat
    BY DEF QueueIInv, BlockingTypeOK, Ring
  <1>2. q.tail + (i - 1) \in Int /\ i - 1 \in 0..(q.count - 1)
    BY <1>1 DEF Slots
  <1>3. Slot(q.tail + (i - 1)) \in Slots
    BY <1>2, SlotType
  <1> QED
    BY <1>2, <1>3 DEF QueueIInv, Filled, WellFormed, AllFilled

\* An empty queue and no thread in ring_push.
LEMMA InitQueue == BlockingInit => QueueIInv
  <1> SUFFICES ASSUME BlockingInit PROVE QueueIInv
    OBVIOUS
  <1>1. RingIInv
    BY InitRing DEF BlockingInit
  <1>2. BlockingTypeOK
    BY <1>1 DEF RingIInv, TypeOK, BlockingTypeOK, BlockingInit
  <1> QED
    BY <1>1, <1>2 DEF QueueIInv, Filled, RingIInv, RingInv

\* Moving a thread to anywhere but "work".
LEMMA MoveKeepsAtWork ==
  ASSUME TypeIInv, NEW t \in Pushers, NEW place \in (WorkerAt \cup SubmitterAt) \ {"work"},
         Goto(t, place), \A w \in Poppers : w = t \/ hand'[w] = hand[w]
  PROVE  /\ pc' \in [Pushers -> WorkerAt \cup SubmitterAt]
         /\ AtWork'
  <1>1. /\ pc' \in [Pushers -> WorkerAt \cup SubmitterAt]
        /\ pc'[t] = place
        /\ \A u \in Pushers : u # t => pc'[u] = pc[u]
    BY GotoType DEF TypeIInv, PoolTypeOK
  <1>2. \A w \in Poppers : pc'[w] = "work" => hand'[w] \in Frames
    <2> SUFFICES ASSUME NEW w \in Poppers, pc'[w] = "work"
                 PROVE  hand'[w] \in Frames
      OBVIOUS
    <2>1. w # t
      BY <1>1
    <2>2. pc[w] = "work" /\ hand'[w] = hand[w]
      BY <1>1, <2>1, WorkersPush
    <2> QED
      BY <2>2 DEF TypeIInv, AtWork
  <1> QED
    BY <1>1, <1>2 DEF AtWork

\* The same for what the steps of a thread leave of the types.
LEMMA MoveKeepsTypes ==
  ASSUME TypeIInv, NEW t \in Pushers, NEW place \in (WorkerAt \cup SubmitterAt) \ {"work"},
         Goto(t, place), QueueIInv', hand' = hand, workers' \subseteq Poppers,
         high' \in 0..(HighThreshold - 1), UNCHANGED <<shutdown, stage, ran>>
  PROVE  TypeIInv'
  <1>1. pc' \in [Pushers -> WorkerAt \cup SubmitterAt] /\ AtWork'
    BY MoveKeepsAtWork
  <1> QED
    BY <1>1 DEF TypeIInv, PoolTypeOK, QueueIInv

\* Neither sleeping nor waking touches the frames.
LEMMA SleepKeepsQueue ==
  ASSUME QueueIInv, notEmpty' \subseteq Poppers, notFull' \subseteq Pushers,
         woken' \in BOOLEAN, UNCHANGED <<q, NotInPool, history, holding, overran>>
  PROVE  QueueIInv'
  <1>1. BlockingTypeOK'
    BY DEF QueueIInv, BlockingTypeOK, NotInPool, loops, history
  <1>2. Filled(q)'
    BY DEF QueueIInv, Filled, WellFormed, AllFilled
  <1> QED
    BY <1>1, <1>2 DEF QueueIInv

\* A call of ring_push, and one that goes on after a wait, keep the queue.
LEMMA RingPushKeepsQueue ==
  ASSUME QueueIInv, NEW p \in Pushers, NEW f, RingPush(p, f)
  PROVE  QueueIInv'
  <1>1. f \in Frames /\ offered' \subseteq Frames /\ PushLoop(p, f)
    BY DEF RingPush, Offer, QueueIInv, BlockingTypeOK
  <1> QED
    BY <1>1, PushKeepsQueue

LEMMA PushAgainKeepsQueue ==
  ASSUME QueueIInv, NEW p \in Pushers, RingPushAgain(p)
  PROVE  QueueIInv'
  <1>1. holding[p] \in Frames /\ offered' \subseteq Frames /\ PushLoop(p, holding[p])
    BY DEF RingPushAgain, QueueIInv, BlockingTypeOK
  <1> QED
    BY <1>1, PushKeepsQueue

\* Submitters push well-typed frames and count within the threshold.
LEMMA SubmitterKeepsTypes ==
  ASSUME TypeIInv, NEW s \in Submitters,
         TpSubmit(s) \/ SubmitAgain(s) \/ ReadLevel(s) \/ CountLevel(s) \/ OnHighWater(s)
  PROVE  TypeIInv'
  <1>0. /\ s \in Pushers /\ QueueIInv
        /\ SubmitterAt \subseteq (WorkerAt \cup SubmitterAt) \ {"work"}
        /\ workers \subseteq Poppers /\ high \in 0..(HighThreshold - 1)
    BY PoolAssumption DEF SubmitterAt, TypeIInv, QueueIInv, PoolTypeOK
  <1>1. /\ \E place \in SubmitterAt : Goto(s, place)
        /\ hand' = hand /\ UNCHANGED <<workers, shutdown, stage, ran>>
    <2>1. CASE TpSubmit(s) \/ SubmitAgain(s)
      BY <2>1 DEF TpSubmit, SubmitAgain, AfterPush, Goto, SubmitterAt
    <2>2. CASE ReadLevel(s)
      BY <2>2 DEF ReadLevel, SubmitterAt
    <2>3. CASE CountLevel(s)
      BY <2>3 DEF CountLevel, SubmitterAt
    <2>4. CASE OnHighWater(s)
      BY <2>4 DEF OnHighWater, SubmitterAt
    <2> QED
      BY <2>1, <2>2, <2>3, <2>4
  <1>2. QueueIInv'
    <2>1. CASE TpSubmit(s) \/ OnHighWater(s)
      BY <1>0, <2>1, RingPushKeepsQueue DEF TpSubmit, OnHighWater
    <2>2. CASE SubmitAgain(s)
      BY <1>0, <2>2, PushAgainKeepsQueue DEF SubmitAgain
    <2>3. CASE ReadLevel(s) \/ CountLevel(s)
      <3>1. UNCHANGED bvars
        BY <2>3 DEF ReadLevel, CountLevel
      <3> QED
        BY <1>0, <3>1, SleepKeepsQueue
        DEF bvars, vars, control, NotInPool, QueueIInv, BlockingTypeOK
    <2> QED
      BY <2>1, <2>2, <2>3
  <1>3. high' \in 0..(HighThreshold - 1)
    <2>1. CASE CountLevel(s)
      BY <1>0, <2>1, PoolAssumption DEF CountLevel
    <2>2. CASE TpSubmit(s) \/ SubmitAgain(s) \/ ReadLevel(s) \/ OnHighWater(s)
      BY <1>0, <2>2 DEF TpSubmit, SubmitAgain, ReadLevel, OnHighWater
    <2> QED
      BY <2>1, <2>2
  <1> QED
    BY <1>0, <1>1, <1>2, <1>3, MoveKeepsTypes

\* What a worker does without the frame in its hand.
LEMMA LoopKeepsTypes ==
  ASSUME TypeIInv, NEW w \in Poppers,
         \/ CheckShutdown(w) \/ TakeWait(w) \/ WaitReturns(w)
         \/ IdleTimeout(w) \/ OnLowWater(w) \/ Leave(w)
  PROVE  TypeIInv'
  <1>0. /\ w \in Pushers /\ QueueIInv /\ WorkerAt \ {"work"} \subseteq (WorkerAt \cup SubmitterAt) \ {"work"}
        /\ workers \subseteq Poppers /\ high \in 0..(HighThreshold - 1)
    BY WorkersPush DEF TypeIInv, QueueIInv, PoolTypeOK
  <1>1. /\ \E place \in WorkerAt \ {"work"} : Goto(w, place)
        /\ hand' = hand /\ UNCHANGED <<high, shutdown, stage, ran>>
        /\ workers' \subseteq Poppers
    <2>1. CASE CheckShutdown(w) \/ TakeWait(w)
      BY <1>0, <2>1 DEF CheckShutdown, TakeWait, WorkerAt
    <2>2. CASE WaitReturns(w)
      BY <1>0, <2>2 DEF WaitReturns, WorkerAt
    <2>3. CASE IdleTimeout(w) \/ OnLowWater(w)
      BY <1>0, <2>3 DEF IdleTimeout, OnLowWater, WorkerAt
    <2>4. CASE Leave(w)
      BY <1>0, <2>4 DEF Leave, Unlink, WorkerAt
    <2> QED
      BY <2>1, <2>2, <2>3, <2>4
  <1>2. QueueIInv'
    <2>1. CASE OnLowWater(w)
      BY <1>0, <2>1, RingPushKeepsQueue DEF OnLowWater
    <2>2. CASE TakeWait(w) \/ WaitReturns(w)
      <3>1. UNCHANGED <<q, notFull, NotInPool, woken, history, holding, overran>>
        BY <2>2 DEF TakeWait, WaitReturns
      <3>2. notEmpty' \subseteq Poppers
        BY <1>0, <2>2 DEF TakeWait, WaitReturns, QueueIInv, BlockingTypeOK
      <3> QED
        BY <1>0, <3>1, <3>2, SleepKeepsQueue DEF QueueIInv, BlockingTypeOK
    <2>3. CASE CheckShutdown(w) \/ IdleTimeout(w) \/ Leave(w)
      <3>1. UNCHANGED bvars
        BY <2>3 DEF CheckShutdown, IdleTimeout, Leave
      <3> QED
        BY <1>0, <3>1, SleepKeepsQueue
        DEF bvars, vars, control, NotInPool, QueueIInv, BlockingTypeOK
    <2> QED
      BY <2>1, <2>2, <2>3
  <1> QED
    BY <1>0, <1>1, <1>2, MoveKeepsTypes

\* A worker takes the frame at tail.
LEMMA TakeKeepsTypes ==
  ASSUME TypeIInv, NEW w \in Poppers, TakeFrame(w)
  PROVE  TypeIInv'
  <1>0. w \in Pushers /\ QueueIInv /\ q.count > 0 /\ q.count \in Nat
    BY WorkersPush DEF TypeIInv, QueueIInv, PoolTypeOK, BlockingTypeOK, Ring, TakeFrame, TakeInto
  <1>1. q' \in Ring /\ Filled(q')
    <2>1. 1 \in 0..q.count /\ q' = Take(q, 1)
      BY <1>0 DEF TakeFrame
    <2> QED
      BY <1>0, <2>1, TakeKeepsRing
  <1>2. q.buf[q.tail] \in Frames
    BY <1>0, TakeIsFrame
  <1>3. /\ pc' \in [Pushers -> WorkerAt \cup SubmitterAt]
        /\ \A u \in Pushers : u # w => pc'[u] = pc[u]
    <2>1. Goto(w, "work") /\ "work" \in WorkerAt \cup SubmitterAt
      BY DEF TakeFrame, TakeInto, WorkerAt
    <2> QED
      BY <1>0, <2>1, GotoType DEF TypeIInv, PoolTypeOK
  <1>4. AtWork' /\ hand' \in [Poppers -> Frames \cup {NoFrame}]
    <2>1. hand' = [hand EXCEPT ![w] = q.buf[q.tail]] /\ hand \in [Poppers -> Frames \cup {NoFrame}]
      BY DEF TakeFrame, TakeInto, TypeIInv, PoolTypeOK
    <2>2. \A v \in Poppers : v # w => pc'[v] = pc[v] /\ hand'[v] = hand[v]
      BY <1>3, <2>1, WorkersPush
    <2> QED
      BY <1>2, <2>1, <2>2 DEF AtWork, TypeIInv
  <1>5. BlockingTypeOK'
    <2>1. /\ notFull' = {}
          /\ UNCHANGED <<notEmpty, NotInPool, woken, history, holding, overran>>
      BY DEF TakeFrame, TakeInto
    <2> QED
      BY <1>1, <2>1
      DEF TypeIInv, PoolTypeOK, BlockingTypeOK, NotInPool, loops, history
  <1>6. UNCHANGED <<workers, shutdown, high, stage, ran>>
    BY DEF TakeFrame, TakeInto
  <1> QED
    BY <1>1, <1>3, <1>4, <1>5, <1>6 DEF TypeIInv, PoolTypeOK

\* A worker does what the frame in its hand says.
LEMMA WorkKeepsTypes ==
  ASSUME TypeIInv, NEW w \in Poppers, RunTask(w) \/ ScaleUp(w) \/ ScaleDown(w)
  PROVE  TypeIInv'
  <1>0. /\ w \in Pushers /\ hand[w] \in Frames
        /\ hand' = [hand EXCEPT ![w] = NoFrame] /\ UNCHANGED <<bvars, shutdown, high, stage>>
    BY WorkersPush
    DEF TypeIInv, AtWork, RunTask, ScaleUp, ScaleDown, Working
  <1>1. BlockingTypeOK' /\ Filled(q)'
    BY <1>0 DEF bvars, vars, control, loops, history, TypeIInv, PoolTypeOK, BlockingTypeOK,
       Filled, WellFormed, AllFilled
  <1>2. /\ hand' \in [Poppers -> Frames \cup {NoFrame}]
        /\ \A v \in Poppers : v = w \/ hand'[v] = hand[v]
    BY <1>0 DEF TypeIInv, PoolTypeOK
  <1>3. ran' \subseteq Frames \ Alarms /\ workers' \subseteq Poppers
    BY <1>0 DEF TypeIInv, PoolTypeOK, RunTask, ScaleUp, ScaleDown, Unlink
  <1>4. pc' \in [Pushers -> WorkerAt \cup SubmitterAt] /\ AtWork'
    <2>1. CASE Goto(w, "check") \/ Goto(w, "none")
      <3>1. {"check", "none"} \subseteq (WorkerAt \cup SubmitterAt) \ {"work"}
        BY DEF WorkerAt
      <3> QED
        BY <1>0, <1>2, <2>1, <3>1, MoveKeepsAtWork
    <2>2. ASSUME NEW n \in Poppers \ workers,
                 pc' = [pc EXCEPT ![w] = "check", ![n] = "check"]
          PROVE  pc' \in [Pushers -> WorkerAt \cup SubmitterAt] /\ AtWork'
      <3>1. n \in Pushers /\ "check" \in WorkerAt \cup SubmitterAt
        BY WorkersPush DEF WorkerAt
      <3>2. /\ pc' \in [Pushers -> WorkerAt \cup SubmitterAt] /\ pc'[w] = "check"
            /\ \A v \in Pushers : pc'[v] = "check" \/ pc'[v] = pc[v]
        BY <1>0, <2>2, <3>1 DEF TypeIInv, PoolTypeOK
      <3>3. AtWork'
        BY <1>2, <3>2, WorkersPush DEF AtWork, TypeIInv
      <3> QED
        BY <3>2, <3>3
    <2> QED
      BY <2>1, <2>2 DEF RunTask, ScaleUp, ScaleDown, Unlink
  <1> QED
    BY <1>0, <1>1, <1>2, <1>3, <1>4 DEF TypeIInv, PoolTypeOK

\* tp_destroy frees what is in the queue.
LEMMA FreeKeepsQueue ==
  ASSUME QueueIInv, FreeQueue
  PROVE  QueueIInv'
  <1>1. q.count \in 0..q.count /\ q' = Take(q, q.count)
    BY DEF FreeQueue, QueueIInv, BlockingTypeOK, Ring
  <1>2. q' \in Ring /\ Filled(q')
    BY <1>1, TakeKeepsRing
  <1>3. lost' \subseteq Frames
    BY ContentsAreFrames DEF FreeQueue, QueueIInv, BlockingTypeOK
  <1>4. UNCHANGED <<control, offered, popped, holding, overran>>
    BY DEF FreeQueue
  <1> QED
    BY <1>2, <1>3, <1>4 DEF QueueIInv, BlockingTypeOK, control, loops

LEMMA DestroyKeepsTypes ==
  ASSUME TypeIInv, TpDestroy
  PROVE  TypeIInv'
  <1>0. QueueIInv /\ UNCHANGED <<workers, pc, hand, high, ran>>
    BY DEF TypeIInv, PoolTypeOK, QueueIInv, TpDestroy, SetShutdown, WakeAll, Drain,
       RingDestroy, FreeQueue
  <1>1. shutdown' \in BOOLEAN /\ stage' \in Stages
    BY DEF TypeIInv, PoolTypeOK, Stages, TpDestroy, SetShutdown, WakeAll, Drain,
       RingDestroy, FreeQueue
  <1>2. QueueIInv'
    <2>1. CASE SetShutdown
      BY <1>0, <2>1, SleepKeepsQueue
      DEF SetShutdown, bvars, vars, control, NotInPool, QueueIInv, BlockingTypeOK
    <2>2. CASE WakeAll
      BY <1>0, <2>2, SleepKeepsQueue DEF WakeAll
    <2>3. CASE Drain \/ RingDestroy
      BY <1>0, <2>3, FreeKeepsQueue DEF Drain, RingDestroy
    <2> QED
      BY <2>1, <2>2, <2>3 DEF TpDestroy
  <1> QED
    BY <1>0, <1>1, <1>2 DEF TypeIInv, PoolTypeOK, QueueIInv, AtWork

\* tp_init gives nobody a frame.
LEMMA InitTypes == PoolInit => TypeIInv
  <1> SUFFICES ASSUME PoolInit PROVE TypeIInv
    OBVIOUS
  <1>1. QueueIInv
    BY InitQueue DEF PoolInit
  <1>2. /\ pc \in [Pushers -> WorkerAt \cup SubmitterAt]
        /\ \A w \in Poppers : pc[w] # "work"
    BY WorkersPush DEF PoolInit, WorkerAt, SubmitterAt
  <1>3. high \in 0..(HighThreshold - 1)
    BY PoolAssumption DEF PoolInit
  <1>4. workers \subseteq Poppers
    BY DEF PoolInit
  <1>5. /\ hand \in [Poppers -> Frames \cup {NoFrame}] /\ ran \subseteq Frames \ Alarms
        /\ shutdown \in BOOLEAN /\ stage \in Stages
    BY DEF PoolInit, Stages
  <1> QED
    BY <1>1, <1>2, <1>3, <1>4, <1>5 DEF QueueIInv, TypeIInv, PoolTypeOK, AtWork

\* Every step keeps the types.
LEMMA NextTypes == TypeIInv /\ [PoolNext]_pvars => TypeIInv'
  <1> SUFFICES ASSUME TypeIInv, [PoolNext]_pvars PROVE TypeIInv'
    OBVIOUS
  <1>1. ASSUME NEW w \in Poppers, WorkerStep(w)
        PROVE  TypeIInv'
    BY <1>1, LoopKeepsTypes, TakeKeepsTypes, WorkKeepsTypes DEF WorkerStep
  <1>2. CASE UNCHANGED pvars
    <2>1. UNCHANGED <<bvars, pool>>
      BY <1>2 DEF pvars
    <2> QED
      BY <2>1 DEF bvars, vars, control, loops, history, pool, TypeIInv, PoolTypeOK,
         BlockingTypeOK, Filled, WellFormed, AllFilled, AtWork
  <1> QED
    BY <1>1, <1>2, SubmitterKeepsTypes, DestroyKeepsTypes DEF PoolNext

\* The pool's state has its types for ever, also when a queue full of commands
\* is overrun.
THEOREM PoolTyping == PoolSpec => []PoolTypeOK
  <1>1. TypeIInv => PoolTypeOK
    BY DEF TypeIInv
  <1> QED
    BY <1>1, InitTypes, NextTypes, PTL DEF PoolSpec

-----------------------------------------------------------------------------
(* Losses.                                                                  *)

\* A loss is paid for by a command that was offered, and only ring_push of a
\* command displaces a frame; a thread asleep in ring_push holds a task.
Losses ==
  Alive /\ ~overran =>
    /\ IsFiniteSet(lost)
    /\ Cardinality(lost) <= Cardinality(Alarms \cap offered)

SleepersHoldTasks == \A p \in Pushers : holding[p] \notin Alarms

\* The ring has room for what it holds until the first overrun.
Bounded == ~overran => q.count <= Capacity

LossIInv ==
  /\ TypeIInv
  /\ IsFiniteSet(offered)
  /\ SleepersHoldTasks
  /\ Bounded
  /\ Losses

\* A push loses at most one frame, and only when it is an alarm's.
LEMMA PushLoses ==
  ASSUME QueueIInv, NEW p \in Pushers, NEW f, PushLoop(p, f), SleepersHoldTasks, Bounded
  PROVE  /\ SleepersHoldTasks'
         /\ Bounded'
         /\ ~overran' => /\ ~overran
                         /\ lost' = lost \/ (f \in Alarms /\ \E x : lost' = lost \cup {x})
  <1>1. SleepersHoldTasks'
    <2>1. CASE holding' = [holding EXCEPT ![p] = NoFrame]
      BY <2>1 DEF QueueIInv, BlockingTypeOK, SleepersHoldTasks
    <2>2. CASE holding' = [holding EXCEPT ![p] = f] /\ f \notin Alarms
      BY <2>2 DEF QueueIInv, BlockingTypeOK, SleepersHoldTasks
    <2> QED
      BY <2>1, <2>2 DEF PushLoop, PushStore, PushAlarm, PushSleep
  <1>2. Bounded' /\ (~overran' => ~overran)
    <2>1. overran' = (overran \/ q'.count > Capacity)
      BY DEF PushLoop
    <2>2. q.count \in Nat
      BY DEF QueueIInv, BlockingTypeOK, Ring
    <2>3. q'.count \in Nat
      <3>1. CASE PushStore(p, f)
        BY <2>2, <3>1 DEF PushStore, Write
      <3>2. CASE PushAlarm(p, f)
        BY <2>2, <3>2, CapacityPositive
        DEF PushAlarm, Write, DropOldestNormal, RemoveNormal
      <3>3. CASE PushSleep(p, f)
        BY <2>2, <3>3 DEF PushSleep
      <3> QED
        BY <3>1, <3>2, <3>3 DEF PushLoop
    <2>4. ~overran' => ~overran /\ ~(q'.count > Capacity)
      BY <2>1, Zenon
    <2>5. ~(q'.count > Capacity) => q'.count <= Capacity
      BY <2>3, CapacityPositive
    <2> QED
      BY <2>4, <2>5, Zenon DEF Bounded
  <1>3. ASSUME ~overran
        PROVE  lost' = lost \/ (f \in Alarms /\ \E x : lost' = lost \cup {x})
    <2>1. CASE PushAlarm(p, f)
      BY <2>1 DEF PushAlarm, DroppedFrame
    <2>2. CASE PushStore(p, f)
      <3>1. q.count <= Capacity /\ q.count \in Nat
        BY <1>3 DEF Bounded, QueueIInv, BlockingTypeOK, Ring
      <3>2. Overwritten(q) = {}
        BY <3>1 DEF Overwritten
      <3> QED
        BY <2>2, <3>2 DEF PushStore
    <2>3. CASE PushSleep(p, f)
      BY <2>3 DEF PushSleep
    <2> QED
      BY <2>1, <2>2, <2>3 DEF PushLoop
  <1> QED
    BY <1>1, <1>2, <1>3

\* A call of ring_push pays for what it loses.
LEMMA RingPushLosses ==
  ASSUME LossIInv, NEW p \in Pushers, NEW f, RingPush(p, f), stage' = stage
  PROVE  IsFiniteSet(offered') /\ SleepersHoldTasks' /\ Bounded' /\ Losses'
  <1>1. /\ f \notin offered /\ offered' = offered \cup {f} /\ PushLoop(p, f)
        /\ QueueIInv /\ SleepersHoldTasks /\ Bounded
    BY DEF RingPush, Offer, LossIInv, TypeIInv, PoolTypeOK, QueueIInv
  <1>2. IsFiniteSet(offered') /\ IsFiniteSet(offered)
    BY <1>1, FS_AddElement DEF LossIInv
  <1>3. SleepersHoldTasks' /\ Bounded'
    BY <1>1, PushLoses
  <1>4. ASSUME Alive, ~overran' PROVE Losses'
    <2> DEFINE paid == Alarms \cap offered
    <2>0. /\ ~overran
          /\ lost' = lost \/ (f \in Alarms /\ \E x : lost' = lost \cup {x})
      BY <1>1, <1>4, PushLoses
    <2>1. IsFiniteSet(lost) /\ Cardinality(lost) \in Nat /\ Cardinality(lost) <= Cardinality(paid)
      BY <1>4, <2>0, FS_CardinalityType DEF LossIInv, Losses
    <2>2. IsFiniteSet(paid) /\ Cardinality(paid) \in Nat
      BY <1>2, FS_Subset, FS_CardinalityType
    <2>3. CASE f \in Alarms
      <3>1. Alarms \cap offered' = paid \cup {f} /\ f \notin paid
        BY <1>1, <2>3
      <3>2. Cardinality(Alarms \cap offered') = Cardinality(paid) + 1
        BY <2>2, <3>1, FS_AddElement
      <3>3. PICK x : lost' = lost \/ lost' = lost \cup {x}
        BY <2>0
      <3>4. IsFiniteSet(lost') /\ Cardinality(lost') <= Cardinality(lost) + 1
        <4>1. /\ IsFiniteSet(lost \cup {x})
              /\ Cardinality(lost \cup {x})
                   = IF x \in lost THEN Cardinality(lost) ELSE Cardinality(lost) + 1
          BY <2>1, FS_AddElement
        <4> QED
          BY <2>1, <3>3, <4>1
      <3>5. Cardinality(lost') \in Nat
        BY <3>4, FS_CardinalityType
      <3> HIDE DEF paid
      <3>6. Cardinality(lost') <= Cardinality(Alarms \cap offered')
        BY <2>1, <2>2, <3>2, <3>4, <3>5
      <3> QED
        BY <3>4, <3>6 DEF Losses
    <2>4. CASE f \notin Alarms
      <3>1. Alarms \cap offered' = paid /\ lost' = lost
        BY <1>1, <2>0, <2>4
      <3> QED
        BY <2>1, <3>1 DEF Losses
    <2> QED
      BY <2>3, <2>4
  <1>5. ASSUME ~Alive \/ overran' PROVE Losses'
    BY <1>5 DEF Losses, Alive
  <1> QED
    BY <1>2, <1>3, <1>4, <1>5

\* A thread that pushes on holds a task: it loses nothing.
LEMMA PushAgainLosses ==
  ASSUME LossIInv, NEW p \in Pushers, RingPushAgain(p), stage' = stage
  PROVE  IsFiniteSet(offered') /\ SleepersHoldTasks' /\ Bounded' /\ Losses'
  <1>1. /\ offered' = offered /\ PushLoop(p, holding[p]) /\ holding[p] \notin Alarms
        /\ QueueIInv /\ SleepersHoldTasks /\ Bounded
    BY DEF RingPushAgain, LossIInv, SleepersHoldTasks, TypeIInv, PoolTypeOK, QueueIInv
  <1>2. SleepersHoldTasks' /\ Bounded' /\ (~overran' => ~overran /\ lost' = lost)
    BY <1>1, PushLoses
  <1>3. Losses'
    BY <1>1, <1>2 DEF LossIInv, Losses, Alive
  <1> QED
    BY <1>1, <1>2, <1>3 DEF LossIInv

\* Every other step loses nothing, but for those that end the life of the pool.
LEMMA OtherLosses ==
  ASSUME LossIInv, UNCHANGED <<offered, holding, overran>>,
         q'.count <= q.count, q'.count \in Nat,
         Alive' => Alive /\ lost' = lost
  PROVE  IsFiniteSet(offered') /\ SleepersHoldTasks' /\ Bounded' /\ Losses'
  <1>1. q.count \in Nat
    BY DEF LossIInv, TypeIInv, PoolTypeOK, BlockingTypeOK, Ring
  <1>2. Bounded'
    BY <1>1 DEF LossIInv, Bounded
  <1> QED
    BY <1>2 DEF LossIInv, SleepersHoldTasks, Losses

\* A worker takes one frame.
LEMMA TakeLosses ==
  ASSUME LossIInv, NEW w \in Poppers, TakeFrame(w)
  PROVE  IsFiniteSet(offered') /\ SleepersHoldTasks' /\ Bounded' /\ Losses'
  <1>1. q \in Ring /\ q.count \in Nat /\ q.count > 0 /\ q' = Take(q, 1)
    BY DEF LossIInv, TypeIInv, PoolTypeOK, BlockingTypeOK, Ring, TakeFrame, TakeInto
  <1>2. q'.count = q.count - 1
    BY <1>1 DEF Take, Ring
  <1> QED
    BY <1>1, <1>2, OtherLosses DEF TakeFrame, TakeInto, history, Alive

\* The queue is emptied.
LEMMA FreeLosses ==
  ASSUME LossIInv, FreeQueue, ~Alive'
  PROVE  IsFiniteSet(offered') /\ SleepersHoldTasks' /\ Bounded' /\ Losses'
  <1>1. q \in Ring /\ q.count \in Nat /\ q' = Take(q, q.count)
    BY DEF LossIInv, TypeIInv, PoolTypeOK, BlockingTypeOK, Ring, FreeQueue
  <1>2. q'.count = 0
    BY <1>1 DEF Take, Ring
  <1> QED
    BY <1>1, <1>2, OtherLosses DEF FreeQueue

\* Every step keeps it.
LEMMA NextLoss == LossIInv /\ [PoolNext]_pvars => LossIInv'
  <1> SUFFICES ASSUME LossIInv, [PoolNext]_pvars PROVE LossIInv'
    OBVIOUS
  <1>1. TypeIInv'
    BY NextTypes DEF LossIInv
  <1> DEFINE Goal == IsFiniteSet(offered') /\ SleepersHoldTasks' /\ Bounded' /\ Losses'
  <1> SUFFICES Goal
    BY <1>1 DEF LossIInv
  <1>2. ASSUME UNCHANGED <<q, offered, lost, holding, overran>>, Alive' => Alive
        PROVE  Goal
    <2>1. q.count \in Nat
      BY DEF LossIInv, TypeIInv, PoolTypeOK, BlockingTypeOK, Ring
    <2> QED
      BY <1>2, <2>1, OtherLosses
  <1>3. ASSUME NEW s \in Submitters,
               TpSubmit(s) \/ SubmitAgain(s) \/ ReadLevel(s) \/ CountLevel(s)
                 \/ OnHighWater(s)
        PROVE  Goal
    <2>1. s \in Pushers
      BY PoolAssumption
    <2>2. CASE TpSubmit(s) \/ OnHighWater(s)
      BY <2>1, <2>2, RingPushLosses DEF TpSubmit, OnHighWater
    <2>3. CASE SubmitAgain(s)
      BY <2>1, <2>3, PushAgainLosses DEF SubmitAgain
    <2>4. CASE ReadLevel(s) \/ CountLevel(s)
      BY <1>2, <2>4 DEF ReadLevel, CountLevel, bvars, vars, history, Alive
    <2> QED
      BY <1>3, <2>2, <2>3, <2>4
  <1>4. ASSUME NEW w \in Poppers, WorkerStep(w)
        PROVE  Goal
    <2>1. CASE OnLowWater(w)
      BY <2>1, WorkersPush, RingPushLosses DEF OnLowWater
    <2>2. CASE TakeFrame(w)
      BY <2>2, TakeLosses
    <2>3. CASE TakeWait(w) \/ WaitReturns(w)
      BY <1>2, <2>3 DEF TakeWait, WaitReturns, history, Alive
    <2>4. CASE CheckShutdown(w) \/ IdleTimeout(w) \/ Leave(w)
      BY <1>2, <2>4 DEF CheckShutdown, IdleTimeout, Leave, bvars, vars, history, Alive
    <2>5. CASE RunTask(w) \/ ScaleUp(w) \/ ScaleDown(w)
      BY <1>2, <2>5 DEF RunTask, ScaleUp, ScaleDown, bvars, vars, history, Alive
    <2> QED
      BY <1>4, <2>1, <2>2, <2>3, <2>4, <2>5 DEF WorkerStep
  <1>5. CASE TpDestroy
    <2>1. CASE SetShutdown
      BY <1>2, <2>1 DEF SetShutdown, bvars, vars, history, Alive
    <2>2. CASE WakeAll
      BY <1>2, <2>2 DEF WakeAll, history, Alive
    <2>3. CASE Drain \/ RingDestroy
      BY <2>3, FreeLosses DEF Drain, RingDestroy, Alive
    <2> QED
      BY <1>5, <2>1, <2>2, <2>3 DEF TpDestroy
  <1>6. CASE UNCHANGED pvars
    BY <1>2, <1>6 DEF pvars, pool, bvars, vars, history, Alive
  <1> QED
    BY <1>3, <1>4, <1>5, <1>6 DEF PoolNext

\* Nothing is lost at first.
LEMMA InitLoss == PoolInit => LossIInv
  <1> SUFFICES ASSUME PoolInit PROVE LossIInv
    OBVIOUS
  <1>1. /\ offered = {} /\ lost = {} /\ holding = [p \in Pushers |-> NoFrame]
        /\ q.count = 0
    BY DEF PoolInit, BlockingInit, Init, EmptyRing
  <1>2. Alarms \cap offered = {}
    BY <1>1
  <1>3. Losses
    BY <1>1, <1>2, FS_EmptySet DEF Losses
  <1>4. SleepersHoldTasks /\ Bounded
    BY <1>1 DEF SleepersHoldTasks, Bounded
  <1> QED
    BY <1>1, <1>3, <1>4, InitTypes, FS_EmptySet DEF LossIInv

\* While the pool lives and its queue is not overrun, each task lost was
\* displaced by a command of its own, in however many orders tasks and commands
\* met a full queue.
THEOREM LostOnlyToCommands == PoolSpec => []LostToCommands
  <1>1. LossIInv => LostToCommands
    BY DEF LossIInv, Losses, LostToCommands
  <1> QED
    BY <1>1, InitLoss, NextLoss, PTL DEF PoolSpec

-----------------------------------------------------------------------------
(* Where every task is.                                                     *)

\* The threads of the pool are those that run; one has a frame in its hand
\* exactly while it works on it.
HandsIInv ==
  /\ \A w \in Poppers : pc[w] # "none" => w \in workers
  /\ \A w \in Poppers : hand[w] # NoFrame => pc[w] = "work"
  /\ \A v, w \in Poppers : hand[v] = hand[w] => v = w \/ hand[v] = NoFrame

HoldsIInv ==
  \A r, s \in Pushers : holding[r] = holding[s] => r = s \/ holding[r] = NoFrame

\* No frame is in two places, or twice in one; the queue is as it should be.
Queued == Range(Contents(q))

PlacesIInv ==
  /\ WellFormed(q)
  /\ IsInjective(Contents(q))
  /\ Queued \cap (InHand \cup ran \cup lost \cup Held) = {}
  /\ InHand \cap (ran \cup lost \cup Held) = {}
  /\ ran \cap (lost \cup Held) = {}
  /\ lost \cap Held = {}
  /\ Queued \cup InHand \cup ran \cup lost \cup Held \subseteq offered
  /\ Tasks \cap offered \subseteq Queued \cup InHand \cup ran \cup lost \cup Held

AccountIInv == LossIInv /\ HandsIInv /\ HoldsIInv /\ PlacesIInv

\* All this until the queue is overrun, which takes more commands than slots.
SafeIInv ==
  /\ LossIInv
  /\ overran => Cardinality(Alarms \cap offered) > Capacity
  /\ ~overran => AccountIInv

\* A new element at the end repeats none.
LEMMA InjectiveAppend ==
  ASSUME NEW S, NEW s \in Seq(S), IsInjective(s), NEW e \in S, e \notin Range(s)
  PROVE  IsInjective(Append(s, e))
  <1>1. /\ Len(s) \in Nat /\ DOMAIN s = 1..Len(s)
        /\ DOMAIN Append(s, e) = 1..(Len(s) + 1)
        /\ \A k \in 1..Len(s) : Append(s, e)[k] = s[k]
        /\ Append(s, e)[Len(s) + 1] = e
    OBVIOUS
  <1>2. \A k \in 1..(Len(s) + 1) : k \in 1..Len(s) \/ k = Len(s) + 1
    BY <1>1
  <1>3. \A k \in 1..Len(s) : s[k] # e
    BY <1>1 DEF Range
  <1> QED
    BY <1>1, <1>2, <1>3, Zenon DEF IsInjective

\* Removing an element of a sequence that repeats none.
LEMMA InjectiveRemoveAt ==
  ASSUME NEW S, NEW s \in Seq(S), IsInjective(s), NEW i \in 1..Len(s)
  PROVE  /\ IsInjective(RemoveAt(s, i))
         /\ Range(RemoveAt(s, i)) = Range(s) \ {s[i]}
  <1> DEFINE x == RemoveAt(s, i)
  <1>0. Len(s) \in Nat /\ DOMAIN s = 1..Len(s)
    OBVIOUS
  <1>1. /\ x \in Seq(S) /\ Len(x) = Len(s) - 1
        /\ \A k \in 1..(Len(s) - 1) : x[k] = IF k < i THEN s[k] ELSE s[k + 1]
    BY RemoveAtSeq, Zenon
  <1>2. Range(s) = Range(x) \cup {s[i]}
    BY RangeRemoveAt, Zenon
  <1> HIDE DEF x
  <1>3. DOMAIN x = 1..(Len(s) - 1)
    BY <1>0, <1>1
  <1> DEFINE at(k) == IF k < i THEN k ELSE k + 1
  <1>4. \A k \in 1..(Len(s) - 1) : at(k) \in 1..Len(s) /\ at(k) # i /\ x[k] = s[at(k)]
    BY <1>0, <1>1
  <1>5. IsInjective(x)
    <2> SUFFICES ASSUME NEW j \in 1..(Len(s) - 1), NEW k \in 1..(Len(s) - 1), x[j] = x[k]
                 PROVE  j = k
      BY <1>3 DEF IsInjective
    <2>1. s[at(j)] = s[at(k)] /\ at(j) \in 1..Len(s) /\ at(k) \in 1..Len(s)
      BY <1>4
    <2>2. at(j) = at(k)
      BY <1>0, <2>1 DEF IsInjective
    <2> QED
      BY <1>0, <2>2
  <1>6. s[i] \notin Range(x)
    <2> SUFFICES ASSUME NEW k \in 1..(Len(s) - 1), x[k] = s[i] PROVE FALSE
      BY <1>3 DEF Range
    <2> QED
      BY <1>0, <1>4 DEF IsInjective
  <1> QED
    BY <1>2, <1>5, <1>6 DEF x

\* Without its first element a sequence is what is left of it.
LEMMA TailIsRemoveAt ==
  ASSUME NEW S, NEW s \in Seq(S), NEW n \in Nat, n = Len(s), n > 0
  PROVE  SubSeq(s, 1 + 1, n) = RemoveAt(s, 1)
  <1> DEFINE x == RemoveAt(s, 1)
             u == SubSeq(s, 1 + 1, n)
  <1>1. /\ x \in Seq(S) /\ Len(x) = n - 1
        /\ \A k \in 1..(n - 1) : x[k] = IF k < 1 THEN s[k] ELSE s[k + 1]
    <2>1. 1 \in 1..Len(s)
      OBVIOUS
    <2> QED
      BY <2>1, RemoveAtSeq, Zenon
  <1>2. u \in Seq(S) /\ Len(u) = n - 1 /\ \A k \in 1..(n - 1) : u[k] = s[k + 1]
    OBVIOUS
  <1> HIDE DEF x, u
  <1>3. x \in Seq(S) /\ u \in Seq(S) /\ Len(x) = Len(u) /\ \A k \in 1..Len(x) : x[k] = u[k]
    BY <1>1, <1>2
  <1>4. x = u
    BY <1>3, SeqEqual, Zenon
  <1> QED
    BY <1>4 DEF x, u

\* What a ring that repeats no frame becomes by a store.
LEMMA StoreEffect ==
  ASSUME NEW r \in Ring, WellFormed(r), IsInjective(Contents(r)), r.count < Capacity,
         NEW f \in Frames, f \notin Range(Contents(r))
  PROVE  /\ WellFormed(Write(r, f)) /\ IsInjective(Contents(Write(r, f)))
         /\ Range(Contents(Write(r, f))) = Range(Contents(r)) \cup {f}
  <1>1. Contents(r) \in Seq(Frames)
    BY ContentsType
  <1>2. WellFormed(Write(r, f)) /\ Contents(Write(r, f)) = Append(Contents(r), f)
    BY WriteLemma
  <1> QED
    BY <1>1, <1>2, InjectiveAppend, RangeAppend

\* ... and by the removal of one of its frames.
LEMMA RemoveEffect ==
  ASSUME NEW r \in Ring, WellFormed(r), IsInjective(Contents(r)), r.count = Capacity,
         NEW i \in Slots
  PROVE  LET w == RemoveNormal(r, i)
             x == r.buf[Slot(r.tail + i)]
         IN  /\ w \in Ring /\ WellFormed(w) /\ w.count < Capacity /\ IsInjective(Contents(w))
             /\ x \in Range(Contents(r))
             /\ Range(Contents(w)) = Range(Contents(r)) \ {x}
  <1> DEFINE w == RemoveNormal(r, i)
             c == Contents(r)
             x == r.buf[Slot(r.tail + i)]
  <1>1. /\ c \in Seq(Frames) /\ Len(c) = Capacity /\ DOMAIN c = 1..Capacity
        /\ \A k \in 1..Capacity : c[k] = r.buf[Slot(r.tail + (k - 1))]
    BY ContentsType
  <1>2. i \in 0..(Capacity - 1) /\ i + 1 \in 1..Len(c) /\ i + 1 \in DOMAIN c /\ (i + 1) - 1 = i
    BY <1>1 DEF Slots
  <1>3. /\ w \in Ring /\ WellFormed(w) /\ w.count = Capacity - 1
        /\ Contents(w) = RemoveAt(c, i + 1)
    BY <1>2, RemoveLemma
  <1>4. c[i + 1] = x
    BY <1>1, <1>2
  <1> HIDE DEF w, c, x
  <1>5. IsInjective(RemoveAt(c, i + 1)) /\ Range(RemoveAt(c, i + 1)) = Range(c) \ {c[i + 1]}
    BY <1>1, <1>2, InjectiveRemoveAt DEF c
  <1>6. w.count < Capacity
    BY <1>3
  <1>7. c[i + 1] \in Range(c)
    BY <1>2 DEF Range
  <1> QED
    BY <1>3, <1>4, <1>5, <1>6, <1>7 DEF w, c, x

\* What the rest of ring_push does with a frame that is not in the queue:
\* store it, put it in the place of another, or sleep.
LEMMA PushEffect ==
  ASSUME QueueIInv, WellFormed(q), IsInjective(Contents(q)),
         NEW p \in Pushers, NEW f \in Frames, f \notin Queued, PushLoop(p, f),
         ~(q.count = Capacity /\ NormalAt(q) = {} /\ f \in Alarms)
  PROVE  /\ WellFormed(q') /\ IsInjective(Contents(q'))
         /\ \/ /\ Queued' = Queued \cup {f} /\ lost' = lost
               /\ holding' = [holding EXCEPT ![p] = NoFrame]
            \/ /\ f \in Alarms
               /\ \E x \in Queued :
                     Queued' = (Queued \ {x}) \cup {f} /\ lost' = lost \cup {x}
               /\ holding' = [holding EXCEPT ![p] = NoFrame]
            \/ /\ Queued' = Queued /\ lost' = lost
               /\ holding' = [holding EXCEPT ![p] = f]
  <1>0. q \in Ring /\ q.count \in Nat /\ q.count <= Capacity
    BY DEF QueueIInv, BlockingTypeOK, Ring, WellFormed
  <1>1. CASE PushStore(p, f)
    <2>2. q.count < Capacity
      BY <1>0, <1>1 DEF PushStore
    <2>1. q' = Write(q, f) /\ lost' = lost /\ holding' = [holding EXCEPT ![p] = NoFrame]
      BY <1>0, <1>1, <2>2 DEF PushStore, Overwritten
    <2>3. WellFormed(q') /\ IsInjective(Contents(q')) /\ Queued' = Queued \cup {f}
      BY <1>0, <2>1, <2>2, StoreEffect DEF Queued
    <2> QED
      BY <2>1, <2>3
  <1>2. CASE PushAlarm(p, f)
    <2>1. q.count = Capacity /\ f \in Alarms /\ NormalAt(q) # {}
      BY <1>2 DEF PushAlarm
    <2>2. PICK i \in Slots : /\ q' = Write(DropOldestNormal(q, i), f)
                             /\ lost' = lost \cup DroppedFrame(q, i)
      BY <1>2 DEF PushAlarm
    <2> DEFINE w == RemoveNormal(q, i)
               x == q.buf[Slot(q.tail + i)]
    <2>3. q' = Write(w, f) /\ lost' = lost \cup {x}
      BY <2>1, <2>2 DEF DropOldestNormal, DroppedFrame
    <2>4. /\ w \in Ring /\ WellFormed(w) /\ w.count < Capacity /\ IsInjective(Contents(w))
          /\ x \in Queued /\ Range(Contents(w)) = Queued \ {x}
      BY <1>0, <2>1, RemoveEffect DEF Queued
    <2> HIDE DEF w, x
    <2>5. WellFormed(q') /\ IsInjective(Contents(q')) /\ Queued' = (Queued \ {x}) \cup {f}
      <3>1. f \notin Range(Contents(w))
        BY <2>4
      <3>2. /\ WellFormed(Write(w, f)) /\ IsInjective(Contents(Write(w, f)))
            /\ Range(Contents(Write(w, f))) = Range(Contents(w)) \cup {f}
        BY <2>4, <3>1, StoreEffect
      <3> QED
        BY <2>3, <2>4, <3>2 DEF Queued
    <2>6. holding' = [holding EXCEPT ![p] = NoFrame]
      BY <1>2 DEF PushAlarm
    <2> QED
      BY <2>1, <2>3, <2>4, <2>5, <2>6
  <1>3. CASE PushSleep(p, f)
    <2>1. q' = q /\ lost' = lost /\ holding' = [holding EXCEPT ![p] = f]
      BY <1>3 DEF PushSleep
    <2> QED
      BY <2>1 DEF Queued
  <1> QED
    BY <1>1, <1>2, <1>3 DEF PushLoop

\* What the step of a worker takes out of a ring that repeats no frame.
LEMMA TakeEffect ==
  ASSUME QueueIInv, WellFormed(q), IsInjective(Contents(q)), q.count > 0,
         q' = Take(q, 1)
  PROVE  /\ WellFormed(q') /\ IsInjective(Contents(q'))
         /\ q.buf[q.tail] \in Queued
         /\ Queued' = Queued \ {q.buf[q.tail]}
  <1> DEFINE c == Contents(q)
  <1>1. q \in Ring /\ q.count \in Nat /\ q.tail \in Slots /\ 1 \in 0..q.count /\ 1 \in 1..q.count
    BY DEF QueueIInv, BlockingTypeOK, Ring
  <1>2. /\ c \in Seq(Frames) /\ Len(c) = q.count /\ DOMAIN c = 1..q.count
        /\ c[1] = q.buf[Slot(q.tail + (1 - 1))]
    BY <1>1, ContentsType
  <1>3. Slot(q.tail + (1 - 1)) = q.tail
    BY <1>1 DEF Slots, Slot
  <1>4. WellFormed(q') /\ Contents(q') = SubSeq(c, 1 + 1, q.count)
    BY <1>1, TakeLemma
  <1> HIDE DEF c
  <1>5. Contents(q') = RemoveAt(c, 1)
    BY <1>1, <1>2, <1>4, TailIsRemoveAt
  <1>6. IsInjective(RemoveAt(c, 1)) /\ Range(RemoveAt(c, 1)) = Range(c) \ {c[1]}
    BY <1>1, <1>2, InjectiveRemoveAt DEF c
  <1>7. c[1] \in Range(c)
    BY <1>1, <1>2 DEF Range
  <1> QED
    BY <1>2, <1>3, <1>4, <1>5, <1>6, <1>7 DEF c, Queued

\* A thread begins to hold a frame that none holds, or holds none still.
LEMMA HoldFrame ==
  ASSUME BlockingTypeOK, HoldsIInv, NEW p \in Pushers, holding[p] = NoFrame,
         NEW f \in Frames, f \notin Held
  PROVE  /\ holding' = [holding EXCEPT ![p] = f] => HoldsIInv' /\ Held' = Held \cup {f}
         /\ holding' = [holding EXCEPT ![p] = NoFrame] => HoldsIInv' /\ Held' = Held
  <1>1. /\ holding \in [Pushers -> Frames \cup {NoFrame}] /\ f # NoFrame
        /\ \A r \in Pushers : holding[r] # f
    BY DEF BlockingTypeOK, Held
  <1>2. ASSUME holding' = [holding EXCEPT ![p] = f]
        PROVE  HoldsIInv' /\ Held' = Held \cup {f}
    BY <1>1, <1>2 DEF HoldsIInv, Held
  <1>3. ASSUME holding' = [holding EXCEPT ![p] = NoFrame]
        PROVE  HoldsIInv' /\ Held' = Held
    <2>1. holding' = holding
      BY <1>1, <1>3
    <2> QED
      BY <2>1 DEF HoldsIInv, Held
  <1> QED
    BY <1>2, <1>3

\* A thread that holds a frame goes on holding it, or leaves it.
LEMMA LeaveFrame ==
  ASSUME BlockingTypeOK, HoldsIInv, NEW p \in Pushers, NEW f \in Frames, holding[p] = f
  PROVE  /\ holding' = [holding EXCEPT ![p] = f] => HoldsIInv' /\ Held' = Held
         /\ holding' = [holding EXCEPT ![p] = NoFrame]
              => HoldsIInv' /\ Held' = Held \ {f}
  <1>1. holding \in [Pushers -> Frames \cup {NoFrame}] /\ f # NoFrame
    BY DEF BlockingTypeOK
  <1>2. ASSUME holding' = [holding EXCEPT ![p] = f]
        PROVE  HoldsIInv' /\ Held' = Held
    <2>1. holding' = holding
      BY <1>1, <1>2
    <2> QED
      BY <2>1 DEF HoldsIInv, Held
  <1>3. ASSUME holding' = [holding EXCEPT ![p] = NoFrame]
        PROVE  HoldsIInv' /\ Held' = Held \ {f}
    <2>1. \A r \in Pushers : holding'[r] = IF r = p THEN NoFrame ELSE holding[r]
      BY <1>1, <1>3
    <2>2. \A r \in Pushers : r # p => holding[r] # f
      BY <1>1 DEF HoldsIInv
    <2> QED
      BY <1>1, <2>1, <2>2 DEF HoldsIInv, Held
  <1> QED
    BY <1>2, <1>3

\* The places after a call of ring_push with a fresh frame.
LEMMA RingPushPlaces ==
  ASSUME AccountIInv, ~overran', NEW p \in Pushers, NEW f,
         RingPush(p, f), UNCHANGED <<hand, ran>>
  PROVE  HoldsIInv' /\ PlacesIInv'
  <1>1. /\ f \in Frames /\ f \notin offered /\ offered' = offered \cup {f}
        /\ holding[p] = NoFrame /\ PushLoop(p, f)
    BY DEF RingPush, Offer
  <1>2. QueueIInv /\ BlockingTypeOK /\ WellFormed(q) /\ IsInjective(Contents(q)) /\ HoldsIInv
    BY DEF AccountIInv, LossIInv, TypeIInv, PoolTypeOK, QueueIInv, PlacesIInv
  <1>3. f \notin Queued /\ f \notin Held /\ f \notin InHand /\ f \notin ran /\ f \notin lost
    BY <1>1 DEF AccountIInv, PlacesIInv
  <1>4. ~(q.count = Capacity /\ NormalAt(q) = {} /\ f \in Alarms)
    <2> SUFFICES ASSUME q.count = Capacity, NormalAt(q) = {}, f \in Alarms PROVE FALSE
      OBVIOUS
    <2>1. q' = Write(q, f)
      BY <1>1 DEF PushLoop, PushStore, PushAlarm, PushSleep, DropOldestNormal
    <2>2. q'.count > Capacity
      BY <2>1 DEF Write
    <2> QED
      BY <1>1, <2>2 DEF PushLoop
  <1>5. /\ WellFormed(q') /\ IsInjective(Contents(q'))
        /\ \/ /\ Queued' = Queued \cup {f} /\ lost' = lost
              /\ holding' = [holding EXCEPT ![p] = NoFrame]
           \/ /\ f \in Alarms
              /\ \E x \in Queued :
                    Queued' = (Queued \ {x}) \cup {f} /\ lost' = lost \cup {x}
              /\ holding' = [holding EXCEPT ![p] = NoFrame]
           \/ /\ Queued' = Queued /\ lost' = lost
              /\ holding' = [holding EXCEPT ![p] = f]
    BY <1>1, <1>2, <1>3, <1>4, PushEffect
  <1>6. InHand' = InHand /\ ran' = ran
    BY DEF InHand
  <1>7. /\ holding' = [holding EXCEPT ![p] = f] => HoldsIInv' /\ Held' = Held \cup {f}
        /\ holding' = [holding EXCEPT ![p] = NoFrame] => HoldsIInv' /\ Held' = Held
    BY <1>1, <1>2, <1>3, HoldFrame
  <1>8. PlacesIInv
    BY DEF AccountIInv
  <1>9. CASE Queued' = Queued \cup {f} /\ lost' = lost /\ HoldsIInv' /\ Held' = Held
    BY <1>1, <1>3, <1>5, <1>6, <1>8, <1>9 DEF PlacesIInv
  <1>10. ASSUME NEW x \in Queued, Queued' = (Queued \ {x}) \cup {f}, lost' = lost \cup {x},
                HoldsIInv', Held' = Held
         PROVE  HoldsIInv' /\ PlacesIInv'
    BY <1>1, <1>3, <1>5, <1>6, <1>8, <1>10 DEF PlacesIInv
  <1>11. CASE Queued' = Queued /\ lost' = lost /\ HoldsIInv' /\ Held' = Held \cup {f}
    BY <1>1, <1>3, <1>5, <1>6, <1>8, <1>11 DEF PlacesIInv
  <1> QED
    BY <1>5, <1>7, <1>9, <1>10, <1>11

\* The places after a thread was woken in ring_push: what it holds is a task,
\* which displaces nothing.
LEMMA PushAgainPlaces ==
  ASSUME AccountIInv, NEW p \in Pushers, RingPushAgain(p), UNCHANGED <<hand, ran>>
  PROVE  HoldsIInv' /\ PlacesIInv'
  <1> DEFINE f == holding[p]
  <1>1. /\ f \in Frames /\ f \notin Alarms /\ f \in Held
        /\ offered' = offered /\ PushLoop(p, f)
    BY DEF RingPushAgain, AccountIInv, LossIInv, SleepersHoldTasks, TypeIInv, PoolTypeOK,
       BlockingTypeOK, Held
  <1> HIDE DEF f
  <1>2. QueueIInv /\ BlockingTypeOK /\ WellFormed(q) /\ IsInjective(Contents(q)) /\ HoldsIInv
    BY DEF AccountIInv, LossIInv, TypeIInv, PoolTypeOK, QueueIInv, PlacesIInv
  <1>3. f \notin Queued /\ f \notin InHand /\ f \notin ran /\ f \notin lost
    BY <1>1 DEF AccountIInv, PlacesIInv
  <1>4. /\ WellFormed(q') /\ IsInjective(Contents(q'))
        /\ \/ /\ Queued' = Queued \cup {f} /\ lost' = lost
              /\ holding' = [holding EXCEPT ![p] = NoFrame]
           \/ /\ Queued' = Queued /\ lost' = lost
              /\ holding' = [holding EXCEPT ![p] = f]
    BY <1>1, <1>2, <1>3, PushEffect
  <1>5. InHand' = InHand /\ ran' = ran
    BY DEF InHand
  <1>6. /\ holding' = [holding EXCEPT ![p] = f] => HoldsIInv' /\ Held' = Held
        /\ holding' = [holding EXCEPT ![p] = NoFrame] => HoldsIInv' /\ Held' = Held \ {f}
    BY <1>1, <1>2, LeaveFrame DEF f
  <1>7. PlacesIInv
    BY DEF AccountIInv
  <1>8. CASE Queued' = Queued \cup {f} /\ lost' = lost /\ HoldsIInv' /\ Held' = Held \ {f}
    BY <1>1, <1>3, <1>4, <1>5, <1>7, <1>8 DEF PlacesIInv
  <1>9. CASE Queued' = Queued /\ lost' = lost /\ HoldsIInv' /\ Held' = Held
    BY <1>1, <1>3, <1>4, <1>5, <1>7, <1>9 DEF PlacesIInv
  <1> QED
    BY <1>4, <1>6, <1>8, <1>9

\* A thread that runs and is not at work moves on.
LEMMA MoveKeepsHands ==
  ASSUME AccountIInv, NEW t \in Pushers, NEW place \in WorkerAt \cup SubmitterAt,
         Goto(t, place), pc[t] \notin {"work", "none"}, UNCHANGED <<hand, workers>>
  PROVE  HandsIInv'
  <1>1. /\ pc'[t] = place
        /\ \A u \in Pushers : u # t => pc'[u] = pc[u]
    BY GotoType DEF AccountIInv, LossIInv, TypeIInv, PoolTypeOK
  <1>2. \A w \in Poppers : pc'[w] # "none" => w \in workers'
    BY <1>1, WorkersPush DEF AccountIInv, HandsIInv
  <1>3. \A w \in Poppers : hand'[w] # NoFrame => pc'[w] = "work"
    BY <1>1, WorkersPush DEF AccountIInv, HandsIInv
  <1>4. \A v, w \in Poppers : hand'[v] = hand'[w] => v = w \/ hand'[v] = NoFrame
    BY DEF AccountIInv, HandsIInv
  <1> QED
    BY <1>2, <1>3, <1>4 DEF HandsIInv

\* A worker leaves.
LEMMA UnlinkKeepsHands ==
  ASSUME AccountIInv, NEW w \in Poppers, Unlink(w), pc[w] = "leave", UNCHANGED hand
  PROVE  HandsIInv'
  <1>1. /\ pc'[w] = "none" /\ workers' = workers \ {w}
        /\ \A u \in Pushers : u # w => pc'[u] = pc[u]
    <2>1. Goto(w, "none") /\ w \in Pushers /\ "none" \in WorkerAt \cup SubmitterAt
      BY WorkersPush DEF Unlink, WorkerAt
    <2> QED
      BY <2>1, GotoType DEF AccountIInv, LossIInv, TypeIInv, PoolTypeOK, Unlink
  <1>2. \A v \in Poppers : pc'[v] # "none" => v \in workers'
    BY <1>1, WorkersPush DEF AccountIInv, HandsIInv
  <1>3. \A v \in Poppers : hand'[v] # NoFrame => pc'[v] = "work"
    BY <1>1, WorkersPush DEF AccountIInv, HandsIInv
  <1>4. \A u, v \in Poppers : hand'[u] = hand'[v] => u = v \/ hand'[u] = NoFrame
    BY DEF AccountIInv, HandsIInv
  <1> QED
    BY <1>2, <1>3, <1>4 DEF HandsIInv

\* A worker takes a frame: it is in its hand and no longer in the queue.
LEMMA TakePlaces ==
  ASSUME AccountIInv, NEW w \in Poppers, TakeFrame(w)
  PROVE  HandsIInv' /\ HoldsIInv' /\ PlacesIInv'
  <1> DEFINE x == q.buf[q.tail]
  <1>1. QueueIInv /\ WellFormed(q) /\ IsInjective(Contents(q)) /\ w \in Pushers
    BY WorkersPush DEF AccountIInv, LossIInv, TypeIInv, PoolTypeOK, QueueIInv, PlacesIInv
  <1>2. /\ pc[w] = "take" /\ q.count > 0 /\ q' = Take(q, 1)
        /\ hand' = [hand EXCEPT ![w] = x] /\ Goto(w, "work")
        /\ UNCHANGED <<offered, lost, holding, workers, ran>>
    BY DEF TakeFrame, TakeInto, history
  <1>3. /\ WellFormed(q') /\ IsInjective(Contents(q'))
        /\ x \in Queued /\ Queued' = Queued \ {x} /\ x \in Frames
    BY <1>1, <1>2, TakeEffect, TakeIsFrame
  <1>4. x # NoFrame /\ x \notin InHand /\ x \notin ran /\ x \notin lost /\ x \notin Held
    BY <1>3 DEF AccountIInv, PlacesIInv
  <1> HIDE DEF x
  <1>5. /\ hand \in [Poppers -> Frames \cup {NoFrame}] /\ hand[w] = NoFrame
        /\ \A v \in Poppers : hand'[v] = IF v = w THEN x ELSE hand[v]
    <2>1. hand \in [Poppers -> Frames \cup {NoFrame}]
      BY DEF AccountIInv, LossIInv, TypeIInv, PoolTypeOK
    <2>2. hand[w] = NoFrame
      BY <1>2 DEF AccountIInv, HandsIInv
    <2> QED
      BY <1>2, <2>1, <2>2
  <1>6. \A v \in Poppers : hand[v] # x
    BY <1>4 DEF InHand
  <1>7. InHand' = InHand \cup {x}
    BY <1>4, <1>5 DEF InHand
  <1>8. HandsIInv'
    <2>1. /\ pc'[w] = "work"
          /\ \A u \in Pushers : u # w => pc'[u] = pc[u]
      <3>1. "work" \in WorkerAt \cup SubmitterAt
        BY DEF WorkerAt
      <3> QED
        BY <1>1, <1>2, <3>1, GotoType DEF AccountIInv, LossIInv, TypeIInv, PoolTypeOK
    <2>2. \A v \in Poppers : pc'[v] # "none" => v \in workers'
      BY <1>2, <2>1, WorkersPush DEF AccountIInv, HandsIInv
    <2>3. \A v \in Poppers : hand'[v] # NoFrame => pc'[v] = "work"
      BY <1>5, <2>1, WorkersPush DEF AccountIInv, HandsIInv
    <2>4. \A u, v \in Poppers : hand'[u] = hand'[v] => u = v \/ hand'[u] = NoFrame
      BY <1>5, <1>6 DEF AccountIInv, HandsIInv
    <2> QED
      BY <2>2, <2>3, <2>4 DEF HandsIInv
  <1>9. Held' = Held /\ HoldsIInv'
    BY <1>2 DEF Held, HoldsIInv, AccountIInv
  <1>10. PlacesIInv
    BY DEF AccountIInv
  <1>11. PlacesIInv'
    BY <1>2, <1>3, <1>4, <1>7, <1>9, <1>10 DEF PlacesIInv
  <1> QED
    BY <1>8, <1>9, <1>11

\* A worker is done with the frame in its hand: a task has run, a command is
\* gone.
LEMMA WorkPlaces ==
  ASSUME AccountIInv, NEW w \in Poppers, RunTask(w) \/ ScaleUp(w) \/ ScaleDown(w)
  PROVE  HandsIInv' /\ HoldsIInv' /\ PlacesIInv'
  <1> DEFINE f == hand[w]
  <1>1. /\ w \in Pushers /\ pc[w] = "work" /\ hand' = [hand EXCEPT ![w] = NoFrame]
        /\ UNCHANGED bvars
    BY WorkersPush DEF RunTask, ScaleUp, ScaleDown, Working
  <1>2. f \in Frames /\ f # NoFrame /\ w \in workers
    <2>1. f \in Frames
      BY <1>1 DEF AccountIInv, LossIInv, TypeIInv, AtWork
    <2> QED
      BY <1>1, <2>1 DEF AccountIInv, HandsIInv
  <1>3. \/ f \in Alarms /\ ran' = ran
        \/ ran' = ran \cup {f}
    BY PoolAssumption DEF RunTask, ScaleUp, ScaleDown
  <1>4. /\ hand \in [Poppers -> Frames \cup {NoFrame}]
        /\ \A v \in Poppers : hand'[v] = IF v = w THEN NoFrame ELSE hand[v]
        /\ \A v \in Poppers : v # w => hand[v] # f
    <2>1. hand \in [Poppers -> Frames \cup {NoFrame}]
      BY DEF AccountIInv, LossIInv, TypeIInv, PoolTypeOK
    <2>2. \A v \in Poppers : v # w => hand[v] # f
      BY <1>2 DEF AccountIInv, HandsIInv
    <2> QED
      BY <1>1, <2>1, <2>2
  <1>5. InHand' = InHand \ {f} /\ f \in InHand
    BY <1>2, <1>4 DEF InHand
  <1>6. HandsIInv'
    <2>1. \A v \in Poppers : pc'[v] # "none" => v \in workers'
      <3>1. CASE Unlink(w)
        BY <1>1, <3>1, WorkersPush
        DEF Unlink, Goto, AccountIInv, HandsIInv, LossIInv, TypeIInv, PoolTypeOK
      <3>2. CASE Goto(w, "check") /\ UNCHANGED workers
        BY <1>1, <1>2, <3>2, WorkersPush
        DEF Goto, AccountIInv, HandsIInv, LossIInv, TypeIInv, PoolTypeOK
      <3>3. ASSUME NEW n \in Poppers \ workers, workers' = workers \cup {n},
                   pc' = [pc EXCEPT ![w] = "check", ![n] = "check"]
            PROVE  \A v \in Poppers : pc'[v] # "none" => v \in workers'
        BY <1>1, <1>2, <3>3, WorkersPush
        DEF AccountIInv, HandsIInv, LossIInv, TypeIInv, PoolTypeOK
      <3> QED
        BY <3>1, <3>2, <3>3 DEF RunTask, ScaleUp, ScaleDown
    <2>2. \A v \in Poppers : v # w /\ pc[v] = "work" => pc'[v] = "work"
      <3>1. CASE Unlink(w) \/ Goto(w, "check")
        BY <1>1, <3>1, WorkersPush
        DEF Unlink, Goto, AccountIInv, LossIInv, TypeIInv, PoolTypeOK
      <3>2. ASSUME NEW n \in Poppers \ workers,
                   pc' = [pc EXCEPT ![w] = "check", ![n] = "check"]
            PROVE  \A v \in Poppers : v # w /\ pc[v] = "work" => pc'[v] = "work"
        <4>1. pc[n] = "none"
          BY DEF AccountIInv, HandsIInv
        <4> QED
          BY <1>1, <3>2, <4>1, WorkersPush DEF AccountIInv, LossIInv, TypeIInv, PoolTypeOK
      <3> QED
        BY <3>1, <3>2 DEF RunTask, ScaleUp, ScaleDown
    <2>3. \A v \in Poppers : hand'[v] # NoFrame => pc'[v] = "work"
      BY <1>4, <2>2 DEF AccountIInv, HandsIInv
    <2>4. \A u, v \in Poppers : hand'[u] = hand'[v] => u = v \/ hand'[u] = NoFrame
      BY <1>4 DEF AccountIInv, HandsIInv
    <2> QED
      BY <2>1, <2>3, <2>4 DEF HandsIInv
  <1>7. UNCHANGED <<q, offered, lost, holding>>
    BY <1>1 DEF bvars, vars, history
  <1>8. Held' = Held /\ HoldsIInv' /\ Queued' = Queued
    BY <1>7 DEF Held, HoldsIInv, AccountIInv, Queued
  <1>9. PlacesIInv /\ WellFormed(q') /\ IsInjective(Contents(q'))
    BY <1>7 DEF AccountIInv, PlacesIInv
  <1> HIDE DEF f
  <1>10. CASE f \in Alarms /\ ran' = ran
    <2>1. f \notin Tasks
      BY <1>10 DEF Tasks
    <2>2. PlacesIInv'
      BY <1>5, <1>7, <1>8, <1>9, <1>10, <2>1 DEF PlacesIInv
    <2> QED
      BY <1>6, <1>8, <2>2
  <1>11. CASE ran' = ran \cup {f}
    <2>1. PlacesIInv'
      BY <1>5, <1>7, <1>8, <1>9, <1>11 DEF PlacesIInv
    <2> QED
      BY <1>6, <1>8, <2>1
  <1> QED
    BY <1>3, <1>10, <1>11

\* tp_destroy frees the frames of the queue: they are lost, and nowhere else.
LEMMA FreePlaces ==
  ASSUME AccountIInv, FreeQueue
  PROVE  HandsIInv' /\ HoldsIInv' /\ PlacesIInv'
  <1>1. /\ q' = Take(q, q.count) /\ lost' = lost \cup Queued
        /\ UNCHANGED <<offered, holding, workers, pc, hand, ran>>
    BY DEF FreeQueue, Queued
  <1>2. q \in Ring /\ WellFormed(q) /\ q.count \in Nat /\ q.count \in 0..q.count
    BY DEF AccountIInv, LossIInv, TypeIInv, PoolTypeOK, BlockingTypeOK, PlacesIInv, Ring
  <1>3. WellFormed(q')
    BY <1>1, <1>2, TakeLemma
  <1>4. DOMAIN Contents(q') = {}
    <2>1. q'.count = 0
      BY <1>1, <1>2 DEF Take, Ring
    <2> QED
      BY <2>1 DEF Contents
  <1>5. IsInjective(Contents(q')) /\ Queued' = {}
    BY <1>4 DEF IsInjective, Queued, Range
  <1>6. HandsIInv' /\ HoldsIInv' /\ Held' = Held /\ InHand' = InHand
    BY <1>1 DEF AccountIInv, HandsIInv, HoldsIInv, Held, InHand
  <1>7. PlacesIInv
    BY DEF AccountIInv
  <1>8. PlacesIInv'
    BY <1>1, <1>3, <1>5, <1>6, <1>7 DEF PlacesIInv
  <1> QED
    BY <1>6, <1>8

\* What stays where it is.
LEMMA StayPlaces ==
  ASSUME AccountIInv, UNCHANGED <<q, offered, lost, holding, hand, ran>>
  PROVE  HoldsIInv' /\ PlacesIInv'
  <1>1. Queued' = Queued /\ Held' = Held /\ InHand' = InHand /\ HoldsIInv'
    BY DEF Queued, Held, InHand, HoldsIInv, AccountIInv
  <1>2. PlacesIInv /\ WellFormed(q') /\ IsInjective(Contents(q'))
    BY DEF AccountIInv, PlacesIInv
  <1>3. PlacesIInv'
    BY <1>1, <1>2 DEF PlacesIInv
  <1> QED
    BY <1>1, <1>3

\* Every step keeps the accounts, as long as it does not overrun the queue.
LEMMA NextAccount ==
  ASSUME AccountIInv, ~overran', [PoolNext]_pvars
  PROVE  AccountIInv'
  <1>1. LossIInv'
    BY NextLoss DEF AccountIInv
  <1> SUFFICES HandsIInv' /\ HoldsIInv' /\ PlacesIInv'
    BY <1>1 DEF AccountIInv
  <1>2. ASSUME NEW s \in Submitters,
               TpSubmit(s) \/ SubmitAgain(s) \/ ReadLevel(s) \/ CountLevel(s)
                 \/ OnHighWater(s)
        PROVE  HandsIInv' /\ HoldsIInv' /\ PlacesIInv'
    <2>2. s \in Pushers /\ SubmitterAt \subseteq WorkerAt \cup SubmitterAt
      BY PoolAssumption
    <2>3. /\ \E place \in SubmitterAt : Goto(s, place)
          /\ UNCHANGED <<workers, hand, ran>> /\ pc[s] \notin {"work", "none"}
      <3>1. CASE TpSubmit(s) \/ SubmitAgain(s)
        BY <3>1 DEF TpSubmit, SubmitAgain, AfterPush, Goto, SubmitterAt
      <3>2. CASE ReadLevel(s)
        BY <3>2 DEF ReadLevel, SubmitterAt
      <3>3. CASE CountLevel(s)
        BY <3>3 DEF CountLevel, SubmitterAt
      <3>4. CASE OnHighWater(s)
        BY <3>4 DEF OnHighWater, SubmitterAt
      <3> QED
        BY <1>2, <3>1, <3>2, <3>3, <3>4
    <2>4. HandsIInv'
      BY <2>2, <2>3, MoveKeepsHands
    <2>5. HoldsIInv' /\ PlacesIInv'
      <3>1. CASE TpSubmit(s) \/ OnHighWater(s)
        BY <2>2, <2>3, <3>1, RingPushPlaces DEF TpSubmit, OnHighWater
      <3>2. CASE SubmitAgain(s)
        BY <2>2, <2>3, <3>2, PushAgainPlaces DEF SubmitAgain
      <3>3. CASE ReadLevel(s) \/ CountLevel(s)
        BY <3>3, StayPlaces DEF ReadLevel, CountLevel, bvars, vars, history
      <3> QED
        BY <1>2, <3>1, <3>2, <3>3
    <2> QED
      BY <2>4, <2>5
  <1>3. ASSUME NEW w \in Poppers, WorkerStep(w)
        PROVE  HandsIInv' /\ HoldsIInv' /\ PlacesIInv'
    <2>1. w \in Pushers /\ {"check", "take", "wait", "idle", "low", "leave"}
                              \subseteq WorkerAt \cup SubmitterAt
      BY WorkersPush DEF WorkerAt
    <2>2. CASE CheckShutdown(w) \/ TakeWait(w) \/ WaitReturns(w) \/ IdleTimeout(w)
      <3>1. /\ \E place \in {"check", "take", "wait", "idle", "low", "leave"} : Goto(w, place)
            /\ pc[w] \notin {"work", "none"} /\ UNCHANGED <<workers, hand>>
        BY <2>2 DEF CheckShutdown, TakeWait, WaitReturns, IdleTimeout
      <3>2. HandsIInv'
        BY <2>1, <3>1, MoveKeepsHands
      <3>3. UNCHANGED <<q, offered, lost, holding, hand, ran>>
        BY <2>2 DEF CheckShutdown, TakeWait, WaitReturns, IdleTimeout, bvars, vars, history
      <3> QED
        BY <3>2, <3>3, StayPlaces
    <2>3. CASE OnLowWater(w)
      <3>1. Goto(w, "check") /\ pc[w] \notin {"work", "none"} /\ UNCHANGED <<workers, hand, ran>>
        BY <2>3 DEF OnLowWater
      <3>2. HandsIInv'
        BY <2>1, <3>1, MoveKeepsHands
      <3>3. HoldsIInv' /\ PlacesIInv'
        BY <2>1, <2>3, <3>1, RingPushPlaces DEF OnLowWater
      <3> QED
        BY <3>2, <3>3
    <2>4. CASE Leave(w)
      <3>1. HandsIInv'
        BY <2>4, UnlinkKeepsHands DEF Leave
      <3>2. HoldsIInv' /\ PlacesIInv'
        BY <2>4, StayPlaces DEF Leave, bvars, vars, history
      <3> QED
        BY <3>1, <3>2
    <2>5. CASE TakeFrame(w)
      BY <2>5, TakePlaces
    <2>6. CASE RunTask(w) \/ ScaleUp(w) \/ ScaleDown(w)
      BY <2>6, WorkPlaces
    <2> QED
      BY <1>3, <2>2, <2>3, <2>4, <2>5, <2>6 DEF WorkerStep
  <1>4. ASSUME UNCHANGED <<q, offered, lost, holding, hand, ran, workers, pc>>
        PROVE  HandsIInv' /\ HoldsIInv' /\ PlacesIInv'
    <2>1. HandsIInv'
      BY <1>4 DEF HandsIInv, AccountIInv
    <2> QED
      BY <1>4, <2>1, StayPlaces
  <1>5. CASE TpDestroy
    <2>1. CASE SetShutdown
      BY <1>4, <2>1 DEF SetShutdown, bvars, vars, history
    <2>2. CASE WakeAll
      BY <1>4, <2>2 DEF WakeAll, history
    <2>3. CASE Drain \/ RingDestroy
      BY <2>3, FreePlaces DEF Drain, RingDestroy
    <2> QED
      BY <1>5, <2>1, <2>2, <2>3 DEF TpDestroy
  <1>6. CASE UNCHANGED pvars
    BY <1>4, <1>6 DEF pvars, pool, bvars, vars, history
  <1> QED
    BY <1>2, <1>3, <1>5, <1>6 DEF PoolNext

\* tp_init: all places are empty.
LEMMA InitAccount == PoolInit => AccountIInv
  <1> SUFFICES ASSUME PoolInit PROVE AccountIInv
    OBVIOUS
  <1>1. LossIInv
    BY InitLoss
  <1>2. /\ q = EmptyRing /\ offered = {} /\ lost = {} /\ ran = {}
        /\ holding = [p \in Pushers |-> NoFrame] /\ hand = [w \in Poppers |-> NoFrame]
    BY DEF PoolInit, BlockingInit, Init
  <1>3. HandsIInv
    <2>1. \A w \in Poppers : pc[w] # "none" => w \in workers
      BY WorkersPush DEF PoolInit
    <2> QED
      BY <1>2, <2>1 DEF HandsIInv
  <1>4. HoldsIInv /\ Held = {} /\ InHand = {}
    BY <1>2 DEF HoldsIInv, Held, InHand
  <1>5. WellFormed(q)
    BY InitRing DEF PoolInit, BlockingInit, RingIInv, RingInv
  <1>6. IsInjective(Contents(q)) /\ Queued = {}
    <2>1. Contents(q) = << >> /\ Range(<< >>) = {} /\ DOMAIN << >> = {}
      BY <1>2, EmptyContents
    <2> QED
      BY <2>1 DEF IsInjective, Queued
  <1>7. PlacesIInv
    BY <1>2, <1>4, <1>5, <1>6 DEF PlacesIInv
  <1> QED
    BY <1>1, <1>3, <1>4, <1>7 DEF AccountIInv

\* The four places of TasksAccounted.
LEMMA AccountedByPlaces == PlacesIInv => TasksAccounted
  <1> SUFFICES ASSUME PlacesIInv PROVE TasksAccounted
    OBVIOUS
  <1> DEFINE places == <<Queued, InHand, ran, lost>>
  <1>1. DOMAIN places = 1..4
    OBVIOUS
  <1>2. Range(places) = {Queued, InHand, ran, lost}
    BY <1>1 DEF Range
  <1>3. UNION Range(places) = Queued \cup InHand \cup ran \cup lost
    BY <1>2
  <1>4. Tasks \cap (offered \ Held) = Tasks \cap UNION Range(places)
    BY <1>3 DEF PlacesIInv
  <1>5. \A i, j \in DOMAIN places : i # j => places[i] \cap places[j] = {}
    BY <1>1 DEF PlacesIInv
  <1> QED
    BY <1>4, <1>5 DEF TasksAccounted, Queued

\* The ring that is overrun holds Capacity different commands, and the one that
\* overruns it is another.
LEMMA OverrunLemma ==
  ASSUME AccountIInv, ~overran, overran', NEW p \in Pushers, NEW f, RingPush(p, f)
  PROVE  Cardinality(Alarms \cap offered') > Capacity
  <1> DEFINE c == Contents(q)
  <1>1. /\ f \in Frames /\ f \notin offered /\ offered' = offered \cup {f}
        /\ PushLoop(p, f) /\ q'.count > Capacity
    BY DEF RingPush, Offer, PushLoop
  <1>2. /\ q \in Ring /\ WellFormed(q) /\ IsInjective(c) /\ Range(c) \subseteq offered
        /\ q.count \in Nat /\ q.count <= Capacity
    BY DEF AccountIInv, LossIInv, TypeIInv, PoolTypeOK, BlockingTypeOK, PlacesIInv, Queued,
       Ring, WellFormed
  <1>3. q.count = Capacity /\ NormalAt(q) = {} /\ f \in Alarms
    <2>1. CASE PushStore(p, f)
      BY <1>1, <1>2, <2>1 DEF PushStore, Write
    <2>2. CASE PushSleep(p, f)
      BY <1>1, <1>2, <2>2 DEF PushSleep
    <2>3. CASE PushAlarm(p, f)
      <3>1. q.count = Capacity /\ f \in Alarms
        BY <2>3 DEF PushAlarm
      <3>2. ASSUME NormalAt(q) # {} PROVE FALSE
        <4>1. q'.count = (q.count - 1) + 1
          BY <2>3, <3>2 DEF PushAlarm, DropOldestNormal, RemoveNormal, Write
        <4> QED
          BY <1>1, <3>1, <4>1
      <3> QED
        BY <3>1, <3>2
    <2> QED
      BY <1>1, <2>1, <2>2, <2>3 DEF PushLoop
  <1>4. /\ c \in Seq(Frames) /\ Len(c) = Capacity /\ DOMAIN c = 1..Capacity
        /\ \A i \in 1..Capacity : c[i] = q.buf[Slot(q.tail + (i - 1))]
    BY <1>2, <1>3, ContentsType
  <1>5. Range(c) \subseteq Alarms
    <2> SUFFICES ASSUME NEW i \in 1..Capacity PROVE c[i] \in Alarms
      BY <1>4 DEF Range
    <2>1. i - 1 \in 0..(q.count - 1)
      BY <1>3
    <2> QED
      BY <1>3, <1>4, <2>1 DEF NormalAt
  <1> HIDE DEF c
  <1>6. IsFiniteSet(Range(c)) /\ Cardinality(Range(c)) = Capacity
    <2>1. c \in [1..Capacity -> Range(c)]
      BY <1>4 DEF Range
    <2>2. c \in Injection(1..Capacity, Range(c))
      BY <1>2, <1>4, <2>1 DEF Injection, IsInjective
    <2>3. c \in Surjection(1..Capacity, Range(c))
      BY <1>4, <2>1 DEF Surjection, Range
    <2>4. IsFiniteSet(1..Capacity) /\ Cardinality(1..Capacity) = Capacity
      BY FS_Interval
    <2> QED
      BY <2>2, <2>3, <2>4, FS_Surjection
  <1> DEFINE before == Alarms \cap offered
  <1>7. IsFiniteSet(before) /\ Cardinality(before) \in Nat
    BY FS_Subset, FS_CardinalityType DEF AccountIInv, LossIInv
  <1>8. Capacity <= Cardinality(before)
    <2>1. Range(c) \in SUBSET before
      BY <1>2, <1>5
    <2> HIDE DEF before
    <2> QED
      BY <1>6, <1>7, <2>1, FS_Subset
  <1>9. Alarms \cap offered' = before \cup {f} /\ f \notin before
    BY <1>1, <1>3
  <1> HIDE DEF before
  <1>10. Cardinality(before \cup {f}) = Cardinality(before) + 1
    BY <1>7, <1>9, FS_AddElement
  <1> QED
    BY <1>7, <1>8, <1>9, <1>10

\* A thread that goes on in ring_push holds a task: it overruns nothing.
LEMMA AgainOverrunsNot ==
  ASSUME AccountIInv, ~overran, NEW p \in Pushers, RingPushAgain(p)
  PROVE  ~overran'
  <1>1. /\ q.count \in Nat /\ q.count <= Capacity /\ holding[p] \notin Alarms
        /\ PushLoop(p, holding[p])
    BY DEF AccountIInv, LossIInv, SleepersHoldTasks, Bounded, TypeIInv, PoolTypeOK,
       BlockingTypeOK, Ring, RingPushAgain
  <1>2. q'.count <= Capacity /\ q'.count \in Nat
    <2>1. CASE PushStore(p, holding[p])
      BY <1>1, <2>1 DEF PushStore, Write
    <2>2. CASE PushSleep(p, holding[p])
      BY <1>1, <2>2 DEF PushSleep
    <2> QED
      BY <1>1, <2>1, <2>2 DEF PushLoop, PushAlarm
  <1>3. overran' = (overran \/ q'.count > Capacity)
    BY <1>1 DEF PushLoop
  <1>4. ~(q'.count > Capacity)
    BY <1>2, CapacityPositive
  <1> QED
    BY <1>3, <1>4, Zenon

\* Who can change what overran and offered say.
LEMMA OnlyPushes ==
  ASSUME [PoolNext]_pvars
  PROVE  \/ UNCHANGED <<offered, overran>>
         \/ \E p \in Pushers : RingPushAgain(p) \/ \E f : RingPush(p, f)
  <1>1. ASSUME NEW s \in Submitters,
               TpSubmit(s) \/ SubmitAgain(s) \/ ReadLevel(s) \/ CountLevel(s)
                 \/ OnHighWater(s)
        PROVE  \/ UNCHANGED <<offered, overran>>
               \/ \E p \in Pushers : RingPushAgain(p) \/ \E f : RingPush(p, f)
    <2>1. s \in Pushers
      BY PoolAssumption
    <2> QED
      BY <1>1, <2>1 DEF TpSubmit, SubmitAgain, ReadLevel, CountLevel, OnHighWater, bvars,
         vars, history
  <1>2. ASSUME NEW w \in Poppers, WorkerStep(w)
        PROVE  \/ UNCHANGED <<offered, overran>>
               \/ \E p \in Pushers : RingPushAgain(p) \/ \E f : RingPush(p, f)
    <2>1. w \in Pushers
      BY WorkersPush
    <2>2. CASE OnLowWater(w)
      BY <2>1, <2>2 DEF OnLowWater
    <2>3. CASE TakeFrame(w) \/ TakeWait(w) \/ WaitReturns(w)
      BY <2>3 DEF TakeFrame, TakeInto, TakeWait, WaitReturns, history
    <2>4. CASE CheckShutdown(w) \/ IdleTimeout(w) \/ Leave(w)
      BY <2>4 DEF CheckShutdown, IdleTimeout, Leave, bvars, vars, history
    <2>5. CASE RunTask(w) \/ ScaleUp(w) \/ ScaleDown(w)
      BY <2>5 DEF RunTask, ScaleUp, ScaleDown, bvars, vars, history
    <2> QED
      BY <1>2, <2>2, <2>3, <2>4, <2>5 DEF WorkerStep
  <1>3. CASE TpDestroy
    BY <1>3 DEF TpDestroy, SetShutdown, WakeAll, Drain, RingDestroy, FreeQueue, bvars,
       vars, history
  <1>4. CASE UNCHANGED pvars
    BY <1>4 DEF pvars, bvars, vars, history
  <1> QED
    BY <1>1, <1>2, <1>3, <1>4 DEF PoolNext

\* Every step keeps the accounts, or overruns the queue with one command more
\* than it has slots.
LEMMA NextSafe == SafeIInv /\ [PoolNext]_pvars => SafeIInv'
  <1> SUFFICES ASSUME SafeIInv, [PoolNext]_pvars PROVE SafeIInv'
    OBVIOUS
  <1>1. LossIInv /\ LossIInv'
    BY NextLoss DEF SafeIInv
  <1>2. offered \subseteq offered' /\ (overran => overran')
    <2>1. CASE UNCHANGED <<offered, overran>>
      BY <2>1
    <2>2. ASSUME NEW p \in Pushers, RingPushAgain(p) \/ \E f : RingPush(p, f)
          PROVE  offered \subseteq offered' /\ \E f : PushLoop(p, f)
      BY <2>2 DEF RingPush, RingPushAgain, Offer
    <2>3. ASSUME NEW p, NEW f, PushLoop(p, f)
          PROVE  overran => overran'
      <3>1. overran' = (overran \/ q'.count > Capacity)
        BY <2>3 DEF PushLoop
      <3> QED
        BY <3>1, Zenon
    <2> QED
      BY OnlyPushes, <2>1, <2>2, <2>3
  <1>3. ASSUME ~overran' PROVE AccountIInv'
    BY <1>2, <1>3, NextAccount DEF SafeIInv
  <1>4. ASSUME overran' PROVE Cardinality(Alarms \cap offered') > Capacity
    <2>1. CASE overran
      <3> DEFINE before == Alarms \cap offered
                 after == Alarms \cap offered'
      <3>1. IsFiniteSet(before) /\ IsFiniteSet(after)
        BY <1>1, FS_Subset DEF LossIInv
      <3>2. before \in SUBSET after
        BY <1>2
      <3>3. Cardinality(before) > Capacity
        BY <2>1 DEF SafeIInv
      <3> HIDE DEF before, after
      <3>4. /\ Cardinality(before) \in Nat /\ Cardinality(after) \in Nat
            /\ Cardinality(before) <= Cardinality(after)
        BY <3>1, <3>2, FS_Subset, FS_CardinalityType
      <3>5. Cardinality(after) > Capacity
        BY <3>3, <3>4
      <3> QED
        BY <3>5 DEF after
    <2>2. CASE ~overran
      <3>1. PICK p \in Pushers : RingPushAgain(p) \/ \E f : RingPush(p, f)
        BY <1>4, <2>2, OnlyPushes
      <3>2. AccountIInv
        BY <2>2 DEF SafeIInv
      <3>3. PICK f : RingPush(p, f)
        BY <1>4, <2>2, <3>1, <3>2, AgainOverrunsNot
      <3> QED
        BY <1>4, <2>2, <3>2, <3>3, OverrunLemma
    <2> QED
      BY <2>1, <2>2
  <1> QED
    BY <1>1, <1>3, <1>4 DEF SafeIInv

LEMMA InitSafe == PoolInit => SafeIInv
  <1>1. PoolInit => ~overran
    BY DEF PoolInit, BlockingInit
  <1>2. PoolInit => LossIInv /\ AccountIInv
    BY InitLoss, InitAccount
  <1> QED
    BY <1>1, <1>2 DEF SafeIInv

\* The queue is overrun only once more commands were issued than it has slots;
\* until then no two frames share a slot, whoever blocks in ring_push meanwhile.
THEOREM OverrunByCommands == PoolSpec => []OverrunNeedsCommands
  <1>1. SafeIInv => OverrunNeedsCommands
    BY DEF SafeIInv, AccountIInv, PlacesIInv, WellFormed, OverrunNeedsCommands
  <1> QED
    BY <1>1, InitSafe, NextSafe, PTL DEF PoolSpec

\* Until then, too, a task that was submitted is in exactly one place: the
\* queue, the hand of one worker, done or lost; no worker runs a task that
\* another one has.
THEOREM TasksInOnePlace == PoolSpec => []TasksAccounted
  <1>1. SafeIInv => TasksAccounted
    <2>1. AccountIInv => TasksAccounted
      BY AccountedByPlaces DEF AccountIInv
    <2>2. overran => TasksAccounted
      BY DEF TasksAccounted
    <2> QED
      BY <2>1, <2>2 DEF SafeIInv
  <1> QED
    BY <1>1, InitSafe, NextSafe, PTL DEF PoolSpec

=============================================================================
