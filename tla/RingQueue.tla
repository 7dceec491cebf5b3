----------------------------- MODULE RingQueue -----------------------------
(***************************************************************************)
(* The bounded frame queue of pipeline/ring_queue.c, as the pipeline uses  *)
(* it for Q1 and Q2: producers that must not block (ring_push_try), and    *)
(* consumers that sleep on not_empty (ring_pop_batch).  The two queues     *)
(* differ in the loop around ring_pop_batch: cleaner_thread, of Q1, tests  *)
(* g_running before every call; a dispatch_worker, of Q2, calls it until   *)
(* it returns 0.                                                           *)
(*                                                                         *)
(* Every operation runs under q->lock from its first line to its last,     *)
(* except while it sleeps in pthread_cond_wait, so an operation is one     *)
(* step up to the point where it sleeps, and one step from there on.  A    *)
(* condition variable is the set of the threads asleep on it.              *)
(***************************************************************************)
EXTENDS Integers, Sequences, FiniteSets, SequencesExt

CONSTANTS
  Capacity,   \* q->capacity
  BatchMax,   \* max_n of ring_pop_batch (RINGQ_BATCH_MAX)
  Frames,     \* the frames offered to the queue, each of them once
  Alarms,     \* those whose frame_type is FRAME_ALARM
  NoFrame,    \* what calloc leaves in a slot
  Poppers,    \* the threads that call ring_pop_batch
  Cleaners    \* those of them that are consumers of Q1

\* ring_init refuses any other capacity.
ASSUME CapacityAssumption ==
  /\ Capacity \in Nat \ {0}
  /\ \E k \in 0..Capacity : Capacity = 2^k

ASSUME BatchAssumption == BatchMax \in Nat \ {0}

ASSUME FrameAssumption == Alarms \subseteq Frames /\ NoFrame \notin Frames

\* main starts one cleaner_thread.
ASSUME ConsumerAssumption ==
  /\ Cleaners \subseteq Poppers
  /\ \A c, d \in Cleaners : c = d

VARIABLES
  q,         \* the ring_queue_t: buf, head, tail, count, dropped
  notEmpty,  \* the threads asleep on q->not_empty
  notFull,   \* the threads asleep on q->not_full
  running,   \* g_running
  woken,     \* ring_wake_all has been called
  consumers, \* whose queue this is: the consumers of Q1, or those of Q2
  popping,   \* consumers that are in ring_pop_batch
  exited,    \* consumers that left their loop
  offered,   \* history: frames given to a push so far
  popped,    \* history: frames consumers received, in the order they did
  lost       \* history: frames the queue refused or displaced

loops == <<consumers, popping, exited>>
control == <<notEmpty, notFull, running, woken, loops>>
history == <<offered, popped, lost>>
vars == <<q, control, history>>

-----------------------------------------------------------------------------
(* The ring itself: pure operators on the ring_queue_t.                     *)

Slots == 0..(Capacity - 1)

\* k & (capacity - 1): capacity is a power of two.
Slot(k) == k % Capacity

Ring == [buf     : [Slots -> Frames \cup {NoFrame}],
         head    : Slots,
         tail    : Slots,
         count   : Nat,
         dropped : Nat]

EmptyRing == [buf     |-> [s \in Slots |-> NoFrame],
              head    |-> 0,
              tail    |-> 0,
              count   |-> 0,
              dropped |-> 0]

\* The frames in the queue, oldest first.
Contents(r) == [i \in 1..r.count |-> r.buf[Slot(r.tail + (i - 1))]]

\* Distances from tail at which the scan of drop_oldest_normal can stop.
NormalAt(r) ==
  {i \in 0..(r.count - 1) : r.buf[Slot(r.tail + i)] \notin Alarms}

\* Bug: the scan runs from head down and stops at the youngest normal frame.
IsYoungestNormal(r, i) == i \in NormalAt(r) /\ \A j \in NormalAt(r) : j <= i

\* The first of them, where it does stop.
IsOldestNormal(r, i) == i \in NormalAt(r) /\ \A j \in NormalAt(r) : i <= j

\* Bug: the shift starts one slot late.
RemoveNext(r, i) ==
  [buf     |-> [s \in Slots |->
                  LET d == (s - r.tail) % Capacity
                  IN  IF i < d /\ d + 1 < r.count
                      THEN r.buf[Slot(s + 1)]
                      ELSE r.buf[s]],
   head    |-> (r.head - 1) % Capacity,
   tail    |-> r.tail,
   count   |-> r.count - 1,
   dropped |-> r.dropped + 1]

\* Bug: the frames are shifted but head stays.
RemoveButHead(r, i) == [RemoveNext(r, i - 1) EXCEPT !.head = r.head]

\* Remove the frame at distance i from tail: the younger ones move one slot
\* towards tail and head steps back.  Called only on a full ring.
RemoveNormal(r, i) ==
  [buf     |-> [s \in Slots |->
                  LET d == (s - r.tail) % Capacity
                  IN  IF i <= d /\ d + 1 < r.count
                      THEN r.buf[Slot(s + 1)]
                      ELSE r.buf[s]],
   head    |-> (r.head - 1) % Capacity,
   tail    |-> r.tail,
   count   |-> r.count - 1,
   dropped |-> r.dropped + 1]

\* Bug: the index mask is forgotten.
WriteUnmasked(r, f) ==
  [r EXCEPT !.buf[r.head] = f, !.head = r.head + 1, !.count = r.count + 1]

\* buf[head] = frame; head advances; count++.
Write(r, f) ==
  [buf     |-> [r.buf EXCEPT ![r.head] = f],
   head    |-> Slot(r.head + 1),
   tail    |-> r.tail,
   count   |-> r.count + 1,
   dropped |-> r.dropped]

\* tail passes n frames.
Take(r, n) ==
  [r EXCEPT !.tail = Slot(r.tail + n), !.count = r.count - n]

BatchSize(r) == IF r.count < BatchMax THEN r.count ELSE BatchMax

-----------------------------------------------------------------------------
TypeOK ==
  /\ q \in Ring
  /\ notEmpty \subseteq popping
  /\ notFull = {}
  /\ running \in BOOLEAN
  /\ woken \in BOOLEAN
  /\ consumers \in {Cleaners, Poppers \ Cleaners}
  /\ popping \subseteq consumers
  /\ exited \subseteq consumers
  /\ offered \subseteq Frames
  /\ popped \in Seq(Frames)
  /\ lost \subseteq Frames

Init ==
  /\ q = EmptyRing
  /\ notEmpty = {}
  /\ notFull = {}
  /\ running = TRUE
  /\ woken = FALSE
  /\ consumers \in {Cleaners, Poppers \ Cleaners}
  /\ popping = consumers \ Cleaners
  /\ exited = {}
  /\ offered = {}
  /\ popped = << >>
  /\ lost = {}

-----------------------------------------------------------------------------
\* Bug: ring_push_try does not signal.
SignalNobody == UNCHANGED notEmpty

\* pthread_cond_signal(&q->not_empty): wakes some sleeper, if there is one.
SignalNotEmpty ==
  IF notEmpty = {} THEN UNCHANGED notEmpty
  ELSE \E t \in notEmpty : notEmpty' = notEmpty \ {t}

Offer(f) == f \in Frames \ offered /\ offered' = offered \cup {f}

\* ring_push_try, a slot is free.
TryStore(f) ==
  /\ Offer(f)
  /\ q.count # Capacity
  /\ q' = Write(q, f)
  /\ SignalNotEmpty
  /\ UNCHANGED <<notFull, running, woken, loops, popped, lost>>

\* ring_push_try, the queue is full and an alarm displaces the oldest normal
\* frame.
TryDisplace(f) ==
  /\ Offer(f)
  /\ q.count = Capacity
  /\ f \in Alarms
  /\ \E i \in Slots :
        /\ IsOldestNormal(q, i)
        /\ q' = Write(RemoveNormal(q, i), f)
        /\ lost' = lost \cup {q.buf[Slot(q.tail + i)]}
  /\ SignalNotEmpty
  /\ UNCHANGED <<notFull, running, woken, loops, popped>>

\* ring_push_try, full: a normal frame is dropped and counted ...
TryDropNormal(f) ==
  /\ Offer(f)
  /\ q.count = Capacity
  /\ f \notin Alarms
  /\ q' = [q EXCEPT !.dropped = q.dropped + 1]
  /\ lost' = lost \cup {f}
  /\ UNCHANGED <<control, popped>>

\* ... and an alarm that meets nothing but alarms is refused, uncounted.
TryRefuseAlarm(f) ==
  /\ Offer(f)
  /\ q.count = Capacity
  /\ f \in Alarms
  /\ NormalAt(q) = {}
  /\ lost' = lost \cup {f}
  /\ UNCHANGED <<q, control, popped>>

RingPushTry(f) ==
  TryStore(f) \/ TryDisplace(f) \/ TryDropNormal(f) \/ TryRefuseAlarm(f)

-----------------------------------------------------------------------------
\* A consumer that is in its loop and not asleep.
Awake(t) == t \in consumers \ (notEmpty \cup exited)

\* cleaner_thread's while (g_running): with it the loop ends, whatever the
\* queue holds.
LoopTest(t) ==
  /\ Awake(t)
  /\ t \notin popping
  /\ IF running THEN popping' = popping \cup {t} /\ UNCHANGED exited
     ELSE exited' = exited \cup {t} /\ UNCHANGED popping
  /\ UNCHANGED <<q, notEmpty, notFull, running, woken, consumers, history>>

\* It is about to evaluate while (q->count == 0) in ring_pop_batch.
InPop(t) == Awake(t) /\ t \in popping

\* A dispatch_worker calls ring_pop_batch again, with no test between.
Return(t) == popping' = popping \ (Cleaners \cap {t})

\* min(count, max_n) frames leave and every waiting producer is woken.
PopFrames(t) ==
  /\ InPop(t)
  /\ q.count # 0
  /\ q' = Take(q, BatchSize(q))
  /\ popped' = popped \o SubSeq(Contents(q), 1, BatchSize(q))
  /\ notFull' = {}
  /\ Return(t)
  /\ UNCHANGED <<notEmpty, running, woken, consumers, exited, offered, lost>>

\* Bug: g_running is tested before the count.
PopStopsAtOnce(t) ==
  /\ InPop(t)
  /\ ~running
  /\ popping' = popping \ {t}
  /\ exited' = exited \cup {t}
  /\ UNCHANGED <<q, notEmpty, notFull, running, woken, consumers, history>>

\* Empty and the process is ending: returns 0, on which either loop ends.
PopNothing(t) ==
  /\ InPop(t)
  /\ q.count = 0
  /\ ~running
  /\ popping' = popping \ {t}
  /\ exited' = exited \cup {t}
  /\ UNCHANGED <<q, notEmpty, notFull, running, woken, consumers, history>>

PopSleep(t) ==
  /\ InPop(t)
  /\ q.count = 0
  /\ running
  /\ notEmpty' = notEmpty \cup {t}
  /\ UNCHANGED <<q, notFull, running, woken, loops, history>>

RingPopBatch(t) == PopFrames(t) \/ PopNothing(t) \/ PopSleep(t)

Consumer(t) == LoopTest(t) \/ RingPopBatch(t)

\* pthread_cond_wait may return without a signal.
SpuriousWakeup ==
  /\ \E t \in notEmpty : notEmpty' = notEmpty \ {t}
  /\ UNCHANGED <<q, notFull, running, woken, loops, history>>

-----------------------------------------------------------------------------
\* SIGINT/SIGTERM, at any moment.
OnExitSignal ==
  /\ running
  /\ running' = FALSE
  /\ UNCHANGED <<q, notEmpty, notFull, woken, loops, history>>

\* Bug: ring_wake_all broadcasts not_full only.
WakeProducersOnly ==
  /\ ~running
  /\ ~woken
  /\ woken' = TRUE
  /\ notFull' = {}
  /\ UNCHANGED <<q, notEmpty, running, loops, history>>

\* The shutdown sequence wakes the queue once, after g_running went to 0.
RingWakeAll ==
  /\ ~running
  /\ ~woken
  /\ woken' = TRUE
  /\ notEmpty' = {}
  /\ notFull' = {}
  /\ UNCHANGED <<q, running, loops, history>>

-----------------------------------------------------------------------------
Next ==
  \/ \E f \in Frames : RingPushTry(f)
  \/ \E t \in Poppers : Consumer(t)
  \/ SpuriousWakeup
  \/ OnExitSignal
  \/ RingWakeAll

Spec == Init /\ [][Next]_vars

\* The scheduler runs every thread that is not asleep, and main gets to the
\* wake-up of its shutdown sequence.  Nothing obliges a producer to push, a
\* signal to arrive or a wakeup to be spurious.
Fairness ==
  /\ \A t \in Poppers : WF_vars(Consumer(t))
  /\ WF_vars(RingWakeAll)

FairSpec == Spec /\ Fairness

-----------------------------------------------------------------------------
(* Properties.                                                              *)

\* head is count slots after tail, at most all slots are occupied, and the
\* occupied ones hold frames, never the zeroes of calloc: after any number of
\* wrap-arounds and evictions a consumer reads only what a producer wrote.
WellFormed(r) ==
  /\ r.count <= Capacity
  /\ r.head = Slot(r.tail + r.count)
  /\ \A i \in 0..(r.count - 1) : r.buf[Slot(r.tail + i)] \in Frames

RingInv == WellFormed(q)

\* Every frame given to the queue is in a slot, with a consumer or lost.
AllAccounted == offered = Range(Contents(q)) \cup Range(popped) \cup lost

\* Every frame given to the queue is in exactly one place - a slot, a
\* consumer, or the losses - and never twice: no operation overwrites a frame
\* that nobody received, returns one twice, or forgets one while it shifts.
Conservation ==
  /\ AllAccounted
  /\ Cardinality(offered) = q.count + Len(popped) + Cardinality(lost)

\* ring_push_try signals one consumer per frame and ring_pop_batch may leave
\* frames behind, yet the queue never holds frames with every consumer asleep
\* or gone to sleep for good (unless all have left).
NoLostWakeup ==
  q.count > 0 => exited = consumers \/ \E t \in Poppers : Awake(t)

\* The ring implements FrameQueue: first in first out, an alarm displaces only
\* the oldest normal frame and is lost only among Capacity alarms.
Queue == INSTANCE FrameQueue WITH queue <- Contents(q)

ImplementsFrameQueue == Queue!Spec

\* An alarm that entered the queue is received by a consumer - in Q2 also when
\* the process is told to stop in between, since a dispatch_worker leaves only
\* an empty queue.  In Q1 the signal may come first: cleaner_thread tests
\* g_running between two batches (main.c:92) and leaves what is queued.
AlarmsDelivered ==
  \A f \in Alarms :
     (running /\ f \in Range(Contents(q)))
       ~> (f \in Range(popped) \/ (consumers = Cleaners /\ ~running))

\* The one ring_wake_all of the shutdown reaches every consumer: none of them
\* checks g_running and then sleeps through it.
ConsumersLeave == woken ~> (exited = consumers)

=============================================================================
