---------------------------- MODULE BlockingRing ----------------------------
(***************************************************************************)
(* RingQueue with the blocking producers of the public API: ring_push, as  *)
(* tp_submit and the scaling code of common/thread_pool.c call it.  A      *)
(* normal frame that meets a full queue sleeps on not_full; an alarm       *)
(* displaces the oldest normal frame and is then written, whether or not   *)
(* there was one to displace: in a queue of nothing but alarms it is       *)
(* written over the oldest of them, and count passes capacity.             *)
(***************************************************************************)
EXTENDS RingQueue

CONSTANT Pushers   \* the threads that call ring_push

VARIABLES
  holding,   \* the frame of the ring_push a thread is inside, or NoFrame
  overran    \* history: the queue was given more frames than it has slots

bvars == <<vars, holding, overran>>

BlockingTypeOK ==
  /\ q \in Ring
  /\ notEmpty \subseteq Poppers
  /\ notFull \subseteq Pushers
  /\ running \in BOOLEAN
  /\ woken \in BOOLEAN
  /\ consumers = Poppers
  /\ popping \subseteq Poppers
  /\ exited \subseteq Poppers
  /\ offered \subseteq Frames
  /\ popped \in Seq(Frames)
  /\ lost \subseteq Frames
  /\ holding \in [Pushers -> Frames \cup {NoFrame}]
  /\ overran \in BOOLEAN

\* A queue of its own, neither Q1 nor Q2: its consumers are the Poppers.
BlockingInit ==
  /\ Init
  /\ consumers = Poppers
  /\ holding = [p \in Pushers |-> NoFrame]
  /\ overran = FALSE

-----------------------------------------------------------------------------
\* Bug: a full queue is written to without making room.
DropNothing(r, i) == r

\* What an alarm does to a full ring before it is written: drop_oldest_normal,
\* which leaves a ring of alarms as it is.
DropOldestNormal(r, i) == IF NormalAt(r) = {} THEN r ELSE RemoveNormal(r, i)

\* The frame that is gone then: the one removed, or the one in the slot at
\* head, which is occupied.
DroppedFrame(r, i) ==
  {r.buf[IF NormalAt(r) = {} THEN r.head ELSE Slot(r.tail + i)]}

\* The loop tests count == capacity, so once count has passed capacity it holds
\* nobody up, and what is written takes an occupied slot.
Overwritten(r) == IF r.count > Capacity THEN {r.buf[r.head]} ELSE {}

\* The rest of ring_push from while (q->count == q->capacity) on.
PushStore(p, f) ==
  /\ q.count # Capacity
  /\ q' = Write(q, f)
  /\ lost' = lost \cup Overwritten(q)
  /\ holding' = [holding EXCEPT ![p] = NoFrame]
  /\ SignalNotEmpty
  /\ UNCHANGED notFull

PushAlarm(p, f) ==
  /\ q.count = Capacity
  /\ f \in Alarms
  /\ \E i \in Slots :
        /\ NormalAt(q) # {} => IsOldestNormal(q, i)
        /\ q' = Write(DropOldestNormal(q, i), f)
        /\ lost' = lost \cup DroppedFrame(q, i)
  /\ holding' = [holding EXCEPT ![p] = NoFrame]
  /\ SignalNotEmpty
  /\ UNCHANGED notFull

\* Bug: a full queue drops the frame, as ring_push_try does.
PushDrops(p, f) ==
  /\ q.count = Capacity
  /\ f \notin Alarms
  /\ lost' = lost \cup {f}
  /\ holding' = [holding EXCEPT ![p] = NoFrame]
  /\ UNCHANGED <<q, notEmpty, notFull>>

PushSleep(p, f) ==
  /\ q.count = Capacity
  /\ f \notin Alarms
  /\ notFull' = notFull \cup {p}
  /\ holding' = [holding EXCEPT ![p] = f]
  /\ UNCHANGED <<q, notEmpty, lost>>

PushLoop(p, f) ==
  /\ PushStore(p, f) \/ PushAlarm(p, f) \/ PushSleep(p, f)
  /\ overran' = (overran \/ q'.count > Capacity)
  /\ UNCHANGED <<running, woken, loops, popped>>

\* A thread enters ring_push ...
RingPush(p, f) ==
  /\ holding[p] = NoFrame
  /\ Offer(f)
  /\ PushLoop(p, f)

\* ... and, woken from not_full, evaluates the loop condition again.  Neither
\* g_running nor ring_wake_all ends the loop.
RingPushAgain(p) ==
  /\ holding[p] # NoFrame
  /\ p \notin notFull
  /\ PushLoop(p, holding[p])
  /\ UNCHANGED offered

-----------------------------------------------------------------------------
\* Only a command that meets a queue of nothing but commands overruns it, so
\* more of them were issued than it has slots; until then no two frames share
\* a slot, whatever blocking and non-blocking producers do.
OverrunNeedsCommands ==
  IF overran THEN Cardinality(Alarms \cap offered) > Capacity
  ELSE q.count <= Capacity /\ q.head = Slot(q.tail + q.count)

Held == {holding[p] : p \in Pushers} \ {NoFrame}

=============================================================================
