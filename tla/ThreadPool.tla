------------------------------ MODULE ThreadPool ------------------------------
(***************************************************************************)
(* The dynamic thread pool of common/thread_pool.c over the queue of       *)
(* BlockingRing.  Tasks travel in frames of type FRAME_DATA, the commands  *)
(* SCALE_UP and SCALE_DOWN in frames of type FRAME_ALARM; whoever takes a  *)
(* command out of the queue carries it out.  A worker takes one frame at a *)
(* time, inline, and sleeps on not_empty for at most a second.             *)
(*                                                                         *)
(* tp->lock is taken for one step at a time (the flag, the number of       *)
(* workers, the water mark), so every such section is an action of its     *)
(* own, and what was read in one may be stale in the next.                 *)
(***************************************************************************)
EXTENDS BlockingRing

CONSTANTS
  Submitters,     \* the threads that call tp_submit
  UpCommands,     \* the POOL_CMD_SCALE_UP frames there can be
  DownCommands,   \* the POOL_CMD_SCALE_DOWN frames there can be
  MinWorkers,     \* g_min_workers
  MaxWorkers,     \* tp->max_workers
  HighThreshold   \* WATER_HIGH_THRESHOLD

\* The workers of the pool are the Poppers of its queue; a worker pushes
\* commands, too.
ASSUME PoolAssumption ==
  /\ Pushers = Submitters \cup Poppers
  /\ Submitters \cap Poppers = {}
  /\ Cleaners = {}
  /\ IsFiniteSet(Poppers)
  /\ Alarms = UpCommands \cup DownCommands
  /\ UpCommands \cap DownCommands = {}
  /\ MinWorkers \in Nat \ {0}
  /\ MaxWorkers \in Nat \ {0}
  /\ MinWorkers <= MaxWorkers
  /\ HighThreshold \in Nat \ {0}

VARIABLES
  workers,    \* the list tp->workers; worker_num is its length
  pc,         \* where a worker or a submitter is
  hand,       \* ef: the frame a worker took
  shutdown,   \* tp->shutdown
  high,       \* g_water_high_count
  stage,      \* how far tp_destroy has come
  ran         \* history: the tasks that were executed

pool == <<workers, pc, hand, shutdown, high, stage, ran>>
pvars == <<bvars, pool>>

NotInPool == <<running, loops>>

WorkerAt == {"none", "check", "take", "wait", "idle", "low", "work", "leave"}
SubmitterAt == {"out", "push", "level", "above", "below", "trigger"}
Stages == {"no", "wake", "wait", "destroy", "done", "stuck"}

\* The queue still exists; and is not being taken down either.
Usable == stage \notin {"done", "stuck"}
Alive == stage \in {"no", "wake", "wait"}

PoolTypeOK ==
  /\ BlockingTypeOK
  /\ workers \subseteq Poppers
  /\ pc \in [Pushers -> WorkerAt \cup SubmitterAt]
  /\ hand \in [Poppers -> Frames \cup {NoFrame}]
  /\ shutdown \in BOOLEAN
  /\ high \in 0..(HighThreshold - 1)
  /\ stage \in Stages
  /\ ran \subseteq Frames \ Alarms

\* tp_init: min_w workers, or fewer when a thread cannot be created.
PoolInit ==
  /\ BlockingInit
  /\ workers \in {s \in SUBSET Poppers : Cardinality(s) \in 1..MinWorkers}
  /\ pc = [t \in Pushers |-> IF t \in Submitters THEN "out"
                             ELSE IF t \in workers THEN "check" ELSE "none"]
  /\ hand = [w \in Poppers |-> NoFrame]
  /\ shutdown = FALSE
  /\ high = 0
  /\ stage = "no"
  /\ ran = {}

Goto(t, place) == pc' = [pc EXCEPT ![t] = place]

-----------------------------------------------------------------------------
(* tp_submit.                                                               *)

\* tp_pack_task: the pointer of a fresh task is not that of a task in use.
Unused(set) == set \ offered
Fresh(set) == CHOOSE f \in Unused(set) : TRUE

\* ring_push of the task; asleep in it while the queue is full.
AfterPush(s) ==
  pc' = [pc EXCEPT ![s] = IF holding'[s] = NoFrame THEN "level" ELSE "push"]

TpSubmit(s) ==
  /\ pc[s] = "out"
  /\ stage = "no"
  /\ Unused(Frames \ Alarms) # {}
  /\ RingPush(s, Fresh(Frames \ Alarms))
  /\ AfterPush(s)
  /\ UNCHANGED <<workers, hand, shutdown, high, stage, ran>>

SubmitAgain(s) ==
  /\ pc[s] = "push"
  /\ Usable
  /\ RingPushAgain(s)
  /\ AfterPush(s)
  /\ UNCHANGED <<workers, hand, shutdown, high, stage, ran>>

\* The water mark, read under the queue's lock ...
ReadLevel(s) ==
  /\ pc[s] = "level"
  /\ Usable
  /\ Goto(s, IF (q.count * 100) \div Capacity > 80 THEN "above" ELSE "below")
  /\ UNCHANGED <<bvars, workers, hand, shutdown, high, stage, ran>>

\* Bug: the counter is not reset when it triggers.
CountLevelOn(s) ==
  /\ pc[s] \in {"above", "below"}
  /\ Usable
  /\ IF pc[s] = "below" THEN high' = 0 ELSE high' = high + 1
  /\ Goto(s, IF high' >= HighThreshold THEN "trigger" ELSE "out")
  /\ UNCHANGED <<bvars, workers, hand, shutdown, stage, ran>>

\* ... and counted under that of the pool.
CountLevel(s) ==
  /\ pc[s] \in {"above", "below"}
  /\ Usable
  /\ IF pc[s] = "below"
     THEN high' = 0 /\ Goto(s, "out")
     ELSE IF high + 1 >= HighThreshold
     THEN high' = 0 /\ Goto(s, "trigger")
     ELSE high' = high + 1 /\ Goto(s, "out")
  /\ UNCHANGED <<bvars, workers, hand, shutdown, stage, ran>>

\* tp_default_on_high_water, outside the locks.  (Bound: UpCommands.)
OnHighWater(s) ==
  /\ pc[s] = "trigger"
  /\ Usable
  /\ Unused(UpCommands) # {}
  /\ RingPush(s, Fresh(UpCommands))
  /\ Goto(s, "out")
  /\ UNCHANGED <<workers, hand, shutdown, high, stage, ran>>

-----------------------------------------------------------------------------
(* tp_worker.                                                               *)

CheckShutdown(w) ==
  /\ pc[w] = "check"
  /\ Goto(w, IF shutdown THEN "leave" ELSE "take")
  /\ UNCHANGED <<bvars, workers, hand, shutdown, high, stage, ran>>

\* The frame at tail, into the worker's hand; hand and ran record what popped
\* does in RingQueue.
TakeInto(w) ==
  /\ pc[w] = "take"
  /\ q.count > 0
  /\ hand' = [hand EXCEPT ![w] = q.buf[q.tail]]
  /\ Goto(w, "work")
  /\ UNCHANGED <<notEmpty, NotInPool, woken, history, holding, overran>>
  /\ UNCHANGED <<workers, shutdown, high, stage, ran>>

\* Bug: the worker wakes no producer.
TakeFrameSilently(w) == TakeInto(w) /\ q' = Take(q, 1) /\ UNCHANGED notFull

\* Bug: count stays as it was.
TakeFrameTwice(w) ==
  /\ TakeInto(w)
  /\ q' = [q EXCEPT !.tail = Slot(q.tail + 1)]
  /\ notFull' = {}

TakeFrame(w) == TakeInto(w) /\ q' = Take(q, 1) /\ notFull' = {}

TakeWait(w) ==
  /\ pc[w] = "take"
  /\ q.count = 0
  /\ notEmpty' = notEmpty \cup {w}
  /\ Goto(w, "wait")
  /\ UNCHANGED <<q, notFull, NotInPool, woken, history, holding, overran>>
  /\ UNCHANGED <<workers, hand, shutdown, high, stage, ran>>

\* Signalled, or a second has passed; and if nothing came for 60 seconds, the
\* pool may be too large.  (Bound: DownCommands.)
WaitReturns(w) ==
  /\ pc[w] = "wait"
  /\ notEmpty' = notEmpty \ {w}
  /\ \/ Goto(w, "check")
     \/ /\ Cardinality({v \in Poppers : pc[v] \in {"idle", "low"}})
             < Cardinality(Unused(DownCommands))
        /\ Goto(w, "idle")
  /\ UNCHANGED <<q, notFull, NotInPool, woken, history, holding, overran>>
  /\ UNCHANGED <<workers, hand, shutdown, high, stage, ran>>

TooMany == Cardinality(workers) > MinWorkers

\* over_min, read under tp->lock ...
IdleTimeout(w) ==
  /\ pc[w] = "idle"
  /\ Goto(w, IF TooMany THEN "low" ELSE "check")
  /\ UNCHANGED <<bvars, workers, hand, shutdown, high, stage, ran>>

\* ... and tp_default_on_low_water outside it: the command may come when it no
\* longer holds, and more than one may come.
OnLowWater(w) ==
  /\ pc[w] = "low"
  /\ RingPush(w, Fresh(DownCommands))
  /\ Goto(w, "check")
  /\ UNCHANGED <<workers, hand, shutdown, high, stage, ran>>

Working(w) ==
  /\ pc[w] = "work"
  /\ hand' = [hand EXCEPT ![w] = NoFrame]

RunTask(w) ==
  /\ Working(w)
  /\ hand[w] \notin Alarms
  /\ ran' = ran \cup {hand[w]}
  /\ Goto(w, "check")
  /\ UNCHANGED <<bvars, workers, shutdown, high, stage>>

\* tp_spawn_locked: the new thread, or nothing: at the limit, or because it
\* cannot be created.
ScaleUp(w) ==
  /\ Working(w)
  /\ hand[w] \in UpCommands
  /\ \/ /\ Cardinality(workers) < MaxWorkers
        /\ \E n \in Poppers \ workers :
              /\ workers' = workers \cup {n}
              /\ pc' = [pc EXCEPT ![w] = "check", ![n] = "check"]
     \/ Goto(w, "check") /\ UNCHANGED workers
  /\ UNCHANGED <<bvars, shutdown, high, stage, ran>>

\* tp_unlink_locked
Unlink(w) == workers' = workers \ {w} /\ Goto(w, "none")

\* Bug: the command is obeyed without looking again.
ScaleDownUnchecked(w) ==
  /\ Working(w)
  /\ hand[w] \in DownCommands
  /\ Unlink(w)
  /\ UNCHANGED <<bvars, shutdown, high, stage, ran>>

ScaleDown(w) ==
  /\ Working(w)
  /\ hand[w] \in DownCommands
  /\ IF TooMany THEN Unlink(w) ELSE Goto(w, "check") /\ UNCHANGED workers
  /\ UNCHANGED <<bvars, shutdown, high, stage, ran>>

\* Bug: a worker leaves without tp_unlink_locked.
LeaveUncounted(w) ==
  /\ pc[w] = "leave"
  /\ Goto(w, "none")
  /\ UNCHANGED <<bvars, workers, hand, shutdown, high, stage, ran>>

Leave(w) ==
  /\ pc[w] = "leave"
  /\ Unlink(w)
  /\ UNCHANGED <<bvars, hand, shutdown, high, stage, ran>>

WorkerStep(w) ==
  \/ CheckShutdown(w) \/ TakeFrame(w) \/ TakeWait(w) \/ WaitReturns(w)
  \/ IdleTimeout(w) \/ OnLowWater(w)
  \/ RunTask(w) \/ ScaleUp(w) \/ ScaleDown(w) \/ Leave(w)

-----------------------------------------------------------------------------
(* tp_destroy.  No tp_submit begins once it has begun; one that is under    *)
(* way goes on.                                                             *)

SetShutdown ==
  /\ stage = "no"
  /\ stage' = "wake"
  /\ shutdown' = TRUE
  /\ UNCHANGED <<bvars, workers, pc, hand, high, ran>>

WakeAll ==
  /\ stage = "wake"
  /\ stage' = "wait"
  /\ woken' = TRUE
  /\ notEmpty' = {}
  /\ notFull' = {}
  /\ UNCHANGED <<q, NotInPool, history, holding, overran>>
  /\ UNCHANGED <<workers, pc, hand, shutdown, high, ran>>

\* What is in the queue goes with it, unexecuted.
FreeQueue ==
  /\ q' = Take(q, q.count)
  /\ lost' = lost \cup Range(Contents(q))
  /\ UNCHANGED <<control, offered, popped, holding, overran>>
  /\ UNCHANGED <<workers, pc, hand, shutdown, high, ran>>

\* The last worker has left; the tasks still in the queue are freed.  Nobody
\* is told of the room this makes.
Drain ==
  /\ stage = "wait"
  /\ workers = {}
  /\ stage' = "destroy"
  /\ FreeQueue

\* ring_destroy, and with it all that a tp_submit still brought.  It asks that
\* nobody uses the queue; destroying not_full while a thread sleeps on it is
\* undefined: pthread_cond_destroy returns, or it waits for that thread.
RingDestroy ==
  /\ stage = "destroy"
  /\ stage' \in IF notFull = {} THEN {"done"} ELSE {"done", "stuck"}
  /\ FreeQueue

TpDestroy == SetShutdown \/ WakeAll \/ Drain \/ RingDestroy

-----------------------------------------------------------------------------
PoolNext ==
  \/ \E s \in Submitters :
        \/ TpSubmit(s) \/ SubmitAgain(s)
        \/ ReadLevel(s) \/ CountLevel(s) \/ OnHighWater(s)
  \/ \E w \in Poppers : WorkerStep(w)
  \/ TpDestroy

PoolSpec == PoolInit /\ [][PoolNext]_pvars

\* Threads that can run do, the second of a timed wait passes, and tp_destroy
\* goes on once begun.  Nothing obliges a caller to submit or to destroy.
PoolFairSpec ==
  /\ PoolSpec
  /\ \A w \in Poppers : WF_pvars(WorkerStep(w))
  /\ \A s \in Submitters : WF_pvars(SubmitAgain(s))
  /\ WF_pvars(WakeAll \/ Drain \/ RingDestroy)

-----------------------------------------------------------------------------
(* Properties.                                                              *)

Tasks == Frames \ Alarms
InHand == {hand[w] : w \in Poppers} \ {NoFrame}

\* However many SCALE_UP and SCALE_DOWN commands are under way, decided on
\* numbers that are no longer true, the pool stays within its limits, and
\* never dies out before tp_destroy.
PoolSize ==
  /\ Cardinality(workers) <= MaxWorkers
  /\ ~shutdown => workers # {}

\* A task whose tp_submit is past ring_push is in the queue, with a worker,
\* done, or lost; nowhere twice.  An overrun ends this: the ring then hands a
\* frame out a second time, and the task in it is run and freed twice.
TasksAccounted ==
  LET places == <<Range(Contents(q)), InHand, ran, lost>>
  IN  ~overran =>
        /\ Tasks \cap (offered \ Held) = Tasks \cap UNION Range(places)
        /\ \A i, j \in DOMAIN places : i # j => places[i] \cap places[j] = {}

\* While the pool lives, a task is lost only to a command that took its place,
\* at most one for each (thread_pool.c:256), as long as the queue was not
\* overrun: after that every tp_submit may overwrite one.
LostToCommands ==
  Alive /\ ~overran => Cardinality(lost) <= Cardinality(Alarms \cap offered)

\* Until the pool is destroyed or its queue overrun: from then on a submitter
\* may sleep in a queue that is gone, or a task run after it was freed.
Undisturbed == ~shutdown /\ ~overran

\* A submitter gets its task in.
SubmitCompletes ==
  \A s \in Submitters : (pc[s] = "push") ~> (pc[s] # "push" \/ ~Undisturbed)

\* A task in the queue is executed or displaced.
TasksServed ==
  \A f \in Tasks :
     (f \in Range(Contents(q))) ~> (f \in ran \cup lost \/ ~Undisturbed)

\* tp_destroy gets through, whatever tasks and commands are still queued and
\* even if a SCALE_UP adds a worker while the others leave - unless a tp_submit
\* sleeps on not_full when ring_destroy comes: ring_wake_all does not end
\* ring_push's loop, and the drain wakes nobody.
DestroyReturns ==
  shutdown
    ~> (stage = "done" \/ (stage = "stuck" /\ notFull # {}) \/ overran)

=============================================================================
