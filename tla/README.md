# Verification of the IoT collector

The collector receives measurement frames of environmental stations over UDP
and TCP, cleans them, and sends them on: by multicast, and over one TCP
connection to a platform, with a cache on disk for the time that connection is
down. This directory holds TLA+ models of its concurrent core, the TLC runs that
check them, and proofs of every safety property that the passing runs check.

    UDP, TCP, simulator --> Q1 --> cleaner --> Q2 --> dispatch workers --> multicast
    (ring_push_try)          (cleaner_process)     (ring_pop_batch)   |--> TCP link
                                                                      `--> cache --replay--> link
    beside them: monitor (heartbeat, reconnect, replay), ticker (tokens),
    statistics thread, main

## Inventory

| Part | State | Operations | Talks to | What makes it correct |
|---|---|---|---|---|
| ring queue, `pipeline/ring_queue.c` | slots, head, tail, count, dropped, two condition variables | push, push_try, pop_batch, wake_all, count | everybody, under `q->lock` | FIFO, alarms displace only the oldest normal frame, nothing lost unseen or doubled, no thread asleep for ever |
| cleaner, `pipeline/cleaner.c`, `station_ctx.c` | per station: last timestamp, reorder buffer, 3-sigma window | cleaner_process | Q1, Q2, statistics | every frame passed, dropped or stashed once; timestamps in order; the window is what passed last |
| dispatcher, `egress/dispatcher.c` | `g_unicast_fd`, stop flags, threads | worker, monitor, ticker, start, stop, join | Q2, link, cache, bucket | a frame is sent, cached or counted; descriptors are not closed under a sender; it can be stopped |
| unicast link, `egress/unicast_sender.c` | online flag, failure streak | connect, send, heartbeat, close | dispatcher, bucket | a dead link is found out, a new one is used |
| cache, `egress/cache_writer.c` | file, cursors, cursor file | open, append, replay, close | dispatcher, link | no loss, no repetition, also over restarts |
| token bucket, `common/tbf.c` | tokens, shutdown | tick, fetch, shutdown | workers, ticker, statistics | a waiter gets tokens or is told to stop |
| statistics, `common/stats.c` | counters | stats_on_*, snapshot | everybody; queues and cache inside its lock | counts balance, a snapshot returns |
| life cycle, `main.c`, `common/signal_handler.c` | `g_running`, what was started | start, roll back, stop, join, destroy | all | the process ends; nobody uses a queue that is gone |
| thread pool, `common/thread_pool.c` | workers, task queue, water mark | submit, spawn, shrink, destroy | ring queue | within its limits, no task lost but to a command, it can be destroyed (compiled, not called by the program) |
| TCP poller and decoder, `ingress/tcp_poller.c`, `decoder.c` | `g_fd`, stream buffer | connect, read, cut into frames, stop, join | Q1, main, the descriptor table | frames found however the stream is cut; a stop that reaches it; nobody else's descriptor closed |
| UDP receiver, `ingress/udp_receiver.c` | `g_epfd`, socket | start, loop, stop, join | Q1, main | it leaves when it is stopped |
| encoding, `common/proto.c` | none | encode, decode, CRC | decoder, senders | only whether bytes are a frame is modelled |
| multicast, `tools/` | none, or a program of its own | | | not modelled |

Hard to test here: mutexes taken in different orders by five kinds of threads;
sleeping and waking on condition variables during shutdown; descriptors that are
closed and replaced while other threads use their numbers; a file offset shared by
appends and replays, over crashes; indices that wrap around while frames are
shifted; decisions of the pool on numbers that are stale; a stream cut anywhere;
an exit, or a start that fails half way, in which every sleeper gets one wake-up.
`PROJECT.json` lists each hazard at its line.

## Modules

| Module | Models | Checked by |
|---|---|---|
| `FrameQueue` | what a frame queue promises: a sequence, no slots, no threads | as a property of `RingQueue` |
| `RingQueue` | `ring_push_try`, `ring_pop_batch`, `ring_wake_all`, the loops of both kinds of consumer, exit signal | run `ring`; proofs |
| `BlockingRing` | extends `RingQueue` with `ring_push` | inside `ThreadPool` |
| `ThreadPool` | the dynamic pool over `BlockingRing` | run `thread_pool`; proofs |
| `UnicastLink` | workers, monitor and shutdown around the TCP connection | runs `unicast_link`, `link_reconnect`; proofs |
| `CacheWriter` | cache file, cursors, replay, crashes | runs `cache`, `cache_loss`; proofs |
| `Cleaner` | `cleaner_process`, 3-sigma window, reorder buffer | run `cleaner`; proofs |
| `EgressLocks` | the order in which the threads take the mutexes | runs `egress_locks`, `lock_circle`; proofs |
| `StreamDecoder` | `frame_stream_feed`, and where a stream holds whole frames | inside `TcpPoller`; proofs |
| `TcpPoller` | the TCP thread, `tcp_poller_stop`, the descriptor table | run `tcp_poller`; proofs |
| `Collector` | main, its threads, Q1, Q2 and the tokens from start to end | runs `collector`, `shutdown_hang`; proofs |
| `RingQueueProofs`, `ThreadPoolProofs`, `UnicastLinkProofs`, `CacheWriterProofs`, `CleanerProofs`, `EgressLocksProofs`, `TcpPollerProofs`, `CollectorProofs` | theorems about the module they are named after, and what it extends | the prover |

`MC*` modules add frames and model values for TLC. Definitions that begin with
the comment "Bug:" are not part of a specification: each is a plausible mistake
in the definition that follows it, and shows that some property notices it.

How they fit together: `ThreadPool` is the queue of `BlockingRing` with the pool's
threads as its producers and consumers; `TcpPoller` runs its sessions through
`StreamDecoder`. `Collector` is the composition at the level of threads and of
numbers of frames: what a thread does with one frame is the other modules'
business. `RingQueue` implements `FrameQueue`, which is why queues can be counts
there.

### RingQueue and BlockingRing

`q` is the `ring_queue_t` with its slots and indices; masking with
`capacity - 1` is `Slot`. An operation holds `q->lock` from beginning to end
except in `pthread_cond_wait`, so it is one step up to the wait and one step
after it. A condition variable is the set of the threads asleep on it; a signal
removes one, a broadcast all, and a spurious wake-up any. A thread that is awake
is about to test its loop's condition (`InPop`). `offered`, `popped` and `lost`
are history.

Both queues are one module. `consumers` is chosen at the start: the `Cleaners`,
for Q1, or the other `Poppers`, the dispatch workers of Q2. The difference is in
the loop around `ring_pop_batch`: `cleaner_thread` tests `g_running` before each
call (`LoopTest`, main.c:92), `dispatch_worker` leaves only when a call returned
nothing. `popping` is who is inside the call.
 A frame is a value that is offered once; all that the queue looks
at is whether it is in `Alarms`.

`ring_push_try` has four outcomes (`TryStore`, `TryDisplace`, `TryDropNormal`,
`TryRefuseAlarm`). `BlockingRing` adds `ring_push`: `RingPush` enters it,
`RingPushAgain` goes on after a wake-up, `holding` is the caller's frame. It is a
set of operators with no next-state relation of its own. The loop of `ring_push`
tests `count == capacity`: an alarm that meets a queue of alarms leaves it, takes
the occupied slot at `head` (`DroppedFrame`) and moves `count` past the capacity;
from then on the loop holds nobody up and everything written takes an occupied
slot (`Overwritten`). `overran` remembers that this happened, and the model goes on
through it as the code does.

### ThreadPool

Tasks are the normal frames, the commands `SCALE_UP` and `SCALE_DOWN` the alarms.
`workers` is the pool's list, whose length is `worker_num`; `pc` is where each
thread is. Every section under `tp->lock` is one step, so `over_min` is read in
`IdleTimeout` and acted upon in `OnLowWater`, and the water mark is read in
`ReadLevel` and counted in `CountLevel`. A submitter is between `tp_submit`'s
calls (`push`, `level`, `above`/`below`, `trigger`). `WaitReturns` is the end of
the one-second wait, whatever ended it; the 60 idle seconds have passed or not.
`SetShutdown`, `WakeAll`, `Drain` and `RingDestroy` are `tp_destroy`. No `tp_submit`
begins after it; one that is under way goes on, and may sleep on `not_full` when
`RingDestroy` comes. Destroying a condition variable somebody sleeps on is
undefined, and in practice returns or waits for that thread: both are modelled, the
second as `stuck`. A task
pointer may be used again once its task was freed; the model gives every task a
frame of its own.

### UnicastLink

A worker is `idle` (in `ring_pop_batch` or between frames), `locked` (it has
`g_unicast_lock`), `waiting` for `g_send_lock`, `sending` (tokens and writes,
with both locks) or `failed` (about to cache or drop the frame). The monitor goes
through its loop in the order of `dispatch_monitor`; its three timers are due or
not due at every turn. `queued` is Q2 and the batches of the workers together;
their order is `RingQueue`'s business. `sock` is the kernel's view of each
descriptor, and descriptors are reused. A send on an open connection may succeed
or time out; on a reset one it fails. A replay is abstracted to the frames it
moves from `cached` to `replayed`; `CacheWriter` has the file. An append to the
cache can fail, when the file could not be opened or the write was short; nobody
looks at that, and the frame is `forgotten`.
`RetryBucket` says whether somebody has initialised `g_retry_bucket`. It is a
public variable that nothing in the repository sets: FALSE is the program as it
is built, TRUE a program that embeds it and sets the bucket, in which the replay
does send, on a copied descriptor, and there is more that could go wrong.

### CacheWriter

Offsets are counted in frames. `file` and `saved` (the cursor file) survive a
crash; `offset` is the one file offset that reads and writes share. A replay is
a step per frame and two per saved cursor, because the process can die after the
send, or after `fopen` has truncated the cursor file. `LoadCursor` reads beside
the cache file; `save_cursor` is always called with `./cache.dat`; `DefaultPath`
says that these are the same.

### Cleaner

One frame at a time, as the one cleaner thread works. `co_ppb` stands for the six
measurements: it is the one whose accepted range overflows `int16_t`. The 3-sigma
rule is in integers: `n*x - S` squared against nine times `n*Q - S*S`, which is
the comparison in the code times `n` squared (borderline cases of floating-point
rounding are not modelled). `have` is the set of stations with a context; when none
can be allocated the frame is dropped (`CleanNoContext`), and `uncounted` remembers
that no counter shows it. The output is what `cleaner_thread` offers to Q2;
whether Q2 takes it is `RingQueue`'s business.

### EgressLocks

A thread's turn is the sequence of its lock and unlock calls, built with
`Within(mutex, body)`. Mutexes inside which no other is taken (`g_link_lock`,
`q->lock`) are left out. `Throttled` lets tokens run out.

### StreamDecoder and TcpPoller

A byte is `<<f, k>>`, the k-th byte of frame f: the magic is there at the first
byte of any frame, whole or cut short, and the CRC holds for all the bytes of one
frame in their order and for nothing else. So payloads that look like a magic are
not modelled, but every cut of the stream is. `StreamFeed` is `frame_stream_feed`
as a function of buffer and read. `WholeAt` says, without a buffer or a
scan, at which places of a stream a whole frame begins; the decoder is checked
against it.

`tcp_session_once` is split wherever another thread can look: `Connect` gets a
descriptor, `Expose` shows it in `g_fd`, `SessionEnd` compares, `SessionClose`
closes, `SessionClear` resets `g_fd`. `tcp_poller_stop` is `StopTest`, `StopClose`
and `StopClear`; there is no lock, so it may close what it tested or what `g_fd`
is by then. `owner` is the process's descriptor table, in which the dispatcher's
connections (`PlatformConnect`, `PlatformClose`) take the lowest free number, too.
A `recv` on the poller's own connection ends by its timeout (`RecvNothing`); on a
number that has become the platform connection's it has none (`RecvBlocks`), and
nothing in the process ends it (`RecvStray` is nobody's obligation).
A connection begins where the device goes on sending, at one of `Starts`.

### Collector

`todo` is what main still has to do, a sequence of steps: `StartUp`, then `Exit`,
`RollBackIngress` or `RollBackAll`, in the order of main.c. `at` is where a
thread is; `asleep` is in `pthread_cond_wait` of its queue. A thread in `MayFail`
may not be created, one in `Absent` is not wanted. `hand` is what is left of a
batch, `tokens` the outbound bucket, filled by `Tick` and taken from in
`WorkerSend`, where a request for more than the burst is one for the burst.
`MonitorLeaves` is all there is of the monitor. After `Destroy` main's last report
(`Report`) and the statistics thread (`Snapshot`, every second until the process is
gone) still lock the queues; `late` is who did.

## Runs and bounds

| Run | Bounds | Shows |
|---|---|---|
| `ring` | 2 slots, 1 cleaner or 2 workers, 3 alarms and 3 normal frames, batches of 1 | types, indices, conservation, no lost wake-up, the abstract queue, delivery, shutdown |
| `thread_pool` | 1 slot, 2 submitters, pool of 1 to 2 workers, 3 tasks, 1 `SCALE_UP`, 2 `SCALE_DOWN`, threshold 2 | size of the pool, an overrun needs more commands than slots, until then every task accounted for, a submit gets in, a task is served; destroy returns unless a submitter sleeps in the queue |
| `unicast_link` | 2 workers, 2 frames, 2 descriptors, 3 failures, appends that fail | ownership of descriptors, detection of a dead link, one fate for every frame |
| `link_reconnect` | 1 worker, 1 frame, no retry bucket | **violation**: a reconnect leaves the link offline |
| `cache` | 4 frames, 2 faults, retry bucket set | what a restart skips was sent; no repetition without a fault; a replay ends |
| `cache_loss` | 3 frames, no fault, no retry bucket | **violation**: an append overwrites a frame |
| `cleaner` | 6 frames out of 13, 2 stations, window and stash of 2, one failed allocation | one place for every frame, books balance, order, window |
| `egress_locks` | 2 workers, no throttling | no circle of waiting threads |
| `lock_circle` | 1 worker, throttling | **violation**: worker, monitor and statistics wait for each other |
| `tcp_poller` | frames of 2 bytes, buffer of 3, reads up to 4, two whole frames and a cut one, 3 descriptors | frames recovered, whose descriptor is closed and read when, descriptors returned, thread joined or blocked on the platform's connection |
| `collector` | 2 workers, queues and batches of 2, 2 frames, burst 2, cost 1; cleaner, bucket and workers may fail | who still uses a queue that is destroyed, workers leave no work, the exit ends |
| `shutdown_hang` | 1 worker, burst 2, cost 3 (a frame empties the bucket), simulator on | **violation**: the exit waits for ever |

Why this is enough: two slots already wrap around, are full of alarms, or mixed;
three alarms in two slots refuse one. A second consumer is what a lost wake-up
takes. In the pool one slot is the smallest queue that two commands overrun, and a
task or a command in it is always the one displaced; the fill goes above the 80 per
cent mark when it is full, a second submit
sleeps, and two `SCALE_DOWN` decided on by two workers is the smallest case of a
stale decision. Which frame of a longer queue is displaced is what `ring` looks at.
Two descriptors are needed to have an
old and a new connection, and the lower number is reused by a third. Three
failures reach the limit of the source. Four cached frames allow a replayed, a
failed, an overwritten and an overwriting one; two faults allow a crash during the
recovery from another. A full stash of two, one passed frame, the frame that
pushes one out and two that follow are six; a failed allocation is the drop of one
frame, which a second one only repeats. A buffer of one byte more than a
frame and reads of up to two frames cut the stream everywhere and overflow the
buffer, as reads of 512 bytes do to the 112 of the source; three descriptors are an
old and a new platform connection and the poller's. In `collector` two frames let
the last one arrive in Q2 while a worker leaves; the TCP thread, which is like the
UDP one there, has its own module, and the simulator is started in
`shutdown_hang`. Deadlock is not checked in runs that reach an orderly end (all
frames used up, all threads gone); in `egress_locks` it is.

## Fairness

* `RingQueue`: every consumer that is awake runs, and main, after `g_running`
  went to 0, gets to `ring_wake_all`. Nothing is assumed of producers, signals or
  spurious wake-ups.
* `ThreadPool`: a worker that can take a step does - the second of a timed wait
  passes - a submitter that was woken runs, and `tp_destroy` goes on once it has
  begun. Nothing obliges a caller to submit or to destroy.
* `UnicastLink`: threads that can move do; a thread that waits for a mutex that
  others release again and again gets it in the end (strong fairness - a pthread
  mutex does not promise it, but its waiters are few and the holders sleep
  between turns); a sender gets tokens while the process runs, because the ticker
  does (and as long as no thread is caught in the circle of `lock_circle`); the 30
  seconds of the heartbeat pass.
* `CacheWriter`: a replay that started goes on. That is: its send returns, which a
  retry bucket that stays empty or the circle of `lock_circle` can prevent.
* `EgressLocks`, for the violation only: strong fairness for every thread, so
  that the counterexample is a real circle and not an unlucky schedule.
* `TcpPoller`: `connect`, and `recv` on the poller's own connection, end by their
  timeouts, so the thread goes on whatever the device does; main goes on. The signal
  is obliged by nothing, nor is the end of a `recv` on the platform connection.
* `Collector`: main and every thread that can go on do; a producer's round ends by
  its timeout. Neither frames nor the signal have to come.

## What is proved

Everything below holds for every value of the constants that the modules' named
assumptions allow.

**The queue** (`CapacityAssumption`: capacity is a power of two, as `ring_init`
demands; `BatchAssumption`, `FrameAssumption`):

* `Typing`, `RingWellFormed` (`RingQueueProofs`): `Spec => []TypeOK`,
  `Spec => []RingInv`. The inductive invariant is
  `RingIInv == TypeOK /\ RingInv /\ AllAccounted`: that `popped` holds frames
  needs that occupied slots do, and that a new frame is new to the abstract queue
  needs that every frame somewhere was offered.
* `Refinement`: `Spec => ImplementsFrameQueue`, with `queue <- Contents(q)`. The
  first lemmas there say what each operation on slots does to the contents:
  `WriteLemma` appends, `RemoveLemma` removes one element and keeps the order of
  the others, `TakeLemma` drops a prefix. Each action is then a step of
  `FrameQueue` (`StoreStep`, `DisplaceStep`, `DropStep`, `RefuseStep`, `PopStep`)
  or leaves it alone (`ControlStep`).
* `NoWakeupIsLost`: `Spec => []NoLostWakeup`, from the invariant that no consumer
  that has left is asleep.
* `FramesConserved`: every frame is in one place. A count
  goes up by one only if what is counted is new; for the victim of an eviction
  that follows from the counts themselves (`VictimIsNew`): had it been lost
  before, fewer frames would have been offered than are accounted for.

**The thread pool** (`PoolAssumption`: among others that there are finitely many
threads that can be workers, since the pool has a maximum):

* `PoolTyping`; `PoolSizeBounded`, from `SizeIInv`: a worker is about to leave for
  good only when the pool is being destroyed; the one that obeys `SCALE_DOWN` looks
  at the list again in the section in which it takes itself off it.
* `LostOnlyToCommands`, from `Losses` and from `SleepersHoldTasks`: a command never
  waits in `ring_push`, so what gives way to one is a task that was queued.
* `OverrunByCommands` and `TasksInOnePlace`, of every behaviour, whatever the number
  of commands. What they say ends with an overrun, so the invariant is
  `SafeIInv`: either the queue was overrun, and more commands were issued than it has
  slots - the step that does it finds a queue that holds nothing but commands, all
  of them different - or `AccountIInv` holds, which follows a task from its submitter's
  hand over the queue to a worker's (`HoldsIInv`, `PlacesIInv`, `HandsIInv`).

**The link** (`LinkAssumption`: among others at least one worker, since
`dispatcher_start` fails without): `LinkTyping`, `LinkOwned`,
`SendersKeepConnection`, `FramesHaveOneFate`. `ConnectionsOwned` is not inductive.
`LinkIInv` adds who holds which mutex at which step (`HoldersKnown`), that what a
thread is about to write to is `g_unicast_fd` (`TargetsCurrent`: for a worker
because of `g_unicast_lock`, for the replay because only the monitor itself
installs connections), and that a fresh connection is not the installed one
(`FreshIsNew`). From it, no step closes what a sender writes to, while a close
under the lock is allowed to happen at any time otherwise.

**The cache** (`CacheAssumption`): `CacheTyping` and `SkippedSent`, from
`CacheIInv`: a replay stands at the read cursor and appends go at or behind it
(`CursorsAgree`), and what lies before the read cursor or before the saved one was
sent (`SentBefore`). `NeverTwice`, where `DefaultPath` holds: without a fault the
sent frames are a prefix of the file (`SentIsPrefix`), in which each frame is once
(`FileOnce`).

**The cleaner** (`CleanerAssumption`): `CleanerTyping`; `StationOrder`, from
`LastIsLatest`: whatever a station has passed since its last frame out of the
reorder buffer is not after `last_valid_timestamp`. The reorder buffer of a
station holds its own frames only (`ContextOf`). `FramesOnce`: every frame offered is
in one place (`OneHome`), because a frame is stashed or passed only when it is new
or has just left a stash. `BooksBalance`: with one place for every frame, each step
lets at most one frame go for good (`OneLeaves`) and adds one to one counter, or one
to the frames that had no context (`Tally`); a frame in a stash is not counted yet.
`RecentWindow`: slot by slot, the ring of the
window holds what the station passed last; the index wraps around for any
capacity (`SlotBefore`).

**The egress mutexes** (`~Throttled`): `LocksOrdered`. Every mutex has a rank
(`Rank`). Each turn of each thread is a program that unlocks what it locks and
locks nothing of a rank as low as one it holds (`Fits`, put together along `Within`
and concatenation); `LocksIInv` says that a thread holds exactly what the rest of
its program has still to unlock. Of the threads of a circle, the one that waits for
the highest rank would wait for a mutex whose holder waits for a higher one. With
throttling no ranks exist: `lock_circle` shows the circle.

**The TCP poller** (`PollerAssumption`): `OwnClosesWhileRunning` (closes, and reads
of, a foreign descriptor), from `SessionOwns`: while the process runs and was not
rolled back a connected
session's descriptor is the session's. `DescriptorsComeBack` follows the
descriptor through every order of the two closes (`Handover`). `TcpTyping`: all types.

**The decoder** (`DecoderAssumption`: a frame fits into the buffer):

* `CutRight`: the scan of `frame_stream_feed` finds, in every sequence of bytes, the
  frames that are whole in it, in order and nothing else, counts the bytes it skips
  and leaves less than a frame. `CutFrames` is a recursive function, defined by
  `CHOOSE` like all of them: that a function with its equation exists is shown
  first (`TableExists`, `CutFramesTable`), then what its values are (`Right`, by
  `RightShort`, `RightSkip`, `RightFrame`). Both are inductions from the end of the
  bytes, put as "a non-empty set of numbers has a smallest element"
  (`InductionTo`), which needs no operator as a parameter. That no frame begins
  inside another is why the scan may jump over the bytes of one it found.
* `FramesFound`: `TcpSpec => []FramesRecovered`, for every stream, every cut of it
  into reads and every buffer. The inductive invariant, `DecodeIInv`, counts places
  in the whole stream: the buffer holds the last bytes read, fewer than a frame;
  every place before them at which a frame begins was found, unless a read did not
  fit. A read is then `Window` (what the scan gets is again the end of what was
  read), `CutRight`, and `FoundInWindow` and `FoundJoined` (what it finds follows
  what was found before).

**The life cycle** (`CollectorAssumption`: workers are not other threads):
`StatsAloneOutlive` and `CollectorTyping`. `LifeIInv` says, for each position in each
of main's four programs, which threads have not been created yet and which have
been joined; a thread that has left stays away.

TLC's runs check the same formulas on small instances.

Some properties are stated so that they can be reasoned about and say what they
said before: where one might filter or add up a sequence, `EachFrameOnce` uses
unions and injective sequences, `Reconciled` the cardinality of a set, and
`FramesRecovered` a function from the frames found to their places.

Model-checked only: all liveness (`AlarmsDelivered`, `ConsumersLeave`,
`SubmitCompletes`, `TasksServed`, `DestroyReturns`, `LossDetected`, `ReplayEnds`,
`PollerJoined`, `WorkersDrain`, `ShutdownEnds`), which rests on fairness and
`ENABLED` and is out of the prover's reach. The disagreements below are
counterexamples, and need no proof.

## Disagreements between code and documentation

The first four are counterexamples of violation runs; `PROJECT.json` quotes the lines.

1. `link_reconnect`: a reconnect closes the old descriptor after it marked the new
   link online, and the close marks the link offline; the next reconnect closes
   the good one.
2. `cache_loss`: a failed replay leaves the file offset behind the read cursor's
   frame, and the next append overwrites frames.
3. `lock_circle`: `stats_lock`, `cache_lock`, `g_send_lock` are taken in a circle.
4. `shutdown_hang`: the ticker is to live until every worker has left
   (dispatcher.c:36-39, 400), but its loop ends with `g_running` (dispatcher.c:146).
   A worker that then waits for tokens waits for ever, and `dispatcher_join` for it.

Found while modelling, and written into the properties of the passing runs, each of
which says what holds in spite of it:

* `ring_push` of an alarm says "an alarm displaces the oldest normal frame"
  (ring_queue.c:176) and leaves its loop "or all are alarms" (193): in a queue of
  alarms it writes into an occupied slot and `count` passes the capacity. A frame
  is lost and another handed out twice; in the pool, where it can happen as soon as
  more commands are queued than there are slots, a task is then run and freed twice.
  `OverrunNeedsCommands`, `TasksAccounted` (run `thread_pool`, in which it happens).
* "Alarms are never lost" (ring_queue.c:176) is not so in Q1: `cleaner_thread` tests
  `g_running` between two batches (main.c:92) and leaves what is queued, alarms
  included. `AlarmsDelivered` promises delivery of an alarm in Q2, and in Q1 up to the
  signal. Workers in turn may leave an empty Q2 before the cleaner's last push:
  `WorkersDrain` ends with the last worker.
* `dropped` is "the number of frames dropped because the queue was full"
  (iot_collector.h:170). `ring_push_try` does not count an alarm it refuses
  (ring_queue.c:357-360). Its caller counts it by `stats_on_drop` (main.c:106), and
  the next `stats_snapshot` overwrites that count with the sum of both `dropped`
  (stats.c:126): refused alarms, and frames dropped for want of a cache
  (dispatcher.c:100), are in no report. No property is stated of this counter.
* `tp_destroy` calls `ring_destroy` (thread_pool.c:606), which asks that no thread
  uses the queue (ring_queue.c:87). A `tp_submit` that sleeps on `not_full` is not
  waited for: `ring_wake_all` (582) does not end its loop, and the freeing of the
  tasks broadcasts nothing. `pthread_cond_destroy` may then wait for it for ever.
  `DestroyReturns` says that this is the only way for `tp_destroy` not to return.
* `ring_destroy` in main, again against ring_queue.c:87: the last `stats_report`
  (main.c:350) and the statistics thread, which nothing stops, lock both queues
  afterwards. `OnlyStatsOutlive` says that nobody else does.
* `dispatch_one` ignores the result of `cache_writer_append` (dispatcher.c:98), and
  `dispatcher_start` that of `cache_writer_open`. When the cache is not open or the
  write is short (cache_writer.c:82-90), a frame is neither sent, nor cached, nor
  counted, although cache_writer.c:2 promises no loss. `FramesAccounted` says that
  no other frame is forgotten.
* "Close the descriptor, to break off a blocked recv" (tcp_poller.c:224, 228): on
  Linux close wakes no `recv` in another thread. As a rule the receive timeout does.
  But the thread may have tested the flag just before; if the platform connection
  gets the number after stop's close, `recv` is on a socket without a receive timeout
  (unicast_sender.c:112) and main's join hangs with it. `PollerJoined` says that
  nothing else keeps main from joining, `ForeignOnlyAtExit` that it takes the exit.
* `tcp_poller_stop` and the session can both close one descriptor, the second time
  as the platform connection's, but only while the process ends
  (`ForeignOnlyAtExit`).
* When the cleaner thread cannot be created (main.c:258-263) `g_running` stays 1: the
  TCP thread goes on connecting, main waits for it until a signal comes, and a
  descriptor may be left open. `PollerJoined` begins at the signal,
  `DescriptorsReturned` excuses the rolled-back process.
* `cleaner_process` drops a frame without counting it when no context can be
  allocated (cleaner.c:180), while elsewhere it counts "so that the books balance"
  (174). `Reconciled` accounts for these frames apart.
* Frames that leave the reorder buffer are not compared with the last timestamp
  again (cleaner.c:211), so the output may go back in time there;
  `OnlyStashGoesBack` is the rule as it is.
* A read of up to 512 bytes that does not fit the decoder's buffer of four frames
  (112 bytes) pushes out the oldest bytes, whole frames among them, although the
  head of decoder.c speaks of solving cut and merged packets; `FramesRecovered`
  promises every frame only if no read overflowed.

And two that no property depends on:

* A replay saves its cursor beside `./cache.dat` (cache_writer.c:146), but the cache
  may have any name (`-c`, main.c:192), beside which `load_cursor` reads. With another name a
  restart replays everything again, against "no repetition" (cache_writer.c:2).
  `DefaultPath` stands for the default name; `NoRepeatWithoutFault` and `NeverTwice`
  hold with it only.
* A frame is cached in host order, "to be encoded again when it is replayed"
  (dispatcher.c:98); `cache_replay_start` sends the bytes as they were cached
  (cache_writer.c:140-141), but for the type. The models do not look at a frame's bytes
  there.

## Not modelled

* The tools (`cloud_bridge`, `frame_decoder`, `station_sim`): single-threaded
  programs for tests beside the collector. The multicast sender: one `sendto`
  without state.
* Byte order and the CRC polynomial of a frame: pure functions of 28 bytes, which a
  unit test covers better than a model. False positives of the magic.
* What a short write leaves in the cache file, and partial sends: offsets are counted
  in frames, and a frame is sent whole or not at all. That an append can fail is in
  `UnicastLink`.
* How long things take: the back-off of the TCP poller, the timers of the monitor,
  the epoll and receive timeouts. They happen or do not.
* `cleaner_worker_task` and the concurrent allocation of station contexts, which
  nothing calls; the timeout of `tbf_fetch_token`, which every caller sets to
  "without limit".
* The counters of the statistics but for the cleaner's; parsing of the command line;
  the layout of the reports.

## What is left

1. Offsets in bytes for `CacheWriter`, with short writes.
2. A refinement of `Collector`'s counts by `RingQueue`'s sequences, and of the
   frames of `UnicastLink`'s cache by `CacheWriter`'s file.
3. A larger queue for `thread_pool` with its liveness: two slots that overrun need
   four commands and four tasks, which is too much for one run.
