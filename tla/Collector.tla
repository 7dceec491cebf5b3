------------------------------ MODULE Collector ------------------------------
(***************************************************************************)
(* The life of the process: main.c starts the threads one by one, waits    *)
(* for g_running to go to 0, and stops and joins them in order.  The UDP   *)
(* receiver, the TCP poller and the simulator fill Q1, the cleaner thread  *)
(* moves frames from Q1 to Q2, the dispatch workers empty Q2, for tokens   *)
(* that the ticker supplies.                                               *)
(*                                                                         *)
(* What main still has to do is a list of steps.  The queues are counts:   *)
(* RingQueue has the rest, TcpPoller, Cleaner, UnicastLink and CacheWriter *)
(* what the threads do with a frame.                                       *)
(***************************************************************************)
EXTENDS Integers, Sequences

CONSTANTS
  Workers,     \* the dispatch threads dispatcher_start is to create
  Q1Cap, Q2Cap,
  Batch,       \* RINGQ_BATCH_MAX
  Supply,      \* bound: frames that come
  Burst,       \* TBF_DEFAULT_BURST, tokens in a full bucket
  Rate,        \* tokens that one tick adds
  Cost,        \* tokens that one frame costs
  Absent,      \* threads this start of the program goes without
  MayFail      \* the threads, and "bucket", whose creation may fail

Producers == {"udp", "tcp", "sim"}
Threads == Producers \cup {"cleaner", "ticker", "monitor"} \cup Workers

ASSUME CollectorAssumption ==
  /\ Workers \cap (Producers \cup {"cleaner", "ticker", "monitor"}) = {}
  /\ Supply \in Nat /\ Rate \in Nat
  /\ Burst \in Nat \ {0} /\ Cost \in Nat \ {0}
  /\ Q1Cap \in Nat \ {0} /\ Q2Cap \in Nat \ {0} /\ Batch \in Nat \ {0}
  /\ Absent \subseteq {"tcp", "sim", "monitor"}
  /\ MayFail \subseteq Threads \cup {"bucket"}

VARIABLES
  running,   \* g_running
  todo,      \* the steps main has before it
  at,        \* where a thread is
  q1, q2,    \* frames in the queues
  hand,      \* frames of its batch a thread has not dealt with
  supply,    \* frames that can still come
  epoll,     \* g_epfd >= 0
  tokens,    \* g_outbound_bucket->tokens
  bucketDown,\* its shutdown flag
  tickStop,  \* g_tick_stop
  destroyed, \* ring_destroy was called on Q1 and Q2
  late       \* history: who used a queue after that

flowvars == <<q1, q2, hand, supply>>
outvars == <<tokens, bucketDown, tickStop>>
ends == <<destroyed, late>>
cvars == <<running, todo, at, flowvars, epoll, outvars, ends>>

Stopping == <<"udp_stop", "udp_join", "tcp_join">>

StartUp ==
  <<"udp_start", "tcp_start", "cleaner_start", "sim_start", "ticker_start",
    "workers_start", "monitor_start", "serve">>

\* main.c, 9. and after
Exit ==
  Stopping \o
  <<"sim_join", "wake_q1", "cleaner_join", "wake_q2", "workers_join",
    "bucket_stop", "ticker_join", "monitor_join", "destroy", "report">>

\* The cleaner thread cannot be created ...
RollBackIngress == Stopping \o <<"destroy", "return">>

\* ... or dispatcher_start fails: then g_running is set to 0 first.
RollBackAll ==
  <<"wake_q1", "cleaner_join", "sim_join">> \o Stopping \o <<"destroy", "return">>

CollectorTypeOK ==
  /\ at \in [Threads -> {"none", "loop", "pop", "asleep", "busy", "left"}]
  /\ q1 \in 0..Q1Cap
  /\ q2 \in 0..Q2Cap
  /\ hand \in [Threads -> 0..Batch]
  /\ supply \in 0..Supply
  /\ tokens \in 0..Burst
  /\ {running, epoll, bucketDown, tickStop, destroyed} \subseteq BOOLEAN
  /\ late \subseteq Threads \cup {"main", "stats"}

CollectorInit ==
  /\ running = TRUE
  /\ todo = StartUp
  /\ at = [t \in Threads |-> "none"]
  /\ q1 = 0 /\ q2 = 0
  /\ hand = [t \in Threads |-> 0]
  /\ supply = Supply
  /\ epoll = FALSE
  /\ tokens = Burst
  /\ bucketDown = FALSE
  /\ tickStop = FALSE
  /\ destroyed = FALSE
  /\ late = {}

Goto(t, place) == at' = [at EXCEPT ![t] = place]
GotoWith(t, place, n) ==
  Goto(t, place) /\ hand' = [hand EXCEPT ![t] = n]

Smaller(m, n) == IF m < n THEN m ELSE n

\* t locks the mutex of a queue, whether ring_destroy was there before or not.
UsesQueue(t) ==
  /\ late' = IF destroyed THEN late \cup {t} ELSE late
  /\ UNCHANGED destroyed

-----------------------------------------------------------------------------
(* The producers: udp_recv_thread, tcp_poll_thread and sim_thread look at    *)
(* g_running, offer Q1 the frames of one round - one epoll_wait, one recv,   *)
(* one turn of the simulator - with ring_push_try, and look again.           *)

ProducerLoop(p) ==
  /\ at[p] \in {"loop", "busy"}
  /\ Goto(p, IF running /\ (p = "udp" => epoll) THEN "busy" ELSE "left")
  /\ UNCHANGED <<running, todo, flowvars, epoll, outvars, ends>>

\* The frame is refused if Q1 is full; else it wakes the cleaner thread.
ProducerFrame(p) ==
  /\ at[p] = "busy"
  /\ supply > 0 /\ supply' = supply - 1
  /\ q1' = Smaller(q1 + 1, Q1Cap)
  /\ at' = [at EXCEPT ![p] = IF p = "sim" THEN "loop" ELSE "busy",
                     !["cleaner"] =
                        IF @ = "asleep" /\ q1 < Q1Cap THEN "pop" ELSE @]
  /\ UsesQueue(p)
  /\ UNCHANGED <<running, todo, q2, hand, epoll, outvars>>

-----------------------------------------------------------------------------
(* cleaner_thread                                                           *)

CleanerLoop ==
  /\ at["cleaner"] = "loop"
  /\ Goto("cleaner", IF running THEN "pop" ELSE "left")
  /\ UNCHANGED <<running, todo, flowvars, epoll, outvars, ends>>

\* ring_pop_batch: a batch, or 0, on which the loop ends, or sleep.
CleanerPop ==
  /\ at["cleaner"] = "pop"
  /\ LET n == Smaller(q1, Batch)
     IN  /\ q1' = q1 - n
         /\ IF n > 0 THEN GotoWith("cleaner", "busy", n)
            ELSE GotoWith("cleaner", IF running THEN "asleep" ELSE "left", 0)
  /\ UsesQueue("cleaner")
  /\ UNCHANGED <<running, todo, q2, supply, epoll, outvars>>

\* cleaner_process drops or keeps the frame, or passes it; ring_push_try
\* refuses it if Q2 is full, else it wakes one of the workers.
CleanerFrame ==
  /\ at["cleaner"] = "busy"
  /\ LET left == hand["cleaner"] - 1
         then == [at EXCEPT !["cleaner"] = IF left = 0 THEN "loop" ELSE "busy"]
         idle == {w \in Workers : at[w] = "asleep"}
     IN  /\ hand' = [hand EXCEPT !["cleaner"] = left]
         /\ \/ at' = then /\ UNCHANGED q2
            \/ /\ q2 < Q2Cap /\ q2' = q2 + 1
               /\ IF idle = {} THEN at' = then
                  ELSE \E w \in idle : at' = [then EXCEPT ![w] = "pop"]
  /\ UsesQueue("cleaner")
  /\ UNCHANGED <<running, todo, q1, supply, epoll, outvars>>

-----------------------------------------------------------------------------
(* The dispatch threads.                                                    *)

\* Bug: a worker looks at g_running first.
WorkerPopStops(w) ==
  /\ at[w] = "pop"
  /\ LET n == IF running THEN Smaller(q2, Batch) ELSE 0
     IN  /\ q2' = q2 - n
         /\ IF n > 0 THEN GotoWith(w, "busy", n)
            ELSE GotoWith(w, IF running THEN "asleep" ELSE "left", 0)
  /\ UsesQueue(w)
  /\ UNCHANGED <<running, todo, q1, supply, epoll, outvars>>

\* dispatch_worker: ring_pop_batch returns 0 only from an empty queue, when
\* g_running is 0, and the worker leaves.
WorkerPop(w) ==
  /\ at[w] = "pop"
  /\ LET n == Smaller(q2, Batch)
     IN  /\ q2' = q2 - n
         /\ IF n > 0 THEN GotoWith(w, "busy", n)
            ELSE GotoWith(w, IF running THEN "asleep" ELSE "left", 0)
  /\ UsesQueue(w)
  /\ UNCHANGED <<running, todo, q1, supply, epoll, outvars>>

\* A request for more than the bucket holds is one for a full bucket.
Want == Smaller(Cost, Burst)

\* dispatch_one: tbf_fetch_token waits, without a limit, for its tokens or for
\* tbf_shutdown; with them the frame is sent, else it is cached.
WorkerSend(w) ==
  /\ at[w] = "busy"
  /\ tokens >= Want \/ bucketDown
  /\ tokens' = IF bucketDown THEN tokens ELSE tokens - Want
  /\ GotoWith(w, IF hand[w] = 1 THEN "pop" ELSE "busy", hand[w] - 1)
  /\ UNCHANGED <<running, todo, q1, q2, supply, epoll, bucketDown, tickStop, ends>>

\* dispatch_ticker
TickerLoop ==
  /\ at["ticker"] = "loop"
  /\ Goto("ticker", IF running /\ ~tickStop THEN "busy" ELSE "left")
  /\ UNCHANGED <<running, todo, flowvars, epoll, outvars, ends>>

\* Bug: the burst does not limit the tokens.
TickUncapped ==
  /\ at["ticker"] = "busy"
  /\ tokens' = tokens + Rate
  /\ Goto("ticker", "loop")
  /\ UNCHANGED <<running, todo, flowvars, epoll, bucketDown, tickStop, ends>>

\* tbf_tick
Tick ==
  /\ at["ticker"] = "busy"
  /\ tokens' = Smaller(tokens + Rate, Burst)
  /\ Goto("ticker", "loop")
  /\ UNCHANGED <<running, todo, flowvars, epoll, bucketDown, tickStop, ends>>

\* dispatch_monitor: what it does until then is for UnicastLink to say.
MonitorLeaves ==
  /\ at["monitor"] = "loop"
  /\ ~running
  /\ Goto("monitor", "left")
  /\ UNCHANGED <<running, todo, flowvars, epoll, outvars, ends>>

\* pthread_cond_wait may return for no reason.
SpuriousWakeup(t) ==
  /\ at[t] = "asleep"
  /\ Goto(t, "pop")
  /\ UNCHANGED <<running, todo, flowvars, epoll, outvars, ends>>

-----------------------------------------------------------------------------
(* main.                                                                    *)

\* SIGINT or SIGTERM
OnExitSignal ==
  /\ running
  /\ running' = FALSE
  /\ UNCHANGED <<todo, at, flowvars, epoll, outvars, ends>>

Doing(step) == todo # << >> /\ Head(todo) = step

Done == todo # << >> /\ todo' = Tail(todo)

\* pthread_create of threads, of which the first instruction is place.
Create(step, set, place) ==
  /\ Doing(step)
  /\ at' = [t \in Threads |-> IF t \in set THEN place ELSE at[t]]
  /\ UNCHANGED <<flowvars, outvars, ends>>

\* udp_receiver_start, tcp_poller_start, the simulator (only with -s) and the
\* monitor: if the thread cannot be created the program goes on without it.
StartOptional(step, t) ==
  /\ Done
  /\ \/ t \notin Absent /\ Create(step, {t}, "loop")
     \/ t \in MayFail \cup Absent /\ Create(step, {}, "loop")

UdpStart == StartOptional("udp_start", "udp") /\ epoll' = (at'["udp"] = "loop") /\ UNCHANGED running
TcpStart == StartOptional("tcp_start", "tcp") /\ UNCHANGED <<epoll, running>>
SimStart == StartOptional("sim_start", "sim") /\ UNCHANGED <<epoll, running>>
MonitorStart == StartOptional("monitor_start", "monitor") /\ UNCHANGED <<epoll, running>>

\* Not so the cleaner thread ...
CleanerStart ==
  /\ \/ Create("cleaner_start", {"cleaner"}, "loop") /\ Done
     \/ /\ "cleaner" \in MayFail
        /\ Create("cleaner_start", {}, "loop") /\ todo' = RollBackIngress
  /\ UNCHANGED <<running, epoll>>

\* ... and dispatcher_start, which needs its bucket and one of its workers, but
\* not the ticker.
DispatcherFails(step) ==
  /\ Create(step, {}, "loop")
  /\ todo' = RollBackAll
  /\ running' = FALSE

TickerStart ==
  /\ \/ StartOptional("ticker_start", "ticker") /\ UNCHANGED running
     \/ "bucket" \in MayFail /\ DispatcherFails("ticker_start")
  /\ UNCHANGED epoll

WorkersStart ==
  /\ \/ \E set \in (SUBSET Workers) \ {{}} :
           /\ Workers \ set \subseteq MayFail
           /\ Create("workers_start", set, "pop") /\ Done /\ UNCHANGED running
     \/ Workers \subseteq MayFail /\ DispatcherFails("workers_start")
  /\ UNCHANGED epoll

\* 8. while (g_running)
Serve ==
  /\ Doing("serve")
  /\ ~running
  /\ todo' = Exit
  /\ UNCHANGED <<running, at, flowvars, epoll, outvars, ends>>

UdpStop ==
  /\ Doing("udp_stop") /\ Done
  /\ epoll' = FALSE
  /\ UNCHANGED <<running, at, flowvars, outvars, ends>>

\* pthread_join, of threads that were created
Gone(t) == at[t] \in {"none", "left"}

\* Bug: the cleaner thread is not waited for.
JoinAllButCleaner ==
  /\ \/ Doing("udp_join") /\ Gone("udp")
     \/ Doing("tcp_join") /\ Gone("tcp")
     \/ Doing("sim_join") /\ Gone("sim")
     \/ Doing("cleaner_join")
     \/ Doing("workers_join") /\ \A w \in Workers : Gone(w)
     \/ Doing("ticker_join") /\ Gone("ticker")
     \/ Doing("monitor_join") /\ Gone("monitor")
  /\ Done
  /\ UNCHANGED <<running, at, flowvars, epoll, outvars, ends>>

Join ==
  /\ \/ Doing("udp_join") /\ Gone("udp")
     \/ Doing("tcp_join") /\ Gone("tcp")
     \/ Doing("sim_join") /\ Gone("sim")
     \/ Doing("cleaner_join") /\ Gone("cleaner")
     \/ Doing("workers_join") /\ \A w \in Workers : Gone(w)
     \/ Doing("ticker_join") /\ Gone("ticker")
     \/ Doing("monitor_join") /\ Gone("monitor")
  /\ Done
  /\ UNCHANGED <<running, at, flowvars, epoll, outvars, ends>>

\* ring_wake_all: on Q1, and in dispatcher_stop on Q2
Woken(set) ==
  at' = [t \in Threads |-> IF t \in set /\ at[t] = "asleep" THEN "pop" ELSE at[t]]

\* Bug: dispatcher_stop wakes nobody.
WakeQ1Only ==
  /\ \/ Doing("wake_q1") /\ Woken({"cleaner"})
     \/ Doing("wake_q2") /\ UNCHANGED at
  /\ Done
  /\ UNCHANGED <<running, flowvars, epoll, outvars, ends>>

WakeAll ==
  /\ \/ Doing("wake_q1") /\ Woken({"cleaner"})
     \/ Doing("wake_q2") /\ Woken(Workers)
  /\ Done
  /\ UNCHANGED <<running, flowvars, epoll, outvars, ends>>

\* dispatcher_join, 2)
BucketStop ==
  /\ Doing("bucket_stop") /\ Done
  /\ tickStop' = TRUE
  /\ bucketDown' = TRUE
  /\ UNCHANGED <<running, at, flowvars, epoll, tokens, ends>>

Destroy ==
  /\ Doing("destroy") /\ Done
  /\ destroyed' = TRUE
  /\ UNCHANGED <<running, at, flowvars, epoll, outvars, late>>

\* stats_report looks at both queues once more ...
Report ==
  /\ Doing("report") /\ Done
  /\ UsesQueue("main")
  /\ UNCHANGED <<running, at, flowvars, epoll, outvars>>

\* ... which the two ways back do not do.
Return ==
  /\ Doing("return") /\ Done
  /\ UNCHANGED <<running, at, flowvars, epoll, outvars, ends>>

\* stats_thread_fn: every second, until the process is gone.  stats_init starts
\* the thread and nothing stops it.
Snapshot ==
  /\ todo # << >>
  /\ UsesQueue("stats")
  /\ UNCHANGED <<running, todo, at, flowvars, epoll, outvars>>

Main ==
  \/ UdpStart \/ TcpStart \/ CleanerStart \/ SimStart \/ TickerStart
  \/ WorkersStart \/ MonitorStart \/ Serve
  \/ UdpStop \/ Join \/ WakeAll \/ BucketStop \/ Destroy
  \/ Report \/ Return

-----------------------------------------------------------------------------
CleanerThread == CleanerLoop \/ CleanerPop \/ CleanerFrame
Worker(w) == WorkerPop(w) \/ WorkerSend(w)
Ticker == TickerLoop \/ Tick

CollectorNext ==
  \/ Main \/ OnExitSignal
  \/ \E p \in Producers : ProducerLoop(p) \/ ProducerFrame(p)
  \/ CleanerThread
  \/ \E w \in Workers : Worker(w)
  \/ Ticker \/ MonitorLeaves \/ Snapshot
  \/ \E t \in Threads : SpuriousWakeup(t)

CollectorSpec == CollectorInit /\ [][CollectorNext]_cvars

\* Every thread that can go on does: main and the threads it started.  A
\* producer's round ends, by its timeout.  Nothing obliges the signal to come.
CollectorFairSpec ==
  /\ CollectorSpec
  /\ WF_cvars(Main)
  /\ \A p \in Producers : WF_cvars(ProducerLoop(p))
  /\ WF_cvars(CleanerThread)
  /\ \A w \in Workers : WF_cvars(Worker(w))
  /\ WF_cvars(Ticker) /\ WF_cvars(MonitorLeaves)

-----------------------------------------------------------------------------
(* Properties.                                                              *)

\* When main destroys the queues, no thread that fills or empties them is
\* left, not even asleep in one, on every path through the program, rolled back
\* or not.  Who reads the counts is: the statistics thread, which nothing stops,
\* and main itself in its last stats_report, both against ring_queue.c:87.
OnlyStatsOutlive ==
  /\ destroyed => \A t \in Producers \cup {"cleaner"} \cup Workers : Gone(t)
  /\ late \subseteq {"main", "stats"}

\* Workers do not leave work: as long as one of them is there, what is in Q2
\* is sent or cached, also what comes in while the process ends.
WorkersDrain ==
  (q2 > 0 /\ \E w \in Workers : ~Gone(w)) ~> (q2 = 0)

\* Once g_running is 0, main gets through all of its exit: no thread misses
\* the flag or the one wake-up of its queue ("graceful exit",
\* signal_handler.c:6).  The ticker is said to live until every worker has
\* left (dispatcher.c:36-40), so that none of them waits for tokens for ever.
ShutdownEnds == ~running ~> destroyed

=============================================================================
