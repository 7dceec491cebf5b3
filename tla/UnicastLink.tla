---------------------------- MODULE UnicastLink ----------------------------
(***************************************************************************)
(* The one TCP connection to the platform, shared by the dispatch workers  *)
(* (dispatch_one), the monitor thread (heartbeat, reconnect, replay) and,  *)
(* at the end, dispatcher_join: egress/dispatcher.c and                    *)
(* egress/unicast_sender.c.                                                *)
(*                                                                         *)
(* g_unicast_lock guards g_unicast_fd, g_send_lock the bytes on the wire.  *)
(* g_link_lock, which guards online and streak, is held only for single    *)
(* reads and updates and is not modelled.  cache_lock is held by a replay  *)
(* from its first frame to its last, so it is held iff the monitor is at   *)
(* "replaying".  A worker can wait for tokens as long as it likes at       *)
(* "sending", with both locks held.  Timers (1 s, 5 s, 30 s) are           *)
(* nondeterministic: due or not due at every turn.                         *)
(***************************************************************************)
EXTENDS Integers, FiniteSets

CONSTANTS
  Workers,      \* the dispatch threads
  Monitor,      \* the monitor thread
  Frames,       \* the frames in Q2
  Fds,          \* descriptors a connect can return; the kernel reuses them
  NoFd,         \* -1
  NoFrame,
  Free,         \* holder of an unlocked mutex
  LostLimit,    \* HEARTBEAT_LOST_LIMIT
  RetryBucket,  \* g_retry_bucket != NULL
  HasCache      \* g_cfg.cache_path != NULL

ASSUME LinkAssumption ==
  /\ NoFd \notin Fds
  /\ NoFrame \notin Frames
  /\ Monitor \notin Workers
  /\ Workers # {}
  /\ Free \notin Workers \cup {Monitor}
  /\ LostLimit \in Nat \ {0}
  /\ RetryBucket \in BOOLEAN
  /\ HasCache \in BOOLEAN

VARIABLES
  platform,     \* the platform accepts connections
  sock,         \* the connection behind a descriptor
  fd,           \* g_unicast_fd
  online,       \* g_link_online
  streak,       \* g_fail_streak, saturating at LostLimit
  unicastLock,  \* holder of g_unicast_lock
  sendLock,     \* holder of g_send_lock
  step,         \* where a worker is in dispatch_one
  frame,        \* the frame a worker is dispatching
  mon,          \* where the monitor is in its loop
  fresh,        \* result of the monitor's unicast_sender_init
  target,       \* the descriptor a thread read from g_unicast_fd to write to
  queued,       \* frames in Q2, or in a worker's batch and not dispatched yet
  sent,         \* frames unicast_sender_send returned IOT_OK for
  cached,       \* frames in the cache, not replayed yet
  replayed,     \* frames the replay got out
  dropped,      \* frames given up for want of a cache, and counted
  forgotten,    \* frames the cache did not take: no counter shows them
  running,      \* g_running
  stop          \* g_stop

link == <<online, streak>>
locks == <<unicastLock, sendLock>>
fates == <<queued, sent, cached, replayed, dropped, forgotten>>
env == <<platform, running, stop>>
lvars == <<platform, sock, fd, link, locks, step, frame, mon, fresh, target,
           fates, running, stop>>

Threads == Workers \cup {Monitor}

TypeOK ==
  /\ platform \in BOOLEAN
  /\ sock \in [Fds -> {"closed", "open", "reset"}]
  /\ fd \in Fds \cup {NoFd}
  /\ online \in BOOLEAN
  /\ streak \in 0..LostLimit
  /\ unicastLock \in Workers \cup {Free}
  /\ sendLock \in Workers \cup {Free}
  /\ step \in [Workers -> {"idle", "locked", "waiting", "sending", "failed",
                           "exited"}]
  /\ frame \in [Workers -> Frames \cup {NoFrame}]
  /\ mon \in {"top", "heartbeat", "beat", "reconnect", "connect", "install",
              "replay", "snapshot", "replaying", "exited"}
  /\ fresh \in Fds \cup {NoFd}
  /\ target \in [Threads -> Fds \cup {NoFd}]
  /\ \A fate \in {queued, sent, cached, replayed, dropped, forgotten} :
        fate \subseteq Frames
  /\ running \in BOOLEAN
  /\ stop \in BOOLEAN

-----------------------------------------------------------------------------
\* unicast_mark_result(ok).
MarkResult(ok) ==
  /\ streak' = IF ok THEN 0 ELSE IF streak < LostLimit THEN streak + 1 ELSE streak
  /\ online' = IF ok THEN TRUE ELSE online /\ streak + 1 < LostLimit

\* What writing a frame to a descriptor can return: a connection that still
\* stands may time out (SO_SNDTIMEO), one that was reset fails.
WriteResults(s) == IF sock[s] = "open" THEN {TRUE, FALSE} ELSE {FALSE}

\* unicast_sender_close(s), for a descriptor that is not -1.
CloseLink(s) ==
  /\ sock' = [sock EXCEPT ![s] = "closed"]
  /\ online' = FALSE
  /\ streak' = 0

\* dispatcher_start: the first connect, before any thread runs.  A failure
\* leaves the link offline.
Init ==
  /\ platform \in BOOLEAN
  /\ \/ /\ platform
        /\ \E s \in Fds : fd = s /\ sock = [x \in Fds |-> IF x = s THEN "open" ELSE "closed"]
        /\ online = TRUE
        /\ streak = 0
     \/ /\ fd = NoFd
        /\ sock = [x \in Fds |-> "closed"]
        /\ online = FALSE
        /\ streak = 1
  /\ unicastLock = Free
  /\ sendLock = Free
  /\ step = [w \in Workers |-> "idle"]
  /\ frame = [w \in Workers |-> NoFrame]
  /\ mon = "top"
  /\ fresh = NoFd
  /\ target = [t \in Threads |-> NoFd]
  /\ queued = Frames
  /\ sent = {} /\ cached = {} /\ replayed = {} /\ dropped = {} /\ forgotten = {}
  /\ running = TRUE
  /\ stop = FALSE

-----------------------------------------------------------------------------
(* dispatch_worker and dispatch_one.                                        *)

DispatchLock(w) ==
  /\ step[w] = "idle"
  /\ unicastLock = Free
  /\ \E f \in queued :
        /\ queued' = queued \ {f}
        /\ frame' = [frame EXCEPT ![w] = f]
  /\ unicastLock' = w
  /\ step' = [step EXCEPT ![w] = "locked"]
  /\ UNCHANGED <<env, sock, fd, link, sendLock, mon, fresh, target, sent,
                 cached, replayed, dropped, forgotten>>

\* g_unicast_fd >= 0 && unicast_link_online()
DispatchCheck(w) ==
  /\ step[w] = "locked"
  /\ IF fd # NoFd /\ online
     THEN /\ target' = [target EXCEPT ![w] = fd]
          /\ step' = [step EXCEPT ![w] = "waiting"]
          /\ UNCHANGED unicastLock
     ELSE /\ unicastLock' = Free
          /\ step' = [step EXCEPT ![w] = "failed"]
          /\ UNCHANGED target
  /\ UNCHANGED <<env, sock, fd, link, sendLock, frame, mon, fresh, fates>>

SendLock(w) ==
  /\ step[w] = "waiting"
  /\ sendLock = Free
  /\ sendLock' = w
  /\ step' = [step EXCEPT ![w] = "sending"]
  /\ UNCHANGED <<env, sock, fd, link, unicastLock, frame, mon, fresh, target, fates>>

\* The tokens have come and the frame is written, or not.
SendDone(w) ==
  /\ step[w] = "sending"
  /\ \E ok \in WriteResults(target[w]) :
        /\ MarkResult(ok)
        /\ step' = [step EXCEPT ![w] = IF ok THEN "idle" ELSE "failed"]
        /\ sent' = IF ok THEN sent \cup {frame[w]} ELSE sent
        /\ frame' = IF ok THEN [frame EXCEPT ![w] = NoFrame] ELSE frame
  /\ target' = [target EXCEPT ![w] = NoFd]
  /\ sendLock' = Free
  /\ unicastLock' = Free
  /\ UNCHANGED <<env, sock, fd, mon, fresh, queued, cached, replayed, dropped,
                 forgotten>>

\* cache_writer_append, or the drop; the append waits for a running replay.
\* It fails when the cache could not be opened or the write was short, and
\* dispatch_one ignores that.
Fallback(w) ==
  /\ step[w] = "failed"
  /\ \/ /\ HasCache
        /\ mon # "replaying"
        /\ \/ cached' = cached \cup {frame[w]} /\ UNCHANGED forgotten
           \/ forgotten' = forgotten \cup {frame[w]} /\ UNCHANGED cached
        /\ UNCHANGED dropped
     \/ /\ ~HasCache
        /\ dropped' = dropped \cup {frame[w]}
        /\ UNCHANGED <<cached, forgotten>>
  /\ frame' = [frame EXCEPT ![w] = NoFrame]
  /\ step' = [step EXCEPT ![w] = "idle"]
  /\ UNCHANGED <<env, sock, fd, link, locks, mon, fresh, target, queued, sent,
                 replayed>>

\* Bug: g_running is looked at first.
WorkerExitAtOnce(w) ==
  /\ step[w] = "idle"
  /\ ~running
  /\ step' = [step EXCEPT ![w] = "exited"]
  /\ UNCHANGED <<env, sock, fd, link, locks, frame, mon, fresh, target, fates>>

\* ring_pop_batch returned 0: the process is ending and Q2 is empty - what is
\* left in queued is in the batch of a worker that is still there.
WorkerExit(w) ==
  /\ step[w] = "idle"
  /\ queued # {} => \E v \in Workers \ {w} : step[v] # "exited"
  /\ ~running
  /\ step' = [step EXCEPT ![w] = "exited"]
  /\ UNCHANGED <<env, sock, fd, link, locks, frame, mon, fresh, target, fates>>

-----------------------------------------------------------------------------
(* dispatch_monitor.                                                        *)

MonGoto(s) == mon' = s

MonTop ==
  /\ mon = "top"
  /\ MonGoto(IF running /\ ~stop THEN "heartbeat" ELSE "exited")
  /\ UNCHANGED <<env, sock, fd, link, locks, step, frame, fresh, target, fates>>

\* Online, and 30 s since the last heartbeat.
MonBeatDue ==
  /\ mon = "heartbeat"
  /\ online
  /\ MonGoto("beat")
  /\ UNCHANGED <<env, sock, fd, link, locks, step, frame, fresh, target, fates>>

MonNoBeat ==
  /\ mon = "heartbeat"
  /\ MonGoto("reconnect")
  /\ UNCHANGED <<env, sock, fd, link, locks, step, frame, fresh, target, fates>>

\* Bug: a return between lock and unlock leaves g_send_lock locked.
MonBeatKeepsLock ==
  /\ mon = "beat"
  /\ unicastLock = Free
  /\ sendLock = Free
  /\ sendLock' = Monitor
  /\ MonGoto("reconnect")
  /\ UNCHANGED <<env, sock, fd, link, unicastLock, step, frame, fresh, target,
                 fates>>

\* Bug: the result of a heartbeat is not marked.
MonBeatUnmarked ==
  /\ mon = "beat"
  /\ unicastLock = Free
  /\ MonGoto("reconnect")
  /\ UNCHANGED <<env, sock, fd, link, locks, step, frame, fresh, target, fates>>

\* unicast_sender_heartbeat: no tokens, both locks from begin to end.
MonBeat ==
  /\ mon = "beat"
  /\ unicastLock = Free
  /\ IF fd = NoFd
     THEN UNCHANGED link
     ELSE sendLock = Free /\ \E ok \in WriteResults(fd) : MarkResult(ok)
  /\ MonGoto("reconnect")
  /\ UNCHANGED <<env, sock, fd, locks, step, frame, fresh, target, fates>>

\* Offline, and 5 s since the last attempt.
MonReconnectDue ==
  /\ mon = "reconnect"
  /\ ~online
  /\ MonGoto("connect")
  /\ UNCHANGED <<env, sock, fd, link, locks, step, frame, fresh, target, fates>>

MonNoReconnect ==
  /\ mon = "reconnect"
  /\ MonGoto("replay")
  /\ UNCHANGED <<env, sock, fd, link, locks, step, frame, fresh, target, fates>>

\* unicast_sender_init.
MonConnect ==
  /\ mon = "connect"
  /\ \/ /\ platform
        /\ \E s \in Fds :
              /\ sock[s] = "closed"
              /\ sock' = [sock EXCEPT ![s] = "open"]
              /\ fresh' = s
        /\ MarkResult(TRUE)
     \/ /\ UNCHANGED <<sock, fresh>>
        /\ MarkResult(FALSE)
  /\ MonGoto("install")
  /\ UNCHANGED <<env, fd, locks, step, frame, target, fates>>

\* Bug: the old descriptor is overwritten without being closed.
MonInstallLeaks ==
  /\ mon = "install"
  /\ unicastLock = Free
  /\ fd' = fresh
  /\ fresh' = NoFd
  /\ MonGoto("replay")
  /\ UNCHANGED <<env, sock, link, locks, step, frame, target, fates>>

\* Bug: the descriptors are exchanged without g_unicast_lock.
MonInstallUnlocked ==
  /\ mon = "install"
  /\ IF fd # NoFd THEN CloseLink(fd) ELSE UNCHANGED <<sock, link>>
  /\ fd' = fresh
  /\ fresh' = NoFd
  /\ MonGoto("replay")
  /\ UNCHANGED <<env, locks, step, frame, target, fates>>

\* Under g_unicast_lock: the old connection is closed, which takes the link
\* offline, and the result of the connect replaces it.
MonInstall ==
  /\ mon = "install"
  /\ unicastLock = Free
  /\ IF fd # NoFd THEN CloseLink(fd) ELSE UNCHANGED <<sock, link>>
  /\ fd' = fresh
  /\ fresh' = NoFd
  /\ MonGoto("replay")
  /\ UNCHANGED <<env, locks, step, frame, target, fates>>

\* Online, frames pending, and 5 s since the last replay.
MonReplayDue ==
  /\ mon = "replay"
  /\ ~stop
  /\ HasCache
  /\ online
  /\ cached # {}
  /\ MonGoto("snapshot")
  /\ UNCHANGED <<env, sock, fd, link, locks, step, frame, fresh, target, fates>>

MonNoReplay ==
  /\ mon = "replay"
  /\ MonGoto("top")
  /\ UNCHANGED <<env, sock, fd, link, locks, step, frame, fresh, target, fates>>

\* fd = g_unicast_fd under the lock; the replay writes to it without the lock.
MonSnapshot ==
  /\ mon = "snapshot"
  /\ unicastLock = Free
  /\ target' = [target EXCEPT ![Monitor] = fd]
  /\ MonGoto(IF fd = NoFd THEN "top" ELSE "replaying")
  /\ UNCHANGED <<env, sock, fd, link, locks, step, frame, fresh, fates>>

\* unicast_sender_send_with_bucket for one cached frame.  Without a bucket it
\* fails before it writes.
ReplayResults == IF RetryBucket THEN WriteResults(target[Monitor]) ELSE {FALSE}

MonReplaySend ==
  /\ mon = "replaying"
  /\ sendLock = Free
  /\ \E ok \in ReplayResults :
        /\ MarkResult(ok)
        /\ IF ok
           THEN \E f \in cached :
                   /\ cached' = cached \ {f}
                   /\ replayed' = replayed \cup {f}
                   /\ MonGoto(IF cached = {f} THEN "top" ELSE "replaying")
           ELSE /\ UNCHANGED <<cached, replayed>>
                /\ MonGoto("top")
  /\ target' = IF mon' = "top" THEN [target EXCEPT ![Monitor] = NoFd] ELSE target
  /\ UNCHANGED <<env, sock, fd, locks, step, frame, fresh, queued, sent, dropped,
                 forgotten>>

Reconnect ==
  MonReconnectDue \/ MonNoReconnect \/ MonConnect \/ MonInstall

DispatchMonitor ==
  \/ MonTop \/ MonBeatDue \/ MonNoBeat \/ MonBeat
  \/ Reconnect
  \/ MonReplayDue \/ MonNoReplay \/ MonSnapshot \/ MonReplaySend

-----------------------------------------------------------------------------
(* Shutdown and environment.                                                *)

OnExitSignal ==
  /\ running
  /\ running' = FALSE
  /\ UNCHANGED <<platform, stop, sock, fd, link, locks, step, frame, mon, fresh,
                 target, fates>>

DispatcherStop ==
  /\ ~running
  /\ ~stop
  /\ stop' = TRUE
  /\ UNCHANGED <<platform, running, sock, fd, link, locks, step, frame, mon,
                 fresh, target, fates>>

\* dispatcher_join, after it has joined every worker and the monitor.
DispatcherJoin ==
  /\ stop
  /\ \A w \in Workers : step[w] = "exited"
  /\ mon = "exited"
  /\ fd # NoFd
  /\ CloseLink(fd)
  /\ fd' = NoFd
  /\ UNCHANGED <<env, locks, step, frame, mon, fresh, target, fates>>

PlatformChanges ==
  /\ platform' = ~platform
  /\ UNCHANGED <<running, stop, sock, fd, link, locks, step, frame, mon, fresh,
                 target, fates>>

\* The peer or the network breaks a connection.
PeerReset ==
  /\ \E s \in Fds : sock[s] = "open" /\ sock' = [sock EXCEPT ![s] = "reset"]
  /\ UNCHANGED <<env, fd, link, locks, step, frame, mon, fresh, target, fates>>

-----------------------------------------------------------------------------
DispatchWorker(w) ==
  \/ DispatchLock(w) \/ DispatchCheck(w) \/ SendLock(w) \/ SendDone(w)
  \/ Fallback(w) \/ WorkerExit(w)

Next ==
  \/ \E w \in Workers : DispatchWorker(w)
  \/ DispatchMonitor
  \/ OnExitSignal \/ DispatcherStop \/ DispatcherJoin
  \/ PlatformChanges \/ PeerReset

Spec == Init /\ [][Next]_lvars

\* The threads run; while the process runs the ticker brings tokens; a worker
\* or the monitor that waits for a mutex others release again and again gets
\* it in the end; and the 30 s of the heartbeat pass.
Fairness ==
  /\ \A w \in Workers :
        /\ WF_lvars(DispatchCheck(w) \/ SendLock(w) \/ Fallback(w))
        /\ WF_lvars(running /\ SendDone(w))
  /\ WF_lvars(MonTop)
  /\ WF_lvars(MonNoBeat)
  /\ SF_lvars(MonBeatDue)
  /\ SF_lvars(MonBeat)
  /\ WF_lvars(MonNoReconnect)
  /\ WF_lvars(MonConnect)
  /\ SF_lvars(MonInstall)
  /\ WF_lvars(MonNoReplay)
  /\ SF_lvars(MonSnapshot)
  /\ SF_lvars(MonReplaySend)

FairSpec == Spec /\ Fairness

-----------------------------------------------------------------------------
(* Properties.                                                              *)

\* Descriptors a thread is about to write to, or writing to.
InUse == {target[t] : t \in Threads} \ {NoFd}

\* No thread closes a descriptor that another one is about to write to - the
\* reason for g_unicast_lock (dispatcher.c:42).  The kernel reuses numbers, so
\* such a write would go to another connection.
NoCloseUnderSender ==
  [][\A s \in InUse : sock[s] # "closed" => sock'[s] # "closed"]_lvars

\* A connection is open for as long as g_unicast_fd or the monitor's fresh
\* descriptor names it: none leaks, and neither names a closed one.
ConnectionsOwned == {s \in Fds : sock[s] # "closed"} = {fd, fresh} \ {NoFd}

\* A reset connection is found out: three failures, of frames or heartbeats,
\* take the link offline, while no thread dies waiting for a lock.
LossDetected ==
  \A s \in Fds :
     (running /\ fd = s /\ sock[s] = "reset")
       ~> (~running \/ ~online \/ fd # s)

\* Where a frame can be, other than in the hand of a worker.
OneFate ==
  /\ queued \cap (sent \cup cached \cup replayed \cup dropped \cup forgotten) = {}
  /\ sent \cap (cached \cup replayed \cup dropped \cup forgotten) = {}
  /\ cached \cap (replayed \cup dropped \cup forgotten) = {}
  /\ replayed \cap (dropped \cup forgotten) = {}
  /\ dropped \cap forgotten = {}

\* A frame has at most one fate, however failures, replays and the exit fall
\* together, and the workers leave when Q2 is empty: then every frame went out,
\* is in the cache or was counted as dropped - save those cache_writer_append
\* did not take (cache_writer.c:82-90): dispatcher.c:98 ignores its result, and
\* they are neither kept nor counted.
FramesAccounted ==
  /\ OneFate
  /\ (\A w \in Workers : step[w] = "exited")
       => sent \cup cached \cup replayed \cup dropped = Frames \ forgotten

\* After a successful reconnect the link is online when the loop comes to the
\* replay (dispatcher.c:218-220: "two cases lead here: 1) just reconnected").
ReplayFollowsReconnect ==
  [][mon = "install" /\ mon' = "replay" /\ fresh # NoFd => online']_lvars

=============================================================================
