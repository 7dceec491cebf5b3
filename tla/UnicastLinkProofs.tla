------------------------- MODULE UnicastLinkProofs -------------------------
(***************************************************************************)
(* Theorems about UnicastLink for any number of dispatch threads, frames   *)
(* and descriptors: who closes and who writes to which connection.         *)
(***************************************************************************)
EXTENDS UnicastLink, TLAPS

USE LinkAssumption

\* A worker between Q2 and the end of dispatch_one has a frame in its hand.
HandsFull ==
  \A w \in Workers : step[w] \notin {"idle", "exited"} => frame[w] \in Frames

\* TypeOK alone is not inductive: what a worker sends or caches is a frame.
Typed == TypeOK /\ HandsFull

\* A mutex is held by a worker exactly in the part of dispatch_one that lies
\* between lock and unlock.
HoldersKnown ==
  \A w \in Workers :
     /\ unicastLock = w <=> step[w] \in {"locked", "waiting", "sending"}
     /\ sendLock = w <=> step[w] = "sending"

\* What a thread is about to write to is g_unicast_fd: for a worker because it
\* holds g_unicast_lock, for the replay, which has a copy and no lock, because
\* nobody but the monitor itself changes g_unicast_fd while it runs.
TargetsCurrent ==
  /\ \A w \in Workers :
        /\ step[w] \in {"waiting", "sending"} => target[w] = fd /\ fd # NoFd
        /\ step[w] \notin {"waiting", "sending"} => target[w] = NoFd
  /\ mon = "replaying" => target[Monitor] = fd /\ fd # NoFd
  /\ mon # "replaying" => target[Monitor] = NoFd

\* A fresh connection waits to be installed and is not the installed one.
FreshIsNew == fresh # NoFd => mon = "install" /\ fresh # fd

Ownership == HoldersKnown /\ TargetsCurrent /\ FreshIsNew /\ ConnectionsOwned

\* The inductive invariant: ConnectionsOwned alone does not show that a close
\* under g_unicast_lock leaves the fresh connection alone.
LinkIInv ==
  /\ Typed
  /\ Ownership

\* The invariant holds when dispatcher_start has connected, or failed to.
LEMMA InitLink == Init => LinkIInv
  <1> SUFFICES ASSUME Init PROVE LinkIInv
    OBVIOUS
  <1>1. Typed
    <2>1. sock \in [Fds -> {"closed", "open", "reset"}] /\ fd \in Fds \cup {NoFd}
      BY DEF Init
    <2>2. online \in BOOLEAN /\ (streak = 0 \/ streak = 1)
      BY Zenon DEF Init
    <2>8. streak \in 0..LostLimit
      BY <2>2
    <2>3. \A fate \in {queued, sent, cached, replayed, dropped, forgotten} :
            fate \subseteq Frames
      BY DEF Init
    <2>4. /\ step \in [Workers -> {"idle", "locked", "waiting", "sending",
                                  "failed", "exited"}]
          /\ frame \in [Workers -> Frames \cup {NoFrame}]
          /\ target \in [Threads -> Fds \cup {NoFd}]
      BY DEF Init, Threads
    <2>5. HandsFull
      BY DEF Init, HandsFull
    <2>6. /\ unicastLock \in Workers \cup {Free} /\ sendLock \in Workers \cup {Free}
          /\ mon \in {"top", "heartbeat", "beat", "reconnect", "connect",
                     "install", "replay", "snapshot", "replaying", "exited"}
          /\ fresh \in Fds \cup {NoFd}
      BY DEF Init
    <2>7. platform \in BOOLEAN /\ running \in BOOLEAN /\ stop \in BOOLEAN
      BY DEF Init
    <2> QED
      BY <2>1, <2>2, <2>3, <2>4, <2>5, <2>6, <2>7, <2>8, Zenon DEF Typed, TypeOK
  <1>2. HoldersKnown /\ TargetsCurrent /\ FreshIsNew
    BY DEF Init, HoldersKnown, TargetsCurrent, FreshIsNew, Threads
  <1>3. ConnectionsOwned
    BY DEF Init, ConnectionsOwned
  <1> QED
    BY <1>1, <1>2, <1>3 DEF LinkIInv, Ownership

\* unicast_mark_result keeps the types of the flag and the streak.
LEMMA MarkTypes ==
  ASSUME TypeOK, NEW ok \in BOOLEAN, MarkResult(ok)
  PROVE  online' \in BOOLEAN /\ streak' \in 0..LostLimit
  <1>1. online \in BOOLEAN /\ streak \in 0..LostLimit
    BY DEF TypeOK
  <1>2. streak' \in 0..LostLimit
    BY <1>1 DEF MarkResult
  <1>3. online' \in BOOLEAN
    BY <1>1, Zenon DEF MarkResult
  <1> QED
    BY <1>2, <1>3

-----------------------------------------------------------------------------
(* The workers.                                                             *)

\* Every step of a dispatch thread keeps the types.
LEMMA WorkerTypes ==
  ASSUME Typed, NEW w \in Workers, DispatchWorker(w)
  PROVE  Typed'
  <1> USE DEF Typed, TypeOK, HandsFull, env, link, locks, fates, Threads
  <1>1. CASE DispatchLock(w)
    BY <1>1 DEF DispatchLock
  <1>2. CASE DispatchCheck(w)
    BY <1>2 DEF DispatchCheck
  <1>3. CASE SendLock(w)
    BY <1>3 DEF SendLock
  <1>4. CASE SendDone(w)
    <2>1. PICK ok \in BOOLEAN :
             /\ MarkResult(ok)
             /\ step' = [step EXCEPT ![w] = IF ok THEN "idle" ELSE "failed"]
             /\ sent' = IF ok THEN sent \cup {frame[w]} ELSE sent
             /\ frame' = IF ok THEN [frame EXCEPT ![w] = NoFrame] ELSE frame
      BY <1>4 DEF SendDone, WriteResults
    <2>2. online' \in BOOLEAN /\ streak' \in 0..LostLimit
      BY <2>1, MarkTypes
    <2>3. frame[w] \in Frames
      BY <1>4 DEF SendDone
    <2>4. /\ step' \in [Workers -> {"idle", "locked", "waiting", "sending",
                                   "failed", "exited"}]
          /\ frame' \in [Workers -> Frames \cup {NoFrame}]
          /\ sent' \subseteq Frames
      BY <2>1, <2>3
    <2>5. HandsFull'
      BY <2>1, <2>3
    <2>6. /\ target' \in [Threads -> Fds \cup {NoFd}]
          /\ unicastLock' \in Workers \cup {Free} /\ sendLock' \in Workers \cup {Free}
      BY <1>4 DEF SendDone
    <2>7. \A fate \in {queued, sent', cached, replayed, dropped, forgotten} :
            fate \subseteq Frames
      BY <2>4
    <2>8. UNCHANGED <<env, sock, fd, mon, fresh, queued, cached, replayed, dropped,
                       forgotten>>
      BY <1>4 DEF SendDone
    <2> QED
      BY <2>2, <2>4, <2>5, <2>6, <2>7, <2>8
  <1>5. CASE Fallback(w)
    BY <1>5, frame[w] \in Frames DEF Fallback
  <1>6. CASE WorkerExit(w)
    BY <1>6 DEF WorkerExit
  <1> QED
    BY <1>1, <1>2, <1>3, <1>4, <1>5, <1>6 DEF DispatchWorker

\* Every step of a dispatch thread keeps who owns and who holds what.
LEMMA WorkerOwnership ==
  ASSUME Typed, Ownership, NEW w \in Workers, DispatchWorker(w)
  PROVE  Ownership'
  <1>1. sock' = sock /\ fd' = fd /\ fresh' = fresh /\ mon' = mon
    BY DEF DispatchWorker, DispatchLock, DispatchCheck, SendLock, SendDone,
           Fallback, WorkerExit
  <1>2. FreshIsNew' /\ ConnectionsOwned'
    BY <1>1 DEF Ownership, FreshIsNew, ConnectionsOwned
  <1>3. HoldersKnown' /\ TargetsCurrent'
    <2> USE DEF Typed, TypeOK, Ownership, HoldersKnown, TargetsCurrent, locks, Threads
    <2>1. CASE DispatchLock(w)
      BY <1>1, <2>1 DEF DispatchLock
    <2>2. CASE DispatchCheck(w)
      BY <1>1, <2>2 DEF DispatchCheck
    <2>3. CASE SendLock(w)
      BY <1>1, <2>3 DEF SendLock
    <2>4. CASE SendDone(w)
      BY <1>1, <2>4 DEF SendDone
    <2>5. CASE Fallback(w)
      BY <1>1, <2>5 DEF Fallback
    <2>6. CASE WorkerExit(w)
      BY <1>1, <2>6 DEF WorkerExit
    <2> QED
      BY <2>1, <2>2, <2>3, <2>4, <2>5, <2>6 DEF DispatchWorker
  <1> QED
    BY <1>2, <1>3 DEF Ownership

-----------------------------------------------------------------------------
(* The monitor.                                                             *)

\* Every step of the monitor keeps the types.
LEMMA MonitorTypes ==
  ASSUME Typed, DispatchMonitor
  PROVE  Typed'
  <1> USE DEF Typed, TypeOK, HandsFull, env, link, locks, fates, Threads, MonGoto
  <1>1. CASE MonTop
    BY <1>1 DEF MonTop
  <1>2. CASE MonBeatDue \/ MonNoBeat
    BY <1>2 DEF MonBeatDue, MonNoBeat
  <1>3. CASE MonBeat
    <2>1. online' \in BOOLEAN /\ streak' \in 0..LostLimit
      <3>1. CASE UNCHANGED link
        BY <3>1
      <3>2. CASE \E ok \in BOOLEAN : MarkResult(ok)
        BY <3>2, MarkTypes
      <3> QED
        BY <1>3, <3>1, <3>2 DEF MonBeat, WriteResults
    <2> QED
      BY <1>3, <2>1 DEF MonBeat
  <1>4. CASE MonReconnectDue \/ MonNoReconnect
    BY <1>4 DEF MonReconnectDue, MonNoReconnect
  <1>5. CASE MonConnect
    <2>1. online' \in BOOLEAN /\ streak' \in 0..LostLimit
      BY <1>5, MarkTypes DEF MonConnect
    <2>2. /\ sock' \in [Fds -> {"closed", "open", "reset"}]
          /\ fresh' \in Fds \cup {NoFd}
      BY <1>5 DEF MonConnect
    <2> QED
      BY <1>5, <2>1, <2>2 DEF MonConnect
  <1>6. CASE MonInstall
    <2>1. online' \in BOOLEAN
      BY <1>6, Zenon DEF MonInstall, CloseLink
    <2>2. streak' \in 0..LostLimit
      BY <1>6 DEF MonInstall, CloseLink
    <2>3. sock' \in [Fds -> {"closed", "open", "reset"}]
      BY <1>6 DEF MonInstall, CloseLink
    <2> QED
      BY <1>6, <2>1, <2>2, <2>3 DEF MonInstall
  <1>7. CASE MonReplayDue \/ MonNoReplay
    BY <1>7 DEF MonReplayDue, MonNoReplay
  <1>8. CASE MonSnapshot
    BY <1>8 DEF MonSnapshot
  <1>9. CASE MonReplaySend
    <2>1. online' \in BOOLEAN /\ streak' \in 0..LostLimit
      BY <1>9, MarkTypes DEF MonReplaySend, ReplayResults, WriteResults
    <2>2. /\ cached' \subseteq Frames /\ replayed' \subseteq Frames
          /\ mon' \in {"top", "replaying"}
      BY <1>9 DEF MonReplaySend
    <2>3. target' \in [Threads -> Fds \cup {NoFd}]
      BY <1>9 DEF MonReplaySend
    <2> QED
      BY <1>9, <2>1, <2>2, <2>3 DEF MonReplaySend
  <1> QED
    BY <1>1, <1>2, <1>3, <1>4, <1>5, <1>6, <1>7, <1>8, <1>9
    DEF DispatchMonitor, Reconnect

\* While g_unicast_lock is free and no replay runs, nobody is about to write.
LEMMA NobodyWrites ==
  ASSUME Typed, Ownership, unicastLock = Free, mon # "replaying"
  PROVE  InUse = {}
  BY DEF Ownership, HoldersKnown, TargetsCurrent, InUse, Threads

\* Every step of the monitor keeps who owns and who holds what.
LEMMA MonitorOwnership ==
  ASSUME Typed, Ownership, DispatchMonitor
  PROVE  Ownership'
  <1> USE DEF Typed, TypeOK, Ownership, locks, Threads, MonGoto
  <1>1. CASE MonTop \/ MonBeatDue \/ MonNoBeat \/ MonBeat \/ MonReconnectDue
             \/ MonNoReconnect \/ MonReplayDue \/ MonNoReplay
    <2>1. /\ UNCHANGED <<sock, fd, fresh, locks, step, target>>
          /\ mon \notin {"replaying", "install"} /\ mon' \notin {"replaying"}
      BY <1>1 DEF MonTop, MonBeatDue, MonNoBeat, MonBeat, MonReconnectDue,
                  MonNoReconnect, MonReplayDue, MonNoReplay
    <2> QED
      BY <2>1 DEF HoldersKnown, TargetsCurrent, FreshIsNew, ConnectionsOwned
  <1>2. CASE MonConnect
    <2>1. UNCHANGED <<fd, locks, step, target>> /\ mon = "connect" /\ mon' = "install"
      BY <1>2 DEF MonConnect
    <2>2. fresh = NoFd
      BY <2>1 DEF FreshIsNew
    <2>3. FreshIsNew' /\ ConnectionsOwned'
      <3>1. CASE UNCHANGED <<sock, fresh>>
        BY <2>1, <2>2, <3>1 DEF FreshIsNew, ConnectionsOwned
      <3>2. ASSUME NEW s \in Fds, sock[s] = "closed", fresh' = s,
                   sock' = [sock EXCEPT ![s] = "open"]
            PROVE  FreshIsNew' /\ ConnectionsOwned'
        BY <2>1, <2>2, <3>2 DEF FreshIsNew, ConnectionsOwned
      <3> QED
        BY <1>2, <3>1, <3>2 DEF MonConnect
    <2> QED
      BY <2>1, <2>3 DEF HoldersKnown, TargetsCurrent
  <1>3. CASE MonInstall
    <2>1. /\ UNCHANGED <<locks, step, target>> /\ unicastLock = Free
          /\ mon = "install" /\ mon' = "replay" /\ fd' = fresh /\ fresh' = NoFd
          /\ sock' = IF fd # NoFd THEN [sock EXCEPT ![fd] = "closed"] ELSE sock
      BY <1>3 DEF MonInstall, CloseLink
    <2>2. ConnectionsOwned'
      BY <2>1 DEF FreshIsNew, ConnectionsOwned
    <2>3. HoldersKnown' /\ TargetsCurrent' /\ FreshIsNew'
      BY <2>1 DEF HoldersKnown, TargetsCurrent, FreshIsNew
    <2> QED
      BY <2>2, <2>3
  <1>4. CASE MonSnapshot
    BY <1>4 DEF MonSnapshot, HoldersKnown, TargetsCurrent, FreshIsNew,
                ConnectionsOwned
  <1>5. CASE MonReplaySend
    <2>1. /\ UNCHANGED <<sock, fd, fresh, locks, step>>
          /\ mon = "replaying" /\ mon' \in {"top", "replaying"}
          /\ target' = IF mon' = "top" THEN [target EXCEPT ![Monitor] = NoFd]
                       ELSE target
      BY <1>5 DEF MonReplaySend
    <2> QED
      BY <2>1 DEF HoldersKnown, TargetsCurrent, FreshIsNew, ConnectionsOwned
  <1> QED
    BY <1>1, <1>2, <1>3, <1>4, <1>5 DEF DispatchMonitor, Reconnect

-----------------------------------------------------------------------------
(* The rest of the process, the peer and the network.                       *)

\* Exit, stop, the platform and resets keep the types.
LEMMA OtherTypes ==
  ASSUME Typed,
         \/ OnExitSignal \/ DispatcherStop \/ DispatcherJoin
         \/ PlatformChanges \/ PeerReset
  PROVE  Typed'
  <1> USE DEF Typed, TypeOK, HandsFull, env, link, locks, fates, Threads
  <1>1. CASE OnExitSignal \/ DispatcherStop \/ PlatformChanges
    BY <1>1 DEF OnExitSignal, DispatcherStop, PlatformChanges
  <1>2. CASE DispatcherJoin
    <2>1. sock' \in [Fds -> {"closed", "open", "reset"}]
      BY <1>2 DEF DispatcherJoin, CloseLink
    <2>2. online' \in BOOLEAN
      BY <1>2, Zenon DEF DispatcherJoin, CloseLink
    <2>3. streak' \in 0..LostLimit
      BY <1>2 DEF DispatcherJoin, CloseLink
    <2> QED
      BY <1>2, <2>1, <2>2, <2>3 DEF DispatcherJoin
  <1>3. CASE PeerReset
    BY <1>3 DEF PeerReset
  <1> QED
    BY <1>1, <1>2, <1>3

\* dispatcher_join closes when every thread is gone, and a reset closes nothing.
LEMMA OtherOwnership ==
  ASSUME Typed, Ownership,
         \/ OnExitSignal \/ DispatcherStop \/ DispatcherJoin
         \/ PlatformChanges \/ PeerReset
  PROVE  Ownership'
  <1> USE DEF Typed, TypeOK, Ownership, locks, Threads
  <1>1. CASE OnExitSignal \/ DispatcherStop \/ PlatformChanges
    BY <1>1 DEF OnExitSignal, DispatcherStop, PlatformChanges, HoldersKnown,
                TargetsCurrent, FreshIsNew, ConnectionsOwned
  <1>2. CASE DispatcherJoin
    <2>1. /\ UNCHANGED <<fresh, locks, step, target, mon>> /\ mon = "exited"
          /\ \A w \in Workers : step[w] = "exited"
          /\ fd # NoFd /\ fd' = NoFd /\ sock' = [sock EXCEPT ![fd] = "closed"]
      BY <1>2 DEF DispatcherJoin, CloseLink
    <2> QED
      BY <2>1 DEF HoldersKnown, TargetsCurrent, FreshIsNew, ConnectionsOwned
  <1>3. CASE PeerReset
    <2>1. PICK s \in Fds : sock[s] = "open" /\ sock' = [sock EXCEPT ![s] = "reset"]
      BY <1>3 DEF PeerReset
    <2>2. UNCHANGED <<fd, fresh, locks, step, target, mon>>
      BY <1>3 DEF PeerReset
    <2> QED
      BY <2>1, <2>2 DEF HoldersKnown, TargetsCurrent, FreshIsNew, ConnectionsOwned
  <1> QED
    BY <1>1, <1>2, <1>3

\* The invariant is inductive.
LEMMA NextLink == LinkIInv /\ [Next]_lvars => LinkIInv'
  <1> SUFFICES ASSUME LinkIInv, [Next]_lvars PROVE LinkIInv'
    OBVIOUS
  <1>1. CASE Next
    BY <1>1, WorkerTypes, WorkerOwnership, MonitorTypes, MonitorOwnership,
       OtherTypes, OtherOwnership DEF Next, LinkIInv
  <1>2. CASE UNCHANGED lvars
    BY <1>2 DEF lvars, link, locks, fates, LinkIInv, Typed, TypeOK, HandsFull,
       Ownership, HoldersKnown, TargetsCurrent, FreshIsNew, ConnectionsOwned,
       Threads
  <1> QED
    BY <1>1, <1>2

LEMMA LinkInvariant == Spec => []LinkIInv
  BY InitLink, NextLink, PTL DEF Spec

-----------------------------------------------------------------------------
(* The theorems.                                                            *)

\* Every variable keeps its type; in particular what a worker sends or caches
\* is a frame of Q2.
THEOREM LinkTyping == Spec => []TypeOK
  <1>1. LinkIInv => TypeOK
    BY DEF LinkIInv, Typed
  <1> QED
    BY <1>1, LinkInvariant, PTL

\* No connection leaks and none that is named is closed, through any number of
\* reconnects, resets and reuses of a descriptor (dispatcher.c:193-216).
THEOREM LinkOwned == Spec => []ConnectionsOwned
  <1>1. LinkIInv => ConnectionsOwned
    BY DEF LinkIInv, Ownership
  <1> QED
    BY <1>1, LinkInvariant, PTL

\* The two places that close g_unicast_fd close it under no sender: neither
\* under a worker nor under the replay, which has no lock.
LEMMA CloseIsSafe ==
  ASSUME LinkIInv, [Next]_lvars, NEW s \in InUse, sock[s] # "closed"
  PROVE  sock'[s] # "closed"
  <1> USE DEF LinkIInv, Typed, TypeOK, env, locks, fates, Threads
  <1>1. CASE MonInstall
    BY <1>1, NobodyWrites DEF MonInstall
  <1>2. CASE DispatcherJoin
    <2>1. InUse = {}
      BY <1>2 DEF DispatcherJoin, Ownership, TargetsCurrent, InUse
    <2> QED
      BY <2>1
  <1>8. s \in Fds
    BY DEF InUse
  <1>3. CASE MonConnect
    BY <1>3, <1>8 DEF MonConnect
  <1>4. CASE PeerReset
    BY <1>4, <1>8 DEF PeerReset
  <1>5. CASE \E w \in Workers : DispatchWorker(w)
    BY <1>5 DEF DispatchWorker, DispatchLock, DispatchCheck, SendLock, SendDone,
                Fallback, WorkerExit
  <1>6. CASE DispatchMonitor /\ ~MonConnect /\ ~MonInstall
    BY <1>6 DEF DispatchMonitor, Reconnect, MonTop, MonBeatDue, MonNoBeat, MonBeat,
                MonReconnectDue, MonNoReconnect, MonReplayDue, MonNoReplay,
                MonSnapshot, MonReplaySend
  <1>7. CASE OnExitSignal \/ DispatcherStop \/ PlatformChanges \/ UNCHANGED lvars
    BY <1>7 DEF OnExitSignal, DispatcherStop, PlatformChanges, lvars
  <1> QED
    BY <1>1, <1>2, <1>3, <1>4, <1>5, <1>6, <1>7 DEF Next

\* No thread closes a descriptor that another one writes to, for any number of
\* workers (dispatcher.c:42).
THEOREM SendersKeepConnection == Spec => NoCloseUnderSender
  <1>1. LinkIInv /\ [Next]_lvars =>
          [\A s \in InUse : sock[s] # "closed" => sock'[s] # "closed"]_lvars
    BY CloseIsSafe
  <1> QED
    BY <1>1, LinkInvariant, PTL DEF Spec, NoCloseUnderSender

-----------------------------------------------------------------------------
(* Where the frames are.                                                    *)

Gone == sent \cup cached \cup replayed \cup dropped \cup forgotten
Busy(w) == step[w] \notin {"idle", "exited"}

\* Frames are in Q2, in a hand, or dealt with; and the last worker to leave
\* leaves no frame behind.
FramesSomewhere ==
  /\ \A f \in Frames : f \in queued \/ f \in Gone \/ \E w \in Workers : Busy(w) /\ frame[w] = f
  /\ (\A w \in Workers : step[w] = "exited") => queued = {}

\* What a worker has in its hand is nowhere else.
HandsApart ==
  /\ \A w \in Workers : Busy(w) => frame[w] \notin queued \cup Gone
  /\ \A v, w \in Workers : Busy(v) /\ Busy(w) /\ frame[v] = frame[w] => v = w

FramesIInv == FramesSomewhere /\ HandsApart /\ OneFate

\* A worker takes a frame from Q2 to its end and leaves when there is none.
LEMMA WorkerSomewhere ==
  ASSUME Typed, FramesSomewhere, NEW w \in Workers, DispatchWorker(w)
  PROVE  FramesSomewhere'
  <1> USE DEF Typed, TypeOK, FramesSomewhere, Busy, Gone, fates
  <1>1. CASE DispatchLock(w)
    BY <1>1 DEF DispatchLock
  <1>2. CASE DispatchCheck(w)
    BY <1>2 DEF DispatchCheck
  <1>3. CASE SendLock(w)
    BY <1>3 DEF SendLock
  <1>4. CASE SendDone(w)
    <2>1. PICK ok \in BOOLEAN :
             /\ step' = [step EXCEPT ![w] = IF ok THEN "idle" ELSE "failed"]
             /\ sent' = IF ok THEN sent \cup {frame[w]} ELSE sent
             /\ frame' = IF ok THEN [frame EXCEPT ![w] = NoFrame] ELSE frame
      BY <1>4 DEF SendDone, WriteResults
    <2>2. step[w] = "sending" /\ UNCHANGED <<queued, cached, replayed, dropped, forgotten>>
      BY <1>4 DEF SendDone
    <2>3. CASE ok
      BY <2>1, <2>2, <2>3
    <2>4. CASE ~ok
      BY <2>1, <2>2, <2>4
    <2> QED
      BY <2>3, <2>4
  <1>5. CASE Fallback(w)
    <2>1. /\ step[w] = "failed" /\ step' = [step EXCEPT ![w] = "idle"]
          /\ frame' = [frame EXCEPT ![w] = NoFrame]
          /\ UNCHANGED <<queued, sent, replayed>>
          /\ cached' \cup dropped' \cup forgotten'
               = cached \cup dropped \cup forgotten \cup {frame[w]}
      BY <1>5 DEF Fallback
    <2> QED
      BY <2>1
  <1>6. CASE WorkerExit(w)
    BY <1>6 DEF WorkerExit
  <1> QED
    BY <1>1, <1>2, <1>3, <1>4, <1>5, <1>6 DEF DispatchWorker

\* It gives the frame in its hand one fate, and only that frame.
LEMMA WorkerApart ==
  ASSUME Typed, HandsApart, OneFate, NEW w \in Workers, DispatchWorker(w)
  PROVE  HandsApart' /\ OneFate'
  <1> USE DEF Typed, TypeOK, HandsApart, OneFate, Busy, Gone, fates
  <1>1. CASE DispatchLock(w)
    <2>1. PICK f \in queued : queued' = queued \ {f} /\ frame' = [frame EXCEPT ![w] = f]
      BY <1>1 DEF DispatchLock
    <2>2. /\ step' = [step EXCEPT ![w] = "locked"]
          /\ UNCHANGED <<sent, cached, replayed, dropped, forgotten>>
      BY <1>1 DEF DispatchLock
    <2> QED
      BY <2>1, <2>2
  <1>2. CASE DispatchCheck(w)
    BY <1>2 DEF DispatchCheck
  <1>3. CASE SendLock(w)
    BY <1>3 DEF SendLock
  <1>4. CASE SendDone(w)
    <2>1. PICK ok \in BOOLEAN :
             /\ step' = [step EXCEPT ![w] = IF ok THEN "idle" ELSE "failed"]
             /\ sent' = IF ok THEN sent \cup {frame[w]} ELSE sent
             /\ frame' = IF ok THEN [frame EXCEPT ![w] = NoFrame] ELSE frame
      BY <1>4 DEF SendDone, WriteResults
    <2>2. step[w] = "sending" /\ UNCHANGED <<queued, cached, replayed, dropped, forgotten>>
      BY <1>4 DEF SendDone
    <2>3. CASE ok
      BY <2>1, <2>2, <2>3
    <2>4. CASE ~ok
      BY <2>1, <2>2, <2>4
    <2> QED
      BY <2>3, <2>4
  <1>5. CASE Fallback(w)
    <2>1. /\ step[w] = "failed" /\ step' = [step EXCEPT ![w] = "idle"]
          /\ frame' = [frame EXCEPT ![w] = NoFrame]
          /\ UNCHANGED <<queued, sent, replayed>>
      BY <1>5 DEF Fallback
    <2>2. \/ cached' = cached \cup {frame[w]} /\ UNCHANGED <<dropped, forgotten>>
          \/ forgotten' = forgotten \cup {frame[w]} /\ UNCHANGED <<cached, dropped>>
          \/ dropped' = dropped \cup {frame[w]} /\ UNCHANGED <<cached, forgotten>>
      BY <1>5 DEF Fallback
    <2> QED
      BY <2>1, <2>2
  <1>6. CASE WorkerExit(w)
    BY <1>6 DEF WorkerExit
  <1> QED
    BY <1>1, <1>2, <1>3, <1>4, <1>5, <1>6 DEF DispatchWorker

\* A replay moves frames from the cache to the platform; nobody else moves any.
LEMMA OtherFrames ==
  ASSUME Typed, FramesIInv, [Next]_lvars,
         ~\E w \in Workers : DispatchWorker(w)
  PROVE  FramesIInv'
  <1> USE DEF FramesIInv, FramesSomewhere, HandsApart, OneFate, Busy, Gone
  <1>1. CASE MonReplaySend
    <2>1. UNCHANGED <<step, frame, queued, sent, dropped, forgotten>>
      BY <1>1 DEF MonReplaySend
    <2>2. \/ UNCHANGED <<cached, replayed>>
          \/ \E f \in cached : cached' = cached \ {f} /\ replayed' = replayed \cup {f}
      BY <1>1 DEF MonReplaySend
    <2> QED
      BY <2>1, <2>2
  <1>2. CASE ~MonReplaySend
    <2>1. UNCHANGED <<step, frame, fates>>
      BY <1>2 DEF Next, DispatchMonitor, Reconnect, MonTop, MonBeatDue, MonNoBeat,
                  MonBeat, MonReconnectDue, MonNoReconnect, MonConnect, MonInstall,
                  MonReplayDue, MonNoReplay, MonSnapshot, OnExitSignal,
                  DispatcherStop, DispatcherJoin, PlatformChanges, PeerReset, lvars
    <2> QED
      BY <2>1 DEF fates
  <1> QED
    BY <1>1, <1>2

\* However often the link fails and the monitor replays, a frame has at most one
\* fate; and when the workers have left, each was sent, cached, replayed or
\* dropped for want of a cache, or is one whose append failed unnoticed.
THEOREM FramesHaveOneFate == Spec => []FramesAccounted
  <1>1. Init => FramesIInv
    BY DEF Init, FramesIInv, FramesSomewhere, HandsApart, OneFate, Busy, Gone
  <1>2. LinkIInv /\ FramesIInv /\ [Next]_lvars => FramesIInv'
    BY WorkerSomewhere, WorkerApart, OtherFrames DEF LinkIInv, FramesIInv
  <1>3. LinkIInv /\ FramesIInv => FramesAccounted
    BY DEF LinkIInv, Typed, TypeOK, FramesIInv, FramesSomewhere, OneFate, Busy, Gone,
       FramesAccounted
  <1> QED
    BY <1>1, <1>2, <1>3, LinkInvariant, PTL DEF Spec

=============================================================================
