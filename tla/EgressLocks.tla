---------------------------- MODULE EgressLocks ----------------------------
(***************************************************************************)
(* The mutexes of the running process, and the order in which its threads  *)
(* take them: g_unicast_lock (dispatcher.c), g_send_lock                   *)
(* (unicast_sender.c), the lock of a token bucket (tbf.c), stats_lock      *)
(* (stats.c) and cache_lock (cache_writer.c).                              *)
(*                                                                         *)
(* What a thread does in one turn of its loop is a program: the sequence   *)
(* of its lock and unlock calls.  A turn that can go several ways is a set *)
(* of programs.  g_link_lock and the locks of the queues are left out: no  *)
(* other lock is taken inside them, so they close no circle.               *)
(***************************************************************************)
EXTENDS Integers, Sequences, SequencesExt

CONSTANTS
  Workers,          \* the dispatch threads
  Monitor, StatsThread, Ticker,
  CleanerThread,    \* stands for every thread that just counts something
  Free,             \* holder of an unlocked mutex
  Throttled,        \* more traffic than the bucket's rate: tokens run out
  RetryBucket       \* g_retry_bucket != NULL

Threads == Workers \cup {Monitor, StatsThread, Ticker, CleanerThread}

ASSUME LocksAssumption ==
  /\ Free \notin Threads
  /\ Throttled \in BOOLEAN
  /\ RetryBucket \in BOOLEAN

Mutexes == {"unicast", "send", "outbound", "retry", "stats", "cache"}

VARIABLES
  todo,     \* what is left of a thread's turn
  holder    \* the thread that holds a mutex

lkvars == <<todo, holder>>

-----------------------------------------------------------------------------
(* Programs.                                                                *)

Within(m, body) == <<<<"lock", m>>>> \o body \o <<<<"unlock", m>>>>

Brief(m) == Within(m, << >>)

\* tbf_fetch_token: at once, or counted as throttled, under the bucket's lock,
\* and after a pthread_cond_wait that gives the lock up in between.
FetchToken(bucket) ==
  {Brief(bucket)}
    \cup IF Throttled THEN {Within(bucket, Brief("stats")) \o Brief(bucket)} ELSE {}

\* unicast_sender_send_with_bucket
Send(bucket) == {Within("send", fetch) : fetch \in FetchToken(bucket)}

\* Bug: g_send_lock is taken before g_unicast_lock.
UnicastReversed ==
  {Within("send", Within("unicast", fetch)) : fetch \in FetchToken("outbound")}

\* The part of dispatch_one under g_unicast_lock, link up.
Unicast == {Within("unicast", send) : send \in Send("outbound")}

\* dispatch_one: what follows is a counter, or an append to the cache.
DispatchOne ==
  {Brief("stats") \o unicast \o after :
      unicast \in Unicast \cup {Brief("unicast")},
      after \in {Brief("stats"), Brief("cache")}}

\* unicast_sender_heartbeat
Heartbeat == Within("unicast", Brief("send"))

\* unicast_sender_close and the new descriptor
Install == Brief("unicast")

\* Without a bucket the send fails before it asks for tokens.
ReplaySend == IF RetryBucket THEN Send("retry") ELSE {Brief("send")}

\* cache_pending_frames, the snapshot of the descriptor, cache_replay_start.
Replay ==
  {Brief("cache") \o Brief("unicast") \o Within("cache", send) : send \in ReplaySend}

DispatchMonitor == {Heartbeat, Install} \cup Replay

\* stats_snapshot, every second
StatsSnapshot == {Within("stats", Brief("cache"))}

\* tbf_tick for every bucket there is
DispatchTicker ==
  {Brief("outbound") \o IF RetryBucket THEN Brief("retry") ELSE << >>}

\* stats_on_*, stats_update_runtime
StatsOn == {Brief("stats")}

Turns(t) ==
  CASE t \in Workers       -> DispatchOne
    [] t = Monitor         -> DispatchMonitor
    [] t = StatsThread     -> StatsSnapshot
    [] t = Ticker          -> DispatchTicker
    [] t = CleanerThread   -> StatsOn

-----------------------------------------------------------------------------
Init ==
  /\ todo = [t \in Threads |-> << >>]
  /\ holder = [m \in Mutexes |-> Free]

\* A thread begins a turn of its loop.
Begin(t) ==
  /\ todo[t] = << >>
  /\ \E turn \in Turns(t) : todo' = [todo EXCEPT ![t] = turn]
  /\ UNCHANGED holder

\* pthread_mutex_lock returns.
Lock(t, m) ==
  /\ todo[t] # << >>
  /\ Head(todo[t]) = <<"lock", m>>
  /\ holder[m] = Free
  /\ holder' = [holder EXCEPT ![m] = t]
  /\ todo' = [todo EXCEPT ![t] = Tail(todo[t])]

Unlock(t, m) ==
  /\ todo[t] # << >>
  /\ Head(todo[t]) = <<"unlock", m>>
  /\ holder' = [holder EXCEPT ![m] = Free]
  /\ todo' = [todo EXCEPT ![t] = Tail(todo[t])]

Advance(t) == \E m \in Mutexes : Lock(t, m) \/ Unlock(t, m)

Next == \E t \in Threads : Begin(t) \/ Advance(t)

Spec == Init /\ [][Next]_lkvars

\* A thread that could take its mutex again and again gets it in the end.
FairSpec == Spec /\ \A t \in Threads : SF_lkvars(Advance(t))

-----------------------------------------------------------------------------
(* Properties.                                                              *)

WaitsFor(t, u) ==
  /\ todo[t] # << >>
  /\ \E m \in Mutexes : Head(todo[t]) = <<"lock", m>> /\ holder[m] = u

\* No threads wait for one another in a circle: in every set of threads there
\* is one that waits for no member of the set.
NoCircle ==
  \A set \in (SUBSET Threads) \ {{}} :
     \E t \in set : \A u \in set : ~WaitsFor(t, u)

\* The statistics come out every second (stats.c:152), that is, again and
\* again: stats_snapshot always returns.
StatsGoOn == (todo[StatsThread] # << >>) ~> (todo[StatsThread] = << >>)

=============================================================================
