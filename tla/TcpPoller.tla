------------------------------ MODULE TcpPoller ------------------------------
(***************************************************************************)
(* The thread of ingress/tcp_poller.c that collects from an old device     *)
(* over TCP: it connects, reads until the connection ends, closes it,      *)
(* waits and connects again.  tcp_poller_stop, called by main, closes the  *)
(* same descriptor; both find it in g_fd, which no lock protects.  The     *)
(* table of descriptors is that of the process, so that a number closed    *)
(* here can be the platform connection's the next moment.                  *)
(*                                                                         *)
(* How long the thread waits before it connects again is not modelled, nor *)
(* what the rest of the program does (Collector, UnicastLink).             *)
(***************************************************************************)
EXTENDS StreamDecoder, FiniteSets

CONSTANTS
  Bytes,     \* all that the device ever sends, a sequence of bytes
  Starts,    \* positions in it at which a new connection can begin
  RecvMax,   \* sizeof(buf) in tcp_session_once
  Fds,       \* descriptor numbers
  NoFd       \* -1

ASSUME PollerAssumption ==
  /\ Bytes \in Seq(Range(Bytes))
  /\ Starts \subseteq 0..Len(Bytes)
  /\ {0, Len(Bytes)} \subseteq Starts
  /\ RecvMax \in Nat \ {0}
  /\ Fds \subseteq Nat
  /\ NoFd \notin Fds

VARIABLES
  running,   \* g_running
  main,      \* what main is at, as far as it concerns the poller
  rolled,    \* the cleaner thread could not be created: main rolls back
  tcp,       \* where the thread is
  mine,      \* fd of tcp_session_once
  gfd,       \* g_fd
  seen,      \* g_fd as tcp_poller_stop tested it
  owner,     \* whose connection a descriptor is: "free", "tcp", "platform"
  foreign,   \* history: a descriptor was closed that was the platform's
  stream,    \* g_stream
  from, upto,\* history: where the connection began, how far it was read
  decoded,   \* history: the frames found in this connection
  overran    \* history: a read of this connection did not fit the buffer

fdvars == <<mine, gfd, seen, owner, foreign>>
strvars == <<stream, from, upto, decoded, overran>>
mainvars == <<running, main, rolled>>
tcpvars == <<mainvars, tcp, fdvars, strvars>>

TcpAt == {"none", "loop", "connect", "expose", "check", "recv", "blocked", "end",
          "close", "clear", "left"}

TcpTypeOK ==
  /\ running \in BOOLEAN /\ rolled \in BOOLEAN
  /\ main \in {"start", "serve", "test", "close", "clear", "join", "gone"}
  /\ tcp \in TcpAt
  /\ mine \in Fds \cup {NoFd}
  /\ gfd \in Fds \cup {NoFd}
  /\ seen \in Fds \cup {NoFd}
  /\ owner \in [Fds -> {"free", "tcp", "platform"}]
  /\ foreign \in BOOLEAN
  /\ from \in Starts
  /\ upto \in from..Len(Bytes)
  /\ Len(stream.buf) < FrameLen
  /\ overran \in BOOLEAN

TcpInit ==
  /\ running = TRUE /\ main = "start" /\ rolled = FALSE
  /\ tcp = "none"
  /\ mine = NoFd /\ gfd = NoFd /\ seen = NoFd
  /\ owner = [d \in Fds |-> "free"]
  /\ foreign = FALSE
  /\ stream = StreamReset
  /\ from = 0 /\ upto = 0
  /\ decoded = << >>
  /\ overran = FALSE

-----------------------------------------------------------------------------
\* The kernel gives the lowest free number ...
LowestFree(d) == owner[d] = "free" /\ \A e \in Fds : owner[e] = "free" => d <= e

\* ... and close of one that is not open fails, without harm.
CloseFd(d) ==
  /\ owner' = [e \in Fds |-> IF e = d THEN "free" ELSE owner[e]]
  /\ foreign' = (foreign \/ (d # NoFd /\ owner[d] = "platform"))

\* tcp_poll_thread, and the first lines of tcp_session_once
PollLoop ==
  /\ tcp = "loop"
  /\ tcp' = IF running THEN "connect" ELSE "left"
  /\ UNCHANGED <<mainvars, fdvars, strvars>>

\* Bug: the error path closes the descriptor of the last connection.
ConnectClosesOld ==
  /\ tcp = "connect"
  /\ IF \E d \in Fds : LowestFree(d)
     THEN \/ /\ CloseFd(mine)
             /\ tcp' = "loop" /\ UNCHANGED mine
          \/ /\ \E d \in Fds : /\ LowestFree(d)
                               /\ owner' = [owner EXCEPT ![d] = "tcp"] /\ mine' = d
             /\ tcp' = "expose" /\ UNCHANGED foreign
     ELSE tcp' = "loop" /\ UNCHANGED <<mine, owner, foreign>>
  /\ UNCHANGED <<mainvars, gfd, seen, strvars>>

\* tcp_connect_timeout
Connect ==
  /\ tcp = "connect"
  /\ \/ /\ \E d \in Fds : /\ LowestFree(d)
                          /\ owner' = [owner EXCEPT ![d] = "tcp"]
                          /\ mine' = d
        /\ tcp' = "expose"
     \/ tcp' = "loop" /\ UNCHANGED <<mine, owner>>
  /\ UNCHANGED <<mainvars, gfd, seen, foreign, strvars>>

Expose ==
  /\ tcp = "expose"
  /\ tcp' = "check"
  /\ gfd' = mine
  /\ stream' = StreamReset
  /\ \E p \in Starts :
        /\ p >= upto /\ \A r \in Starts : r >= upto => p <= r
        /\ from' = p /\ upto' = p
  /\ decoded' = << >>
  /\ overran' = FALSE
  /\ UNCHANGED <<mainvars, mine, seen, owner, foreign>>

\* Bug: the session relies on stop to close its descriptor.
SessionNoCheck ==
  /\ tcp = "check"
  /\ tcp' = "recv"
  /\ UNCHANGED <<mainvars, fdvars, strvars>>

\* while (tcp_running())
SessionCheck ==
  /\ tcp = "check"
  /\ tcp' = IF running THEN "recv" ELSE "end"
  /\ UNCHANGED <<mainvars, fdvars, strvars>>

\* recv returns n bytes, and the frames they complete go to the sink.  (A recv
\* that was blocked when stop closed the descriptor may return after that: it
\* is taken to have returned just before.)
Recv ==
  /\ tcp = "recv"
  /\ owner[mine] = "tcp"
  /\ \E n \in 1..RecvMax :
        /\ upto + n <= Len(Bytes)
        /\ LET data == SubSeq(Bytes, upto + 1, upto + n)
               fed  == StreamFeed(stream, data)
           IN  /\ stream' = fed.stream
               /\ decoded' = decoded \o fed.frames
               /\ overran' = (overran \/ Overflow(stream, data) > 0)
        /\ upto' = upto + n
  /\ tcp' = "check"
  /\ UNCHANGED <<mainvars, fdvars, from>>

\* recv times out (SO_RCVTIMEO) or is interrupted.
RecvNothing ==
  /\ tcp = "recv"
  /\ owner[mine] = "tcp"
  /\ tcp' = "check"
  /\ UNCHANGED <<mainvars, fdvars, strvars>>

\* On a number that has become the platform connection's recv has no timeout:
\* unicast_sender.c:112 sets SO_SNDTIMEO only ...
RecvBlocks ==
  /\ tcp = "recv"
  /\ owner[mine] = "platform"
  /\ tcp' = "blocked"
  /\ UNCHANGED <<mainvars, fdvars, strvars>>

\* ... so that it returns when the platform ends that connection, if it ever
\* does: close wakes no recv, a signal restarts it (SA_RESTART), and the
\* platform sends nothing, as nobody reads from it.
RecvStray ==
  /\ tcp = "blocked"
  /\ tcp' = "end"
  /\ UNCHANGED <<mainvars, fdvars, strvars>>

\* recv returns 0 or fails: the peer's doing, or the descriptor was closed.
RecvEnds ==
  /\ tcp = "recv"
  /\ tcp' = "end"
  /\ UNCHANGED <<mainvars, fdvars, strvars>>

\* if (g_fd == fd)
SessionEnd ==
  /\ tcp = "end"
  /\ tcp' = IF gfd = mine THEN "close" ELSE "loop"
  /\ UNCHANGED <<mainvars, fdvars, strvars>>

SessionClose ==
  /\ tcp = "close"
  /\ tcp' = "clear"
  /\ CloseFd(mine)
  /\ UNCHANGED <<mainvars, mine, gfd, seen, strvars>>

SessionClear ==
  /\ tcp = "clear"
  /\ tcp' = "loop"
  /\ gfd' = NoFd
  /\ UNCHANGED <<mainvars, mine, seen, owner, foreign, strvars>>

TcpPollThread ==
  \/ PollLoop \/ Connect \/ Expose \/ SessionCheck \/ Recv \/ RecvNothing
  \/ RecvBlocks \/ RecvEnds \/ SessionEnd \/ SessionClose \/ SessionClear

-----------------------------------------------------------------------------
(* main, and the dispatcher as far as it owns descriptors.                  *)

\* tcp_poller_start
TcpPollerStart ==
  /\ main = "start" /\ tcp = "none"
  /\ tcp' = "loop"
  /\ UNCHANGED <<mainvars, fdvars, strvars>>

\* The thread may not have been created; the rest of the start-up succeeds.
Serve ==
  /\ main = "start"
  /\ main' = "serve"
  /\ UNCHANGED <<running, rolled, tcp, fdvars, strvars>>

\* ... or the cleaner thread cannot be created.
RollBack ==
  /\ main = "start"
  /\ main' = "test" /\ rolled' = TRUE
  /\ UNCHANGED <<running, tcp, fdvars, strvars>>

OnExitSignal ==
  /\ running
  /\ running' = FALSE
  /\ UNCHANGED <<main, rolled, tcp, fdvars, strvars>>

ServeEnds ==
  /\ main = "serve" /\ ~running
  /\ main' = "test"
  /\ UNCHANGED <<running, rolled, tcp, fdvars, strvars>>

\* tcp_poller_stop: if (g_fd >= 0)
StopTest ==
  /\ main = "test"
  /\ main' = "close"
  /\ seen' = gfd
  /\ UNCHANGED <<running, rolled, tcp, mine, gfd, owner, foreign, strvars>>

\* Bug: stop forgets the descriptor without closing it.
StopForgets ==
  /\ main = "close"
  /\ main' = "clear"
  /\ UNCHANGED <<running, rolled, tcp, fdvars, strvars>>

\* close(g_fd): the compiled code may read g_fd again or use what it tested.
StopClose ==
  /\ main = "close"
  /\ main' = "clear"
  /\ IF seen = NoFd THEN UNCHANGED <<owner, foreign>>
     ELSE \E d \in {seen, gfd} : CloseFd(d)
  /\ UNCHANGED <<running, rolled, tcp, mine, gfd, seen, strvars>>

\* g_fd = -1
StopClear ==
  /\ main = "clear"
  /\ main' = "join"
  /\ gfd' = IF seen = NoFd THEN gfd ELSE NoFd
  /\ UNCHANGED <<running, rolled, tcp, mine, seen, owner, foreign, strvars>>

TcpPollerJoin ==
  /\ main = "join" /\ tcp \in {"none", "left"}
  /\ main' = "gone"
  /\ UNCHANGED <<running, rolled, tcp, fdvars, strvars>>

Main ==
  \/ TcpPollerStart \/ Serve \/ RollBack \/ ServeEnds
  \/ StopTest \/ StopClose \/ StopClear \/ TcpPollerJoin

Dispatching == main # "start" /\ ~rolled

\* The monitor connects before it closes its old connection.
PlatformConnect ==
  /\ Dispatching
  /\ Cardinality({d \in Fds : owner[d] = "platform"}) < 2
  /\ \E d \in Fds : LowestFree(d) /\ owner' = [owner EXCEPT ![d] = "platform"]
  /\ UNCHANGED <<mainvars, tcp, mine, gfd, seen, foreign, strvars>>

PlatformClose ==
  /\ Dispatching
  /\ \E d \in Fds :
        owner[d] = "platform" /\ owner' = [owner EXCEPT ![d] = "free"]
  /\ UNCHANGED <<mainvars, tcp, mine, gfd, seen, foreign, strvars>>

-----------------------------------------------------------------------------
TcpNext ==
  TcpPollThread \/ RecvStray \/ Main \/ OnExitSignal \/ PlatformConnect \/ PlatformClose

TcpSpec == TcpInit /\ [][TcpNext]_tcpvars

\* connect and recv end by their timeouts, so that the thread always goes on,
\* whatever the device does; so does main.  Nothing makes RecvStray happen.
TcpFairSpec == TcpSpec /\ WF_tcpvars(TcpPollThread) /\ WF_tcpvars(Main)

-----------------------------------------------------------------------------
(* Properties.                                                              *)

Received == SubSeq(Bytes, from + 1, upto)

\* However the stream is cut into reads, and whatever cut frames stand between
\* the good ones, the decoder finds the frames that arrived whole, each once
\* and in order, and nothing else; it misses one only in a connection in which
\* a read did not fit into the buffer.  Every byte of the connection is in a
\* frame, in the buffer, or counted in resync.
FramesRecovered ==
  /\ \E at \in [DOMAIN decoded -> 1..Len(Received)] :
        /\ \A i, j \in DOMAIN decoded : i < j => at[i] < at[j]
        /\ \A i \in DOMAIN decoded :
              WholeAt(Received, at[i]) /\ decoded[i] = Received[at[i]][1]
        /\ ~overran =>
              \A p \in 1..Len(Received) : WholeAt(Received, p) => p \in Range(at)
  /\ upto - from = FrameLen * Len(decoded) + Len(stream.buf) + stream.resync

\* While the process runs the poller closes, and reads, only descriptors of its
\* own; at the exit, stop and the end of the session may both close one, and the
\* second close may hit the platform connection, as may a recv after the first.
ForeignOnlyAtExit == foreign \/ tcp = "blocked" => ~running

\* When the poller has been joined on the way out no connection of its is
\* left open, whether stop or the session closed it or each of them thought
\* the other had.  (Rolled back, with g_running still 1, one may be: the thread
\* can connect between the two halves of stop.)
DescriptorsReturned ==
  main = "gone" /\ ~rolled => \A d \in Fds : owner[d] # "tcp"

\* Once g_running is 0 the thread leaves and main has it joined, although the
\* close in stop wakes nobody; or it had tested g_running just before, came to
\* recv when the number was the platform connection's again, and hangs there,
\* and main in its join, for as long as that connection lasts.  The comment at
\* tcp_poller.c:224 has it that the close makes the blocked call return.
PollerJoined == ~running ~> (main = "gone" \/ tcp = "blocked")

=============================================================================
