-------------------------- MODULE TcpPollerProofs --------------------------
(***************************************************************************)
(* Theorems about TcpPoller for any descriptors and any stream of bytes:   *)
(* what the two closes of g_fd do to the descriptors of the process, and   *)
(* what the decoder makes of the stream.                                   *)
(***************************************************************************)
EXTENDS TcpPoller, SequenceTheorems, WellFoundedInduction, TLAPS

USE PollerAssumption

\* The types that the ownership of descriptors rests on.
FdTypes ==
  /\ main \in {"start", "serve", "test", "close", "clear", "join", "gone"}
  /\ tcp \in TcpAt
  /\ mine \in Fds \cup {NoFd}
  /\ gfd \in Fds \cup {NoFd}
  /\ seen \in Fds \cup {NoFd}
  /\ owner \in [Fds -> {"free", "tcp", "platform"}]

\* A session that has connected and not closed yet, and one that has shown its
\* descriptor to tcp_poller_stop.
Connected == tcp \in {"expose", "check", "recv", "blocked", "end", "close"}
Exposed == tcp \in {"check", "recv", "blocked", "end", "close", "clear"}

\* What main and the dispatcher are at.
MainPlace ==
  /\ main = "start" => ~rolled
  /\ main \notin {"start", "serve"} /\ ~rolled => ~running
  /\ main = "start" \/ rolled => \A d \in Fds : owner[d] # "platform"

\* While the process runs, and was not rolled back, nobody but the session
\* touches its descriptor.
SessionOwns ==
  Connected => mine \in Fds /\ (running /\ ~rolled => owner[mine] = "tcp")

\* The inductive invariant of ForeignOnlyAtExit.
CloseIInv == FdTypes /\ MainPlace /\ SessionOwns /\ ForeignOnlyAtExit

\* It holds before the first thread is started.
LEMMA InitClose == TcpInit => CloseIInv
  BY DEF TcpInit, CloseIInv, FdTypes, MainPlace, SessionOwns, Connected,
         ForeignOnlyAtExit, TcpAt

\* Steps that leave the descriptors and main alone.
LEMMA ThreadTypes ==
  ASSUME FdTypes, TcpPollThread \/ RecvStray
  PROVE  FdTypes'
  BY DEF FdTypes, TcpAt, TcpPollThread, PollLoop, Connect, Expose, SessionCheck,
         Recv, RecvNothing, RecvBlocks, RecvStray, RecvEnds, SessionEnd, SessionClose, SessionClear,
         CloseFd, mainvars, fdvars

LEMMA OtherTypes ==
  ASSUME FdTypes, Main \/ OnExitSignal \/ PlatformConnect \/ PlatformClose
  PROVE  FdTypes'
  BY DEF FdTypes, TcpAt, Main, TcpPollerStart, Serve, RollBack, ServeEnds,
         StopTest, StopClose, StopClear, TcpPollerJoin, OnExitSignal,
         PlatformConnect, PlatformClose, CloseFd, mainvars, fdvars

\* The thread closes what is its own, or nothing of the platform's exists.
LEMMA ThreadCloses ==
  ASSUME CloseIInv, TcpPollThread \/ RecvStray
  PROVE  CloseIInv'
  <1>1. FdTypes'
    BY ThreadTypes DEF CloseIInv
  <1> USE DEF CloseIInv, FdTypes, MainPlace, SessionOwns, Connected,
              ForeignOnlyAtExit, mainvars, fdvars
  <1>2. CASE PollLoop \/ SessionCheck \/ Recv \/ RecvNothing \/ RecvStray \/ RecvEnds
             \/ SessionEnd \/ SessionClear \/ Expose
    BY <1>1, <1>2 DEF PollLoop, SessionCheck, Recv, RecvNothing, RecvStray, RecvEnds,
                      SessionEnd, SessionClear, Expose
  <1>5. CASE RecvBlocks
    <2>1. mine \in Fds /\ owner[mine] = "platform"
      BY <1>5 DEF RecvBlocks
    <2>2. ~running
      BY <2>1, <1>5 DEF RecvBlocks
    <2> QED
      BY <1>1, <1>5, <2>1, <2>2 DEF RecvBlocks
  <1>3. CASE Connect
    BY <1>1, <1>3 DEF Connect, LowestFree
  <1>4. CASE SessionClose
    BY <1>1, <1>4 DEF SessionClose, CloseFd
  <1> QED
    BY <1>2, <1>3, <1>4, <1>5 DEF TcpPollThread

\* main closes only when it rolls back or after the signal.
LEMMA OthersClose ==
  ASSUME CloseIInv, Main \/ OnExitSignal \/ PlatformConnect \/ PlatformClose
  PROVE  CloseIInv'
  <1>1. FdTypes'
    BY OtherTypes DEF CloseIInv
  <1> USE DEF CloseIInv, FdTypes, MainPlace, SessionOwns, Connected,
              ForeignOnlyAtExit, mainvars, fdvars
  <1>2. CASE TcpPollerStart \/ Serve \/ RollBack \/ ServeEnds
             \/ StopTest \/ StopClear \/ TcpPollerJoin \/ OnExitSignal
    BY <1>1, <1>2 DEF TcpPollerStart, Serve, RollBack, ServeEnds, StopTest,
                      StopClear, TcpPollerJoin, OnExitSignal
  <1>3. CASE StopClose
    <2>1. ~running \/ \A d \in Fds : owner[d] # "platform"
      BY <1>3 DEF StopClose
    <2> QED
      BY <1>1, <1>3, <2>1 DEF StopClose, CloseFd
  <1>4. CASE PlatformConnect \/ PlatformClose
    BY <1>1, <1>4 DEF PlatformConnect, PlatformClose, LowestFree, Dispatching
  <1> QED
    BY <1>2, <1>3, <1>4 DEF Main

LEMMA NextClose == CloseIInv /\ [TcpNext]_tcpvars => CloseIInv'
  <1>1. ASSUME CloseIInv, UNCHANGED tcpvars PROVE CloseIInv'
    BY <1>1 DEF tcpvars, mainvars, fdvars, CloseIInv, FdTypes, MainPlace,
                SessionOwns, Connected, ForeignOnlyAtExit
  <1> QED
    BY <1>1, ThreadCloses, OthersClose DEF TcpNext

LEMMA CloseInvariant == TcpSpec => []CloseIInv
  BY InitClose, NextClose, PTL DEF TcpSpec

\* However connects, reads, resets and the dispatcher's own connections follow
\* each other, the poller closes no descriptor of another part of the program
\* before the exit signal, not even when main rolls back (tcp_poller.c:125).
THEOREM OwnClosesWhileRunning == TcpSpec => []ForeignOnlyAtExit
  <1>1. CloseIInv => ForeignOnlyAtExit
    BY DEF CloseIInv
  <1> QED
    BY <1>1, CloseInvariant, PTL

-----------------------------------------------------------------------------
(* What is left open.                                                       *)

\* tcp_poller_stop is at "close" or beyond and had found a descriptor.
Stopping == main \in {"close", "clear", "join", "gone"} /\ seen # NoFd
Stopped == main \in {"join", "gone"} /\ seen # NoFd

NothingOwned == \A d \in Fds : owner[d] # "tcp"

\* The descriptor of the session, and nothing else, is the poller's; g_fd names
\* it from Expose to SessionClear unless stop took it away, and then it was
\* closed first.
Handover ==
  /\ \A d \in Fds : owner[d] = "tcp" => d = mine /\ Connected
  /\ Exposed => gfd = mine \/ Stopped
  /\ ~Exposed => gfd = NoFd
  /\ Stopped => gfd = NoFd
  /\ Stopping => tcp \in {"loop", "left"} \/ (Exposed /\ mine = seen)
  /\ Stopping /\ main # "close" => NothingOwned
  /\ main = "gone" => tcp \in {"none", "left"}

ReturnIInv == CloseIInv /\ (~rolled => Handover)

LEMMA InitReturn == TcpInit => ReturnIInv
  <1>1. TcpInit => Handover
    BY DEF TcpInit, Handover, Exposed, Stopped, Stopping
  <1> QED
    BY <1>1, InitClose DEF ReturnIInv

\* The thread hands its descriptor over and takes it back.
LEMMA ThreadReturns ==
  ASSUME CloseIInv, Handover, ~rolled, TcpPollThread \/ RecvStray
  PROVE  Handover'
  <1> USE DEF Handover, Connected, Exposed, Stopping, Stopped, NothingOwned,
              mainvars, fdvars
  <1>1. FdTypes /\ MainPlace
    BY DEF CloseIInv
  <1>2. CASE PollLoop
    BY <1>1, <1>2 DEF PollLoop, FdTypes, MainPlace
  <1>3. CASE Connect
    BY <1>1, <1>3 DEF Connect, FdTypes
  <1>4. CASE Expose
    BY <1>1, <1>4 DEF Expose, FdTypes
  <1>5. CASE SessionCheck \/ Recv \/ RecvNothing \/ RecvBlocks \/ RecvStray \/ RecvEnds
    BY <1>1, <1>5 DEF SessionCheck, Recv, RecvNothing, RecvBlocks, RecvStray, RecvEnds, FdTypes
  <1>6. CASE SessionEnd
    BY <1>1, <1>6 DEF SessionEnd, FdTypes
  <1>7. CASE SessionClose
    BY <1>1, <1>7 DEF SessionClose, CloseFd, FdTypes
  <1>8. CASE SessionClear
    BY <1>1, <1>8 DEF SessionClear, FdTypes
  <1> QED
    BY <1>2, <1>3, <1>4, <1>5, <1>6, <1>7, <1>8 DEF TcpPollThread

\* So does main, and the dispatcher leaves the poller's descriptors alone.
LEMMA OthersReturn ==
  ASSUME CloseIInv, Handover, ~rolled', ~rolled,
         Main \/ OnExitSignal \/ PlatformConnect \/ PlatformClose
  PROVE  Handover'
  <1> USE DEF Handover, Connected, Exposed, Stopping, Stopped, NothingOwned,
              mainvars, fdvars
  <1>1. FdTypes
    BY DEF CloseIInv
  <1>2. CASE TcpPollerStart \/ Serve \/ RollBack \/ ServeEnds \/ TcpPollerJoin
             \/ OnExitSignal
    BY <1>1, <1>2 DEF TcpPollerStart, Serve, RollBack, ServeEnds, TcpPollerJoin,
                      OnExitSignal, FdTypes
  <1>3. CASE StopTest
    BY <1>1, <1>3 DEF StopTest, FdTypes, TcpAt
  <1>4. CASE StopClose
    BY <1>1, <1>4 DEF StopClose, CloseFd, FdTypes
  <1>5. CASE StopClear
    BY <1>1, <1>5 DEF StopClear, FdTypes
  <1>6. CASE PlatformConnect \/ PlatformClose
    BY <1>1, <1>6 DEF PlatformConnect, PlatformClose, FdTypes
  <1> QED
    BY <1>2, <1>3, <1>4, <1>5, <1>6 DEF Main

LEMMA NextReturn == ReturnIInv /\ [TcpNext]_tcpvars => ReturnIInv'
  <1> SUFFICES ASSUME ReturnIInv, [TcpNext]_tcpvars PROVE ReturnIInv'
    OBVIOUS
  <1>1. CloseIInv'
    BY NextClose DEF ReturnIInv
  <1>2. rolled => rolled'
    BY DEF TcpNext, TcpPollThread, PollLoop, Connect, Expose, SessionCheck, Recv,
           RecvNothing, RecvBlocks, RecvStray, RecvEnds, SessionEnd, SessionClose, SessionClear, Main,
           TcpPollerStart, Serve, RollBack, ServeEnds, StopTest, StopClose,
           StopClear, TcpPollerJoin, OnExitSignal, PlatformConnect,
           PlatformClose, tcpvars, mainvars
  <1>3. ASSUME ~rolled' PROVE Handover'
    <2>1. CASE UNCHANGED tcpvars
      BY <1>2, <1>3, <2>1 DEF ReturnIInv, Handover, Connected, Exposed, Stopping,
                        Stopped, NothingOwned, tcpvars, mainvars, fdvars
    <2>2. CASE TcpNext
      BY <1>2, <1>3, <2>2, ThreadReturns, OthersReturn DEF ReturnIInv, TcpNext
    <2> QED
      BY <2>1, <2>2
  <1> QED
    BY <1>1, <1>3 DEF ReturnIInv

\* On the way out no connection of the poller's stays open, in whatever order
\* stop and the session come to their tests, closes and assignments of g_fd
\* (tcp_poller.c:125 and 170).
THEOREM DescriptorsComeBack == TcpSpec => []DescriptorsReturned
  <1>1. ReturnIInv => DescriptorsReturned
    <2> SUFFICES ASSUME ReturnIInv, main = "gone", ~rolled, NEW d \in Fds
                 PROVE  owner[d] # "tcp"
      BY DEF DescriptorsReturned
    <2> QED
      BY DEF ReturnIInv, Handover, Connected
  <1> QED
    BY <1>1, InitReturn, NextReturn, PTL DEF TcpSpec

HIDE PollerAssumption

-----------------------------------------------------------------------------
(* The scan of the decoder.  CutFrames is a recursive function; that it has *)
(* the values its definition says, and what they are, is shown by induction *)
(* from the end of the bytes, in the form that a non-empty set of natural   *)
(* numbers has a smallest element.                                          *)

Less == {p \in Nat \X Nat : p[1] < p[2]}

\* The library's fact, for that set of pairs.
LEMMA LessWellFounded == IsWellFoundedOn(Less, Nat)
  BY NatLessThanWellFounded DEF OpToRel, Less

\* Induction up to m, over a set.
LEMMA InductionTo ==
  ASSUME NEW m \in Nat, NEW T, 0 \in T, \A k \in 0..(m - 1) : k \in T => k + 1 \in T
  PROVE  \A k \in 0..m : k \in T
  <1> DEFINE Missing == {k \in 0..m : k \notin T}
  <1> SUFFICES ASSUME Missing # {} PROVE FALSE
    OBVIOUS
  <1>1. Missing \subseteq Nat
    OBVIOUS
  <1>2. PICK x \in Missing : \A y \in Missing : ~(<<y, x>> \in Less)
    BY <1>1, LessWellFounded, WFMin
  <1>3. x \in 0..m /\ x \notin T /\ x # 0
    OBVIOUS
  <1>4. x - 1 \in 0..(m - 1) /\ x - 1 < x /\ (x - 1) + 1 = x /\ x - 1 \in 0..m /\ x - 1 \in Nat /\ x \in Nat
    BY <1>3
  <1>5. x - 1 \notin Missing
    BY <1>2, <1>4 DEF Less
  <1> QED
    BY <1>3, <1>4, <1>5

\* What the scan makes of the bytes from the i-th on, when f says what it makes
\* of those behind.
CutFrom(b, i, f) ==
  IF Len(b) - i + 1 < FrameLen
  THEN [frames |-> << >>, skipped |-> 0, rest |-> SubSeq(b, i, Len(b))]
  ELSE LET bytes == SubSeq(b, i, i + FrameLen - 1)
       IN  IF DecodeWire(bytes)
           THEN [f[i + FrameLen] EXCEPT !.frames = <<bytes[1][1]>> \o @]
           ELSE [f[i + 1] EXCEPT !.skipped = @ + 1]

\* f is the table of the scan from place j on.
TableFrom(b, f, j) ==
  /\ f = [i \in 1..(Len(b) + 1) |-> f[i]]
  /\ \A i \in j..(Len(b) + 1) : f[i] = CutFrom(b, i, f)

\* Only what is behind matters.
LEMMA CutFromBehind ==
  ASSUME NEW B, NEW b \in Seq(B), NEW f, NEW g, NEW i \in 1..(Len(b) + 1),
         \A k \in (i + 1)..(Len(b) + 1) : f[k] = g[k]
  PROVE  CutFrom(b, i, f) = CutFrom(b, i, g)
  <1>1. PICK n \in Nat : n = Len(b)
    OBVIOUS
  <1>2. FrameLen \in Nat \ {0}
    BY DecoderAssumption
  <1>3. CASE n - i + 1 < FrameLen
    BY <1>1, <1>3 DEF CutFrom
  <1>4. CASE ~(n - i + 1 < FrameLen)
    <2>1. i + FrameLen \in (i + 1)..(n + 1) /\ i + 1 \in (i + 1)..(n + 1)
      BY <1>1, <1>2, <1>4
    <2>2. f[i + FrameLen] = g[i + FrameLen] /\ f[i + 1] = g[i + 1]
      BY <1>1, <2>1
    <2> QED
      BY <1>1, <1>4, <2>2 DEF CutFrom
  <1> QED
    BY <1>3, <1>4

\* There is a table, built from the end of the bytes.
LEMMA TableExists ==
  ASSUME NEW B, NEW b \in Seq(B)
  PROVE  \E f : TableFrom(b, f, 1)
  <1>1. PICK n \in Nat : n = Len(b)
    OBVIOUS
  <1> DEFINE T == {k \in 0..(n + 1) : \E f : TableFrom(b, f, n + 2 - k)}
  <1>2. 0 \in T
    <2> DEFINE f == [i \in 1..(n + 1) |-> 0]
    <2>1. f = [i \in 1..(n + 1) |-> f[i]]
      OBVIOUS
    <2>2. \A i \in (n + 2 - 0)..(n + 1) : FALSE
      OBVIOUS
    <2>3. TableFrom(b, f, n + 2 - 0)
      <3> HIDE DEF f
      <3> QED
        BY <1>1, <2>1, <2>2 DEF TableFrom
    <2>4. 0 \in 0..(n + 1)
      OBVIOUS
    <2> QED
      BY <2>3, <2>4, Zenon
  <1>3. ASSUME NEW k \in 0..n, k \in T PROVE k + 1 \in T
    <2>1. PICK f : TableFrom(b, f, n + 2 - k)
      BY <1>3
    <2>2. PICK j \in 1..(n + 1) : j = n + 1 - k /\ n + 2 - k = j + 1 /\ n + 2 - (k + 1) = j
      <3>1. n + 1 - k \in 1..(n + 1)
        OBVIOUS
      <3> QED
        BY <3>1
    <2>3. /\ f = [i \in 1..(n + 1) |-> f[i]]
          /\ \A i \in (j + 1)..(n + 1) : f[i] = CutFrom(b, i, f)
      BY <1>1, <2>1, <2>2 DEF TableFrom
    <2> DEFINE g == [i \in 1..(n + 1) |-> IF i = j THEN CutFrom(b, j, f) ELSE f[i]]
    <2>4. /\ g = [i \in 1..(n + 1) |-> g[i]]
          /\ g[j] = CutFrom(b, j, f)
          /\ \A i \in 1..(n + 1) : i # j => g[i] = f[i]
      OBVIOUS
    <2> HIDE DEF g
    <2>5. ASSUME NEW i \in j..(n + 1) PROVE g[i] = CutFrom(b, i, g)
      <3>1. i \in 1..(n + 1) /\ \A l \in (i + 1)..(n + 1) : l \in 1..(n + 1) /\ l # j
        OBVIOUS
      <3>2. CutFrom(b, i, f) = CutFrom(b, i, g)
        BY <1>1, <2>4, <3>1, CutFromBehind
      <3>3. i = j \/ (i \in (j + 1)..(n + 1) /\ i # j)
        OBVIOUS
      <3> QED
        BY <2>3, <2>4, <3>1, <3>2, <3>3
    <2>6. TableFrom(b, g, j)
      BY <1>1, <2>4, <2>5 DEF TableFrom
    <2>7. k + 1 \in 0..(n + 1)
      OBVIOUS
    <2> QED
      BY <2>2, <2>6, <2>7, Zenon
  <1>4. n + 1 \in Nat /\ (n + 1) - 1 = n
    OBVIOUS
  <1> HIDE DEF T
  <1>5. n + 1 \in T
    <2>1. \A k \in 0..(n + 1) : k \in T
      BY <1>2, <1>3, <1>4, InductionTo
    <2> QED
      BY <2>1
  <1>6. n + 2 - (n + 1) = 1
    OBVIOUS
  <1> QED
    BY <1>5, <1>6 DEF T

\* The scan is the first entry of such a table.
LEMMA CutFramesTable ==
  ASSUME NEW B, NEW b \in Seq(B)
  PROVE  \E f : TableFrom(b, f, 1) /\ CutFrames(b) = f[1]
  <1>1. PICK n \in Nat : n = Len(b)
    OBVIOUS
  <1> DEFINE IsTable(f) == f = [i \in 1..(n + 1) |-> CutFrom(b, i, f)]
             c == CHOOSE f : IsTable(f)
  <1>2. CutFrames(b) = c[1]
    BY <1>1 DEF CutFrames, CutFrom
  <1>3. PICK f : TableFrom(b, f, 1)
    BY TableExists
  <1>4. f = [i \in 1..(n + 1) |-> CutFrom(b, i, f)]
    <2>1. f = [i \in 1..(n + 1) |-> f[i]]
      BY <1>1, <1>3 DEF TableFrom
    <2>2. \A i \in 1..(n + 1) : f[i] = CutFrom(b, i, f)
      BY <1>1, <1>3 DEF TableFrom
    <2>3. [i \in 1..(n + 1) |-> f[i]] = [i \in 1..(n + 1) |-> CutFrom(b, i, f)]
      BY <2>2
    <2> QED
      BY <2>1, <2>3, Zenon
  <1>5. c = [i \in 1..(n + 1) |-> CutFrom(b, i, c)]
    BY <1>4, Zenon
  <1> HIDE DEF c
  <1>6. \A i \in 1..(n + 1) : c[i] = CutFrom(b, i, c)
    BY <1>5, Zenon
  <1>7. c = [i \in 1..(n + 1) |-> c[i]]
    <2>1. [i \in 1..(n + 1) |-> c[i]] = [i \in 1..(n + 1) |-> CutFrom(b, i, c)]
      BY <1>6
    <2> QED
      BY <1>5, <2>1, Zenon
  <1>8. TableFrom(b, c, 1)
    BY <1>1, <1>6, <1>7 DEF TableFrom
  <1> QED
    BY <1>2, <1>8

\* The frames that bytes can be of.
Names(B) == {x[1] : x \in B}

\* As far as there are bytes, a frame begins with byte p.
Begun(b, p) ==
  \A k \in 1..FrameLen : p + k - 1 <= Len(b) => b[p + k - 1] = <<b[p][1], k>>

\* The frames stand, in this order, at the places at of bytes i to e.
Placed(b, i, e, frames, at) ==
  /\ DOMAIN at = 1..Len(frames)
  /\ \A n \in 1..Len(frames) :
        /\ at[n] \in Int /\ i <= at[n] /\ at[n] + FrameLen - 1 <= e
        /\ Begun(b, at[n]) /\ frames[n] = b[at[n]][1]
  /\ \A n, o \in 1..Len(frames) : n < o => at[n] < at[o]

\* There is none of them that begins at another place.
Complete(b, i, e, frames, at) ==
  \A p \in i..e : Begun(b, p) => \E n \in 1..Len(frames) : at[n] = p

Found(b, i, e, frames, at) ==
  Placed(b, i, e, frames, at) /\ Complete(b, i, e, frames, at)

\* r is what the scan ought to make of the bytes of b from the i-th on.
Right(B, b, i, r) ==
  /\ r \in [frames : Seq(Names(B)), skipped : Nat, rest : Seq(B)]
  /\ Len(r.rest) < FrameLen
  /\ \A k \in 1..Len(r.rest) : r.rest[k] = b[Len(b) - Len(r.rest) + k]
  /\ FrameLen * Len(r.frames) + r.skipped + Len(r.rest) = Len(b) - i + 1
  /\ Len(b) - Len(r.rest) >= i - 1
  /\ \E at : Found(b, i, Len(b) - Len(r.rest), r.frames, at)

\* decode_wire says whether a frame begins there.
LEMMA WireBegun ==
  ASSUME NEW B, NEW b \in Seq(B), NEW i \in 1..Len(b), i + FrameLen - 1 <= Len(b)
  PROVE  LET bytes == SubSeq(b, i, i + FrameLen - 1)
         IN  /\ DecodeWire(bytes) <=> Begun(b, i)
             /\ bytes[1][1] = b[i][1] /\ b[i][1] \in Names(B)
  <1>1. PICK n \in Nat : n = Len(b)
    OBVIOUS
  <1>2. PICK m \in Nat \ {0} : m = FrameLen
    BY DecoderAssumption
  <1> DEFINE bytes == SubSeq(b, i, i + m - 1)
  <1>3. \A k \in 1..m : bytes[k] = b[i + k - 1]
    <2>1. \A k \in i..(i + m - 1) : b[k] \in B
      BY <1>1, <1>2
    <2>2. \A k \in 1..((i + m - 1) - i + 1) : bytes[k] = b[i + k - 1]
      BY <2>1, SubSeqProperties
    <2> QED
      BY <2>2
  <1> HIDE DEF bytes
  <1>4. 1 \in 1..m /\ i + 1 - 1 = i
    OBVIOUS
  <1>5. bytes[1] = b[i]
    BY <1>3, <1>4
  <1>6. \A k \in 1..m : i + k - 1 <= n
    BY <1>1, <1>2
  <1>7. Begun(b, i) <=> \A k \in 1..m : b[i + k - 1] = <<b[i][1], k>>
    BY <1>1, <1>2, <1>6 DEF Begun
  <1>8. FrameDecode(bytes) <=> Begun(b, i)
    BY <1>2, <1>3, <1>5, <1>7 DEF FrameDecode
  <1>9. Begun(b, i) => MagicOk(bytes)
    <2> SUFFICES ASSUME Begun(b, i) PROVE bytes[1][2] = 1
      BY DEF MagicOk
    <2>1. b[i] = <<b[i][1], 1>>
      BY <1>4, <1>7
    <2> QED
      BY <1>5, <2>1
  <1>10. b[i][1] \in Names(B)
    <2>1. b[i] \in B
      OBVIOUS
    <2> QED
      BY <2>1 DEF Names
  <1> QED
    BY <1>2, <1>5, <1>8, <1>9, <1>10 DEF DecodeWire, bytes

\* Fewer bytes than a frame has: they stay.
LEMMA RightShort ==
  ASSUME NEW B, NEW b \in Seq(B), NEW i \in 1..(Len(b) + 1), Len(b) - i + 1 < FrameLen
  PROVE  Right(B, b, i, [frames |-> << >>, skipped |-> 0, rest |-> SubSeq(b, i, Len(b))])
  <1>1. PICK n \in Nat : n = Len(b)
    OBVIOUS
  <1> DEFINE rest == SubSeq(b, i, n)
             r == [frames |-> << >>, skipped |-> 0, rest |-> rest]
  <1>2. /\ rest \in Seq(B) /\ Len(rest) = n - i + 1
        /\ \A k \in 1..(n - i + 1) : rest[k] = b[i + k - 1]
    <2>1. \A k \in i..n : b[k] \in B
      BY <1>1
    <2>2. /\ rest \in Seq(B) /\ Len(rest) = IF i <= n THEN n - i + 1 ELSE 0
          /\ \A k \in 1..(n - i + 1) : rest[k] = b[i + k - 1]
      BY <2>1, SubSeqProperties
    <2> QED
      BY <1>1, <2>2
  <1> HIDE DEF rest
  <1>3. /\ r \in [frames : Seq(Names(B)), skipped : Nat, rest : Seq(B)]
        /\ r.rest = rest /\ r.frames = << >> /\ r.skipped = 0 /\ Len(r.frames) = 0
    BY <1>2
  <1>4. PICK m \in Nat \ {0} : m = FrameLen
    BY DecoderAssumption
  <1>5. Found(b, i, n - (n - i + 1), << >>, << >>)
    <2>1. Len(<< >>) = 0 /\ DOMAIN << >> = 1..0
      OBVIOUS
    <2>2. \A p \in i..(n - (n - i + 1)) : FALSE
      BY <1>1
    <2>3. \A o \in 1..0 : FALSE
      OBVIOUS
    <2> QED
      BY <2>1, <2>2, <2>3 DEF Found, Placed, Complete
  <1>6. \A k \in 1..(n - i + 1) : n - (n - i + 1) + k = i + k - 1
    BY <1>1
  <1>7. \A k \in 1..Len(rest) : rest[k] = b[n - Len(rest) + k]
    BY <1>2, <1>6
  <1>8. m * 0 + 0 + (n - i + 1) = n - i + 1 /\ n - (n - i + 1) >= i - 1
    BY <1>1
  <1> HIDE DEF r
  <1>9. /\ Len(r.rest) < FrameLen
        /\ FrameLen * Len(r.frames) + r.skipped + Len(r.rest) = n - i + 1
        /\ n - Len(r.rest) >= i - 1
    BY <1>1, <1>2, <1>3, <1>4, <1>8
  <1>10. \E at : Found(b, i, n - Len(r.rest), r.frames, at)
    BY <1>2, <1>3, <1>5
  <1> QED
    BY <1>1, <1>3, <1>7, <1>9, <1>10 DEF Right, r, rest

\* No frame begins here: the byte is skipped.
LEMMA RightSkip ==
  ASSUME NEW B, NEW b \in Seq(B), NEW i \in 1..Len(b), i + FrameLen - 1 <= Len(b),
         ~Begun(b, i), NEW s, Right(B, b, i + 1, s)
  PROVE  Right(B, b, i, [s EXCEPT !.skipped = @ + 1])
  <1>1. PICK n \in Nat : n = Len(b)
    OBVIOUS
  <1>2. PICK m \in Nat \ {0} : m = FrameLen
    BY DecoderAssumption
  <1>3. /\ s \in [frames : Seq(Names(B)), skipped : Nat, rest : Seq(B)]
        /\ s.frames \in Seq(Names(B)) /\ s.skipped \in Nat /\ s.rest \in Seq(B)
    BY DEF Right
  <1> DEFINE r == [s EXCEPT !.skipped = @ + 1]
  <1>4. /\ r \in [frames : Seq(Names(B)), skipped : Nat, rest : Seq(B)]
        /\ r.frames = s.frames /\ r.rest = s.rest /\ r.skipped = s.skipped + 1
    BY <1>3
  <1> HIDE DEF r
  <1>5. PICK l \in Nat : l = Len(s.rest)
    BY <1>3
  <1>6. PICK x \in Nat : x = Len(s.frames)
    BY <1>3
  <1>7. PICK y \in Int : y = FrameLen * Len(s.frames)
    BY <1>2, <1>6
  <1>8. y + s.skipped + l = n - (i + 1) + 1 /\ l < m /\ n - l >= (i + 1) - 1
    BY <1>1, <1>2, <1>5, <1>7 DEF Right
  <1>9. y + r.skipped + l = n - i + 1 /\ n - l >= i - 1
    BY <1>1, <1>3, <1>4, <1>8
  <1>10. PICK at : Found(b, i + 1, n - l, s.frames, at)
    BY <1>1, <1>5 DEF Right
  <1>11. Found(b, i, n - l, r.frames, at)
    <2>1. \A o \in 1..x : at[o] \in Int /\ i + 1 <= at[o] => i <= at[o]
      OBVIOUS
    <2>2. \A p \in i..(n - l) : p # i => p \in (i + 1)..(n - l)
      OBVIOUS
    <2>3. \A p \in i..(n - l) : Begun(b, p) => \E o \in 1..x : at[o] = p
      BY <1>6, <1>10, <2>2 DEF Found, Placed, Complete
    <2> QED
      BY <1>4, <1>6, <1>10, <2>1, <2>3 DEF Found, Placed, Complete
  <1> QED
    <2>1. Len(r.rest) < FrameLen /\ \A k \in 1..Len(r.rest) : r.rest[k] = b[Len(b) - Len(r.rest) + k]
      BY <1>4 DEF Right
    <2>2. FrameLen * Len(r.frames) + r.skipped + Len(r.rest) = Len(b) - i + 1
      BY <1>1, <1>4, <1>5, <1>7, <1>9
    <2>3. Len(b) - Len(r.rest) >= i - 1
      BY <1>1, <1>4, <1>5, <1>9
    <2>4. \E at2 : Found(b, i, Len(b) - Len(r.rest), r.frames, at2)
      BY <1>1, <1>4, <1>5, <1>11
    <2> QED
      BY <1>4, <2>1, <2>2, <2>3, <2>4 DEF Right, r

\* A frame: its bytes are used up, and none begins inside it.
LEMMA RightFrame ==
  ASSUME NEW B, NEW b \in Seq(B), NEW i \in 1..Len(b), i + FrameLen - 1 <= Len(b),
         Begun(b, i), NEW name \in Names(B), name = b[i][1],
         NEW s, Right(B, b, i + FrameLen, s)
  PROVE  Right(B, b, i, [s EXCEPT !.frames = <<name>> \o @])
  <1>1. PICK n \in Nat : n = Len(b)
    OBVIOUS
  <1>2. PICK m \in Nat \ {0} : m = FrameLen
    BY DecoderAssumption
  <1>3. /\ s \in [frames : Seq(Names(B)), skipped : Nat, rest : Seq(B)]
        /\ s.frames \in Seq(Names(B)) /\ s.skipped \in Nat /\ s.rest \in Seq(B)
    BY DEF Right
  <1> DEFINE one == <<name>>
             h == one \o s.frames
             r == [s EXCEPT !.frames = h]
  <1>4. one \in Seq(Names(B)) /\ Len(one) = 1 /\ one[1] = name
    OBVIOUS
  <1> HIDE DEF one
  <1>5. PICK x \in Nat : x = Len(s.frames)
    BY <1>3
  <1>6. /\ h \in Seq(Names(B)) /\ Len(h) = x + 1 /\ h[1] = name
        /\ \A o \in 2..(x + 1) : h[o] = s.frames[o - 1]
    <2>1. /\ h \in Seq(Names(B)) /\ Len(h) = Len(one) + Len(s.frames)
          /\ \A o \in 1..(Len(one) + Len(s.frames)) :
                h[o] = IF o <= Len(one) THEN one[o] ELSE s.frames[o - Len(one)]
      BY <1>3, <1>4, ConcatProperties
    <2> HIDE DEF h
    <2>3. /\ Len(h) = 1 + x
          /\ \A o \in 1..(1 + x) : h[o] = IF o <= 1 THEN one[o] ELSE s.frames[o - 1]
      BY <1>4, <1>5, <2>1
    <2>2. 1 \in 1..(1 + x) /\ \A o \in 2..(x + 1) : o \in 1..(1 + x) /\ ~(o <= 1)
      OBVIOUS
    <2> QED
      BY <1>4, <2>1, <2>2, <2>3
  <1> HIDE DEF h
  <1>7. /\ r \in [frames : Seq(Names(B)), skipped : Nat, rest : Seq(B)]
        /\ r.frames = h /\ r.rest = s.rest /\ r.skipped = s.skipped
    BY <1>3, <1>6
  <1> HIDE DEF r
  <1>8. PICK l \in Nat : l = Len(s.rest)
    BY <1>3
  <1>9. PICK y \in Int : y = FrameLen * x
    BY <1>2, <1>5
  <1>10. FrameLen * (x + 1) = y + m
    BY <1>2, <1>9
  <1>11. y + s.skipped + l = n - (i + m) + 1 /\ l < m /\ n - l >= (i + m) - 1
    BY <1>1, <1>2, <1>5, <1>8, <1>9 DEF Right
  <1>12. (y + m) + r.skipped + l = n - i + 1 /\ n - l >= i - 1
    <2>1. PICK z \in Nat : z = s.skipped /\ z = r.skipped
      BY <1>3, <1>7
    <2>2. y + z + l = n - (i + m) + 1
      BY <1>11, <2>1
    <2>3. (y + m) + z + l = n - i + 1
      BY <2>2
    <2>4. n - l >= i - 1
      BY <1>2, <1>11
    <2> QED
      BY <2>1, <2>3, <2>4
  <1>13. PICK at : Found(b, i + m, n - l, s.frames, at)
    BY <1>1, <1>2, <1>8 DEF Right
  <1> DEFINE at2 == [o \in 1..(x + 1) |-> IF o = 1 THEN i ELSE at[o - 1]]
  <1>14. /\ DOMAIN at2 = 1..(x + 1) /\ at2[1] = i
         /\ \A o \in 2..(x + 1) : at2[o] = at[o - 1]
    OBVIOUS
  <1> HIDE DEF at2
  <1>15. /\ \A o \in 1..x : /\ at[o] \in Int /\ i + m <= at[o] /\ at[o] + m - 1 <= n - l
                            /\ Begun(b, at[o]) /\ s.frames[o] = b[at[o]][1]
         /\ \A o, q \in 1..x : o < q => at[o] < at[q]
         /\ \A p \in (i + m)..(n - l) : Begun(b, p) => \E o \in 1..x : at[o] = p
    BY <1>2, <1>5, <1>13 DEF Found, Placed, Complete
  <1>16. \A o \in 1..(x + 1) : o = 1 \/ (o \in 2..(x + 1) /\ o - 1 \in 1..x)
    OBVIOUS
  <1>17. ASSUME NEW o \in 1..(x + 1)
         PROVE  /\ at2[o] \in Int /\ i <= at2[o] /\ at2[o] + m - 1 <= n - l
                /\ Begun(b, at2[o]) /\ h[o] = b[at2[o]][1]
    <2>1. CASE o = 1
      <3>1. i + m - 1 <= n - l /\ i \in Int /\ i <= i
        BY <1>1, <1>2, <1>11
      <3> QED
        BY <1>6, <1>14, <2>1, <3>1
    <2>2. CASE o \in 2..(x + 1) /\ o - 1 \in 1..x
      <3>1. PICK q \in 1..x : q = o - 1
        BY <2>2
      <3>2. at2[o] = at[q] /\ h[o] = s.frames[q]
        BY <1>6, <1>14, <2>2, <3>1
      <3>3. at[q] \in Int /\ i <= at[q]
        BY <1>2, <1>15
      <3> QED
        BY <1>15, <3>2, <3>3
    <2> QED
      BY <1>16, <2>1, <2>2
  <1>18. ASSUME NEW o \in 1..(x + 1), NEW q \in 1..(x + 1), o < q
         PROVE  at2[o] < at2[q]
    <2>1. q \in 2..(x + 1) /\ q - 1 \in 1..x /\ at2[q] = at[q - 1]
      BY <1>14, <1>18
    <2>2. CASE o = 1
      <3>1. at[q - 1] \in Int /\ i + m <= at[q - 1]
        BY <1>15, <2>1
      <3> QED
        BY <1>2, <1>14, <2>1, <2>2, <3>1
    <2>3. CASE o \in 2..(x + 1) /\ o - 1 \in 1..x
      <3>1. at2[o] = at[o - 1] /\ o - 1 < q - 1
        BY <1>14, <1>18, <2>3
      <3> QED
        BY <1>15, <2>1, <2>3, <3>1
    <2> QED
      BY <1>16, <2>2, <2>3
  <1>19. ASSUME NEW p \in i..(n - l), Begun(b, p)
         PROVE  \E o \in 1..(x + 1) : at2[o] = p
    <2>1. CASE p = i
      <3>1. 1 \in 1..(x + 1)
        OBVIOUS
      <3> QED
        BY <1>14, <2>1, <3>1
    <2>2. CASE p \in (i + 1)..(i + m - 1)
      \* Byte p is not the first byte of its frame.
      <3>1. PICK k \in 1..m : p = i + k - 1 /\ k # 1
        <4>1. p - i + 1 \in 1..m /\ p = i + (p - i + 1) - 1 /\ p - i + 1 # 1
          BY <2>2
        <4> QED
          BY <4>1
      <3>2. 1 \in 1..m /\ p + 1 - 1 = p /\ p <= n
        BY <1>1, <1>8
      <3>3. b[p] = <<b[p][1], 1>>
        BY <1>1, <1>2, <1>19, <3>2 DEF Begun
      <3>4. b[p] = <<b[i][1], k>>
        BY <1>1, <1>2, <3>1, <3>2 DEF Begun
      <3>5. b[p][2] = 1 /\ b[p][2] = k
        <4>1. b[p][2] = 1
          BY <3>3
        <4>2. b[p][2] = k
          BY <3>4
        <4> QED
          BY <4>1, <4>2
      <3> QED
        BY <3>1, <3>5
    <2>3. CASE p \in (i + m)..(n - l)
      <3>1. PICK o \in 1..x : at[o] = p
        BY <1>15, <1>19, <2>3
      <3>2. o + 1 \in 2..(x + 1) /\ o + 1 \in 1..(x + 1) /\ (o + 1) - 1 = o
        OBVIOUS
      <3> QED
        BY <1>14, <3>1, <3>2
    <2>4. p = i \/ p \in (i + 1)..(i + m - 1) \/ p \in (i + m)..(n - l)
      BY <1>1, <1>2
    <2> QED
      BY <2>1, <2>2, <2>3, <2>4
  <1>20. Found(b, i, n - l, h, at2)
    BY <1>2, <1>6, <1>14, <1>17, <1>18, <1>19 DEF Found, Placed, Complete
  <1> QED
    <2>1. Len(r.rest) < FrameLen /\ \A k \in 1..Len(r.rest) : r.rest[k] = b[Len(b) - Len(r.rest) + k]
      BY <1>7 DEF Right
    <2>2. FrameLen * Len(r.frames) + r.skipped + Len(r.rest) = Len(b) - i + 1
      BY <1>1, <1>6, <1>7, <1>8, <1>10, <1>12
    <2>3. Len(b) - Len(r.rest) >= i - 1
      BY <1>1, <1>7, <1>8, <1>12
    <2>4. \E at3 : Found(b, i, Len(b) - Len(r.rest), r.frames, at3)
      BY <1>1, <1>7, <1>8, <1>20
    <2> QED
      BY <1>7, <2>1, <2>2, <2>3, <2>4 DEF Right, r, h, one


\* One entry of the table, when those behind it are right.
LEMMA RightFrom ==
  ASSUME NEW B, NEW b \in Seq(B), NEW f, NEW i \in 1..(Len(b) + 1),
         \A k \in (i + 1)..(Len(b) + 1) : Right(B, b, k, f[k])
  PROVE  Right(B, b, i, CutFrom(b, i, f))
  <1>1. PICK n \in Nat : n = Len(b)
    OBVIOUS
  <1>2. PICK m \in Nat \ {0} : m = FrameLen
    BY DecoderAssumption
  <1>3. CASE Len(b) - i + 1 < FrameLen
    BY <1>3, RightShort DEF CutFrom
  <1>4. CASE ~(Len(b) - i + 1 < FrameLen)
    <2>1. i \in 1..Len(b) /\ i + FrameLen - 1 <= Len(b)
      BY <1>1, <1>2, <1>4
    <2>2. /\ i + 1 \in (i + 1)..(Len(b) + 1) /\ i + FrameLen \in (i + 1)..(Len(b) + 1)
      BY <1>1, <1>2, <2>1
    <2> DEFINE bytes == SubSeq(b, i, i + FrameLen - 1)
    <2>3. /\ DecodeWire(bytes) <=> Begun(b, i)
          /\ bytes[1][1] = b[i][1] /\ b[i][1] \in Names(B)
      BY <2>1, WireBegun
    <2>4. CutFrom(b, i, f) = IF DecodeWire(bytes)
                             THEN [f[i + FrameLen] EXCEPT !.frames = <<bytes[1][1]>> \o @]
                             ELSE [f[i + 1] EXCEPT !.skipped = @ + 1]
      BY <1>4 DEF CutFrom
    <2> HIDE DEF bytes
    <2>5. CASE Begun(b, i)
      <3>1. PICK name \in Names(B) : name = b[i][1]
        BY <2>3
      <3>2. CutFrom(b, i, f) = [f[i + FrameLen] EXCEPT !.frames = <<name>> \o @]
        BY <2>3, <2>4, <2>5, <3>1
      <3>3. PICK s : s = f[i + FrameLen]
        OBVIOUS
      <3>4. Right(B, b, i + FrameLen, s)
        BY <2>2, <3>3
      <3>5. Right(B, b, i, [s EXCEPT !.frames = <<name>> \o @])
        BY <2>1, <2>5, <3>1, <3>4, RightFrame
      <3> QED
        BY <3>2, <3>3, <3>5
    <2>6. CASE ~Begun(b, i)
      <3>1. PICK s : s = f[i + 1]
        OBVIOUS
      <3>2. Right(B, b, i + 1, s)
        BY <2>2, <3>1
      <3>3. Right(B, b, i, [s EXCEPT !.skipped = @ + 1])
        BY <2>1, <2>6, <3>2, RightSkip
      <3>4. CutFrom(b, i, f) = [s EXCEPT !.skipped = @ + 1]
        BY <2>3, <2>4, <2>6, <3>1
      <3> QED
        BY <3>3, <3>4
    <2> QED
      BY <2>5, <2>6
  <1> QED
    BY <1>3, <1>4

\* The scan finds, in any sequence of bytes, every frame that is whole in it and
\* nothing else, and leaves less than a frame (decoder.c:71).
THEOREM CutRight ==
  ASSUME NEW B, NEW b \in Seq(B)
  PROVE  Right(B, b, 1, CutFrames(b))
  <1>1. PICK n \in Nat : n = Len(b)
    OBVIOUS
  <1>2. PICK f : TableFrom(b, f, 1) /\ CutFrames(b) = f[1]
    BY CutFramesTable
  <1>3. \A i \in 1..(n + 1) : f[i] = CutFrom(b, i, f)
    BY <1>1, <1>2 DEF TableFrom
  <1> DEFINE R(i) == Right(B, b, i, f[i])
             T == {k \in 0..n : \A i \in (n + 1 - k)..(n + 1) : R(i)}
  <1>4. ASSUME NEW i \in 1..(n + 1), \A k \in (i + 1)..(n + 1) : R(k)
        PROVE  R(i)
    BY <1>1, <1>3, <1>4, RightFrom
  <1> HIDE DEF R
  <1>5. 0 \in T
    <2>1. \A i \in (n + 1 - 0)..(n + 1) : i = n + 1
      OBVIOUS
    <2>2. n + 1 \in 1..(n + 1) /\ \A k \in ((n + 1) + 1)..(n + 1) : FALSE
      OBVIOUS
    <2>3. R(n + 1)
      BY <1>4, <2>2
    <2>4. 0 \in 0..n
      OBVIOUS
    <2> QED
      BY <2>1, <2>3, <2>4, Zenon
  <1>6. ASSUME NEW k \in 0..(n - 1), k \in T PROVE k + 1 \in T
    <2>1. \A i \in (n + 1 - k)..(n + 1) : R(i)
      BY <1>6
    <2>2. PICK j \in 1..(n + 1) : j = n - k /\ j + 1 = n + 1 - k /\ n + 1 - (k + 1) = j
      <3>1. n - k \in 1..(n + 1) /\ (n - k) + 1 = n + 1 - k /\ n + 1 - (k + 1) = n - k
        OBVIOUS
      <3> QED
        BY <3>1
    <2>3. R(j)
      BY <1>4, <2>1, <2>2
    <2>4. \A i \in j..(n + 1) : i = j \/ i \in (j + 1)..(n + 1)
      OBVIOUS
    <2>5. \A i \in j..(n + 1) : R(i)
      BY <2>1, <2>2, <2>3, <2>4
    <2>6. k + 1 \in 0..n
      OBVIOUS
    <2> QED
      BY <2>2, <2>5, <2>6, Zenon
  <1>7. n \in T
    <2> HIDE DEF T
    <2>1. \A k \in 0..n : k \in T
      BY <1>5, <1>6, InductionTo
    <2> QED
      BY <2>1
  <1>8. 1 \in (n + 1 - n)..(n + 1)
    OBVIOUS
  <1>9. R(1)
    <2>1. \A i \in (n + 1 - n)..(n + 1) : R(i)
      BY <1>7
    <2> QED
      BY <1>8, <2>1
  <1> QED
    BY <1>2, <1>9 DEF R

\* What is found in a window of the bytes is found there in the bytes.
LEMMA FoundInWindow ==
  ASSUME NEW B, NEW b \in Seq(B), NEW w \in Seq(B), NEW q \in Nat,
         q + Len(w) <= Len(b), \A k \in 1..Len(w) : w[k] = b[q + k],
         NEW e \in 0..Len(w), NEW C, NEW frames \in Seq(C), NEW at,
         Found(w, 1, e, frames, at)
  PROVE  \E at2 : Found(b, q + 1, q + e, frames, at2)
  <1>1. PICK m \in Nat \ {0} : m = FrameLen
    BY DecoderAssumption
  <1>2. PICK n \in Nat : n = Len(b)
    OBVIOUS
  <1>3. PICK l \in Nat : l = Len(w)
    OBVIOUS
  <1>4. PICK x \in Nat : x = Len(frames)
    OBVIOUS
  <1>5. /\ DOMAIN at = 1..x
        /\ \A o \in 1..x : /\ at[o] \in Int /\ 1 <= at[o] /\ at[o] + m - 1 <= e
                           /\ Begun(w, at[o]) /\ frames[o] = w[at[o]][1]
        /\ \A o, s \in 1..x : o < s => at[o] < at[s]
        /\ \A p \in 1..e : Begun(w, p) => \E o \in 1..x : at[o] = p
    BY <1>1, <1>4 DEF Found, Placed, Complete
  <1> DEFINE at2 == [o \in 1..x |-> q + at[o]]
  <1>6. DOMAIN at2 = 1..x /\ \A o \in 1..x : at2[o] = q + at[o]
    OBVIOUS
  <1> HIDE DEF at2
  <1>7. ASSUME NEW p \in 1..e PROVE Begun(b, q + p) => Begun(w, p)
    <2> SUFFICES ASSUME Begun(b, q + p), NEW k \in 1..m, p + k - 1 <= l
                 PROVE  w[p + k - 1] = <<w[p][1], k>>
      BY <1>1, <1>3 DEF Begun
    <2>1. /\ (q + p) + k - 1 <= n /\ (q + p) + k - 1 = q + (p + k - 1)
          /\ p + k - 1 \in 1..l /\ p \in 1..l
      BY <1>2, <1>3
    <2>2. b[(q + p) + k - 1] = <<b[q + p][1], k>>
      BY <1>1, <1>2, <2>1 DEF Begun
    <2>3. w[p + k - 1] = b[q + (p + k - 1)] /\ w[p] = b[q + p]
      BY <1>3, <2>1
    <2> QED
      BY <2>1, <2>2, <2>3
  <1>8. ASSUME NEW o \in 1..x
        PROVE  /\ at2[o] \in Int /\ q + 1 <= at2[o] /\ at2[o] + m - 1 <= q + e
               /\ Begun(b, at2[o]) /\ frames[o] = b[at2[o]][1]
    <2>1. PICK p \in Int : p = at[o]
      BY <1>5
    <2>2. 1 <= p /\ p + m - 1 <= e /\ Begun(w, p) /\ frames[o] = w[p][1]
      BY <1>5, <2>1
    <2>3. at2[o] = q + p
      BY <1>6, <2>1
    <2>4. p \in 1..l /\ w[p] = b[q + p]
      BY <1>1, <1>3, <2>2
    <2>5. ASSUME NEW k \in 1..m PROVE b[(q + p) + k - 1] = <<b[q + p][1], k>>
      <3>1. /\ p + k - 1 \in 1..l /\ p + k - 1 <= l
            /\ (q + p) + k - 1 = q + (p + k - 1)
        BY <1>3, <2>2
      <3>2. w[p + k - 1] = <<w[p][1], k>>
        BY <1>1, <1>3, <2>2, <3>1 DEF Begun
      <3>3. w[p + k - 1] = b[q + (p + k - 1)]
        BY <1>3, <3>1
      <3> QED
        BY <2>4, <3>1, <3>2, <3>3
    <2>6. Begun(b, q + p)
      BY <1>1, <2>5 DEF Begun
    <2> QED
      BY <2>2, <2>3, <2>4, <2>6
  <1>9. ASSUME NEW o \in 1..x, NEW s \in 1..x, o < s PROVE at2[o] < at2[s]
    <2>1. at[o] \in Int /\ at[s] \in Int /\ at[o] < at[s]
      BY <1>5, <1>9
    <2> QED
      BY <1>6, <2>1
  <1>10. ASSUME NEW p \in (q + 1)..(q + e), Begun(b, p)
         PROVE  \E o \in 1..x : at2[o] = p
    <2>1. PICK r \in 1..e : p = q + r
      <3>1. p - q \in 1..e /\ p = q + (p - q)
        OBVIOUS
      <3> QED
        BY <3>1
    <2>2. Begun(w, r)
      BY <1>7, <1>10, <2>1
    <2>3. PICK o \in 1..x : at[o] = r
      BY <1>5, <2>2
    <2> QED
      BY <1>6, <2>1, <2>3
  <1>11. Placed(b, q + 1, q + e, frames, at2)
    BY <1>1, <1>4, <1>6, <1>8, <1>9 DEF Placed
  <1>12. Complete(b, q + 1, q + e, frames, at2)
    BY <1>4, <1>10 DEF Complete
  <1> QED
    BY <1>11, <1>12 DEF Found

\* Frames found before and frames found behind, joined.
LEMMA FoundJoined ==
  ASSUME NEW b, NEW C, NEW f1 \in Seq(C), NEW f2 \in Seq(C),
         NEW i \in Int, NEW e \in Int, NEW j \in Int, NEW g \in Int,
         i <= j, e < j, e <= g,
         NEW at1, Placed(b, i, e, f1, at1), NEW at2, Placed(b, j, g, f2, at2)
  PROVE  \E at : /\ Placed(b, i, g, f1 \o f2, at)
                 /\ Complete(b, i, e, f1, at1) /\ Complete(b, j, g, f2, at2) /\ j = e + 1
                      => Complete(b, i, g, f1 \o f2, at)
  <1>1. PICK m \in Nat \ {0} : m = FrameLen
    BY DecoderAssumption
  <1>2. PICK x \in Nat : x = Len(f1)
    OBVIOUS
  <1>3. PICK y \in Nat : y = Len(f2)
    OBVIOUS
  <1> DEFINE h == f1 \o f2
             at == [n \in 1..(x + y) |-> IF n <= x THEN at1[n] ELSE at2[n - x]]
  <1>4. /\ Len(h) = Len(f1) + Len(f2)
        /\ \A n \in 1..(Len(f1) + Len(f2)) :
              h[n] = IF n <= Len(f1) THEN f1[n] ELSE f2[n - Len(f1)]
    BY ConcatProperties
  <1> HIDE DEF h
  <1>5. /\ Len(h) = x + y
        /\ \A n \in 1..(x + y) : h[n] = IF n <= x THEN f1[n] ELSE f2[n - x]
    BY <1>2, <1>3, <1>4
  <1>6. /\ DOMAIN at = 1..(x + y)
        /\ \A n \in 1..(x + y) : at[n] = IF n <= x THEN at1[n] ELSE at2[n - x]
    OBVIOUS
  <1> HIDE DEF at
  <1>7. \A n \in 1..(x + y) : (n <= x /\ n \in 1..x) \/ (~(n <= x) /\ n - x \in 1..y)
    OBVIOUS
  <1>8. /\ \A n \in 1..x : /\ at1[n] \in Int /\ i <= at1[n] /\ at1[n] + m - 1 <= e
                           /\ Begun(b, at1[n]) /\ f1[n] = b[at1[n]][1]
        /\ \A n, o \in 1..x : n < o => at1[n] < at1[o]
    BY <1>1, <1>2 DEF Placed
  <1>9. /\ \A n \in 1..y : /\ at2[n] \in Int /\ j <= at2[n] /\ at2[n] + m - 1 <= g
                           /\ Begun(b, at2[n]) /\ f2[n] = b[at2[n]][1]
        /\ \A n, o \in 1..y : n < o => at2[n] < at2[o]
    BY <1>1, <1>3 DEF Placed
  <1>10. ASSUME NEW n \in 1..(x + y)
         PROVE  /\ at[n] \in Int /\ i <= at[n] /\ at[n] + m - 1 <= g
                /\ Begun(b, at[n]) /\ h[n] = b[at[n]][1]
    <2>1. CASE n <= x /\ n \in 1..x
      <3>1. at[n] = at1[n] /\ h[n] = f1[n]
        BY <1>5, <1>6, <2>1
      <3>2. PICK z \in Int : z = at1[n]
        BY <1>8, <2>1
      <3>3. i <= z /\ z + m - 1 <= e /\ Begun(b, z) /\ f1[n] = b[z][1]
        BY <1>8, <2>1, <3>2
      <3>4. z + m - 1 <= g
        BY <3>3
      <3> QED
        BY <3>1, <3>2, <3>3, <3>4
    <2>2. CASE ~(n <= x) /\ n - x \in 1..y
      <3>1. PICK o \in 1..y : o = n - x
        BY <2>2
      <3>2. at[n] = at2[o] /\ h[n] = f2[o]
        BY <1>5, <1>6, <2>2, <3>1
      <3>3. PICK z \in Int : z = at2[o]
        BY <1>9
      <3>4. j <= z /\ z + m - 1 <= g /\ Begun(b, z) /\ f2[o] = b[z][1]
        BY <1>9, <3>3
      <3>5. i <= z
        BY <3>4
      <3> QED
        BY <3>2, <3>3, <3>4, <3>5
    <2> QED
      BY <1>7, <2>1, <2>2
  <1>11. ASSUME NEW n \in 1..(x + y), NEW o \in 1..(x + y), n < o
         PROVE  at[n] < at[o]
    <2>1. CASE o <= x /\ o \in 1..x
      <3>1. n <= x /\ n \in 1..x
        BY <1>11, <2>1
      <3> QED
        BY <1>6, <1>8, <1>11, <2>1, <3>1
    <2>2. CASE ~(o <= x) /\ o - x \in 1..y
      <3>1. at[o] = at2[o - x] /\ at2[o - x] \in Int /\ j <= at2[o - x]
        BY <1>6, <1>9, <2>2
      <3>2. CASE n <= x /\ n \in 1..x
        <4>1. at[n] = at1[n] /\ at1[n] \in Int /\ at1[n] + m - 1 <= e
          BY <1>6, <1>8, <3>2
        <4> QED
          BY <3>1, <4>1
      <3>3. CASE ~(n <= x) /\ n - x \in 1..y
        <4>1. at[n] = at2[n - x] /\ n - x < o - x
          BY <1>6, <1>11, <3>3
        <4> QED
          BY <1>9, <2>2, <3>1, <3>3, <4>1
      <3> QED
        BY <1>7, <3>2, <3>3
    <2> QED
      BY <1>7, <2>1, <2>2
  <1>12. Placed(b, i, g, h, at)
    BY <1>1, <1>5, <1>6, <1>10, <1>11 DEF Placed
  <1>13. ASSUME Complete(b, i, e, f1, at1), Complete(b, j, g, f2, at2), j = e + 1,
                NEW p \in i..g, Begun(b, p)
         PROVE  \E n \in 1..(x + y) : at[n] = p
    <2>1. CASE p \in i..e
      <3>1. PICK n \in 1..x : at1[n] = p
        BY <1>2, <1>13, <2>1 DEF Complete
      <3>2. n \in 1..(x + y) /\ n <= x
        OBVIOUS
      <3> QED
        BY <1>6, <3>1, <3>2
    <2>2. CASE p \in j..g
      <3>1. PICK n \in 1..y : at2[n] = p
        BY <1>3, <1>13, <2>2 DEF Complete
      <3>2. n + x \in 1..(x + y) /\ ~(n + x <= x) /\ (n + x) - x = n
        OBVIOUS
      <3>3. at[n + x] = at2[n]
        BY <1>6, <3>2
      <3> QED
        BY <3>1, <3>2, <3>3
    <2>3. p \in i..e \/ p \in j..g
      BY <1>13
    <2> QED
      BY <2>1, <2>2, <2>3
  <1>14. Complete(b, i, e, f1, at1) /\ Complete(b, j, g, f2, at2) /\ j = e + 1
            => Complete(b, i, g, h, at)
    BY <1>5, <1>13 DEF Complete
  <1> QED
    BY <1>12, <1>14 DEF h

\* The bytes behind the first o; and those that a call of the decoder goes
\* through when it is given bytes u + 1 to u + n.
Behind(s, o) == SubSeq(s, o + 1, Len(s))
Given(b, u, n, buf, over) == Behind(buf \o SubSeq(b, u + 1, u + n), over)

\* A part of a sequence of bytes.
LEMMA Part ==
  ASSUME NEW B, NEW b \in Seq(B), NEW i \in Nat, NEW e \in Nat, i <= e, e <= Len(b)
  PROVE  /\ SubSeq(b, i + 1, e) \in Seq(B) /\ Len(SubSeq(b, i + 1, e)) = e - i
         /\ \A k \in 1..(e - i) : SubSeq(b, i + 1, e)[k] = b[i + k]
  <1>1. PICK n \in Nat : n = Len(b)
    OBVIOUS
  <1>2. PICK j \in Int : j = i + 1
    OBVIOUS
  <1> DEFINE v == SubSeq(b, j, e)
  <1>3. \A k \in j..e : b[k] \in B
    BY <1>1, <1>2
  <1>4. /\ v \in Seq(B)
        /\ Len(v) = IF j <= e THEN e - j + 1 ELSE 0
        /\ \A k \in 1..(e - j + 1) : v[k] = b[j + k - 1]
    BY <1>3, SubSeqProperties
  <1> HIDE DEF v
  <1>5. e - j + 1 = e - i /\ (~(j <= e) => e - i = 0)
    BY <1>2
  <1>6. \A k \in 1..(e - i) : j + k - 1 = i + k
    BY <1>2
  <1>7. Len(v) = e - i /\ \A k \in 1..(e - i) : v[k] = b[i + k]
    BY <1>4, <1>5, <1>6
  <1> QED
    BY <1>2, <1>4, <1>7 DEF v

\* What is behind the first o.
LEMMA Suffix ==
  ASSUME NEW B, NEW s \in Seq(B), NEW o \in Nat, o <= Len(s)
  PROVE  /\ Behind(s, o) \in Seq(B) /\ Len(Behind(s, o)) = Len(s) - o
         /\ \A k \in 1..(Len(s) - o) : Behind(s, o)[k] = s[o + k]
  <1>1. Len(s) \in Nat
    OBVIOUS
  <1> QED
    BY <1>1, Part DEF Behind

\* s is the bytes of b that end with the e-th.
EndsAt(s, b, e) ==
  Len(s) <= e /\ \A k \in 1..Len(s) : s[k] = b[e - Len(s) + k]

\* What the decoder goes through, when its buffer holds the last bytes read, is
\* the last bytes read again, less those that did not fit.
LEMMA Window ==
  ASSUME NEW B, NEW b \in Seq(B), NEW u \in Nat, NEW n \in Nat \ {0},
         u + n <= Len(b), NEW buf \in Seq(B), EndsAt(buf, b, u),
         NEW over \in Nat, over <= Len(buf) + n
  PROVE  /\ Len(SubSeq(b, u + 1, u + n)) = n
         /\ Given(b, u, n, buf, over) \in Seq(B)
         /\ Len(Given(b, u, n, buf, over)) = Len(buf) + n - over
         /\ EndsAt(Given(b, u, n, buf, over), b, u + n)
  <1>1. PICK l \in Nat : l = Len(b)
    OBVIOUS
  <1>2. PICK c \in Nat : c = Len(buf)
    OBVIOUS
  <1>3. c <= u /\ \A k \in 1..c : buf[k] = b[u - c + k]
    BY <1>2 DEF EndsAt
  <1> DEFINE data == SubSeq(b, u + 1, u + n)
  <1>4. /\ data \in Seq(B) /\ Len(data) = n
        /\ \A k \in 1..n : data[k] = b[u + k]
    <2>1. PICK e \in Nat : e = u + n /\ u <= e /\ e <= Len(b) /\ e - u = n
      OBVIOUS
    <2> DEFINE v == SubSeq(b, u + 1, e)
    <2>2. v \in Seq(B) /\ Len(v) = e - u /\ \A k \in 1..(e - u) : v[k] = b[u + k]
      BY <2>1, Part
    <2>3. v = data
      BY <2>1
    <2> HIDE DEF v, data
    <2> QED
      BY <2>1, <2>2, <2>3
  <1> DEFINE all == buf \o data
             w == Behind(all, over)
  <1>5. w = Given(b, u, n, buf, over)
    BY DEF Given
  <1> HIDE DEF data
  <1>6. /\ all \in Seq(B) /\ Len(all) = c + n
        /\ \A k \in 1..(c + n) : all[k] = b[u - c + k]
    <2>1. /\ all \in Seq(B) /\ Len(all) = Len(buf) + Len(data)
          /\ \A k \in 1..(Len(buf) + Len(data)) :
                all[k] = IF k <= Len(buf) THEN buf[k] ELSE data[k - Len(buf)]
      BY <1>4, ConcatProperties
    <2> HIDE DEF all
    <2>2. /\ Len(all) = c + n
          /\ \A k \in 1..(c + n) : all[k] = IF k <= c THEN buf[k] ELSE data[k - c]
      BY <1>2, <1>4, <2>1
    <2>3. ASSUME NEW k \in 1..(c + n) PROVE all[k] = b[u - c + k]
      <3>1. CASE k <= c
        <4>1. k \in 1..c
          BY <3>1
        <4> QED
          BY <1>3, <2>2, <3>1, <4>1
      <3>2. CASE ~(k <= c)
        <4>1. k - c \in 1..n /\ u + (k - c) = u - c + k
          BY <3>2
        <4> QED
          BY <1>4, <2>2, <3>2, <4>1
      <3> QED
        BY <3>1, <3>2
    <2> QED
      BY <2>1, <2>2, <2>3
  <1> HIDE DEF all
  <1>7. over <= c + n
    BY <1>2
  <1>8. /\ w \in Seq(B) /\ Len(w) = c + n - over
        /\ \A k \in 1..(c + n - over) : w[k] = all[over + k]
    <2>1. over <= Len(all)
      BY <1>6, <1>7
    <2>2. /\ w \in Seq(B) /\ Len(w) = Len(all) - over
          /\ \A k \in 1..(Len(all) - over) : w[k] = all[over + k]
      <3>1. all \in Seq(B)
        BY <1>6
      <3> QED
        BY <2>1, <3>1, Suffix
    <2> HIDE DEF w
    <2>3. PICK x \in Nat : x = c + n
      OBVIOUS
    <2>4. Len(all) = x
      BY <1>6, <2>3
    <2>5. /\ w \in Seq(B) /\ Len(w) = x - over
          /\ \A k \in 1..(x - over) : w[k] = all[over + k]
      BY <2>2, <2>4
    <2> QED
      BY <2>3, <2>5
  <1> HIDE DEF w
  <1>9. ASSUME NEW k \in 1..(c + n - over)
        PROVE  w[k] = b[u + n - (c + n - over) + k]
    <2>1. over + k \in 1..(c + n)
      BY <1>7
    <2>2. u - c + (over + k) = u + n - (c + n - over) + k
      OBVIOUS
    <2> QED
      BY <1>6, <1>8, <2>1, <2>2
  <1>10. c + n - over <= u + n
    BY <1>3
  <1>11. EndsAt(w, b, u + n)
    <2>1. PICK x \in Nat : x = c + n - over
      BY <1>7
    <2>2. /\ Len(w) = x /\ x <= u + n
          /\ \A k \in 1..x : w[k] = b[u + n - x + k]
      BY <1>8, <1>9, <1>10, <2>1
    <2> QED
      BY <2>2 DEF EndsAt
  <1> QED
    BY <1>2, <1>4, <1>5, <1>8, <1>11 DEF data

-----------------------------------------------------------------------------
(* The decoder of a connection.                                             *)

Sent == Range(Bytes)

\* The frames of a connection that began at f stand in Bytes up to e, and unless
\* a read did not fit there are no others there.
FoundSoFar(f, e, frames, lost) ==
  \E at : /\ Placed(Bytes, f + 1, e, frames, at)
          /\ ~lost => Complete(Bytes, f + 1, e, frames, at)

\* A connection that began at f and was read up to u: the buffer of its decoder
\* s holds the last bytes read, less than a frame, and every frame before them
\* was found.
Decoding(f, u, s, frames, lost) ==
  /\ f \in Starts /\ u \in f..Len(Bytes)
  /\ s \in [buf : Seq(Sent), resync : Nat]
  /\ frames \in Seq(Names(Sent))
  /\ lost \in BOOLEAN
  /\ Len(s.buf) < FrameLen
  /\ Len(s.buf) <= u - f
  /\ \A k \in 1..Len(s.buf) : s.buf[k] = Bytes[u - Len(s.buf) + k]
  /\ u - f = FrameLen * Len(frames) + Len(s.buf) + s.resync
  /\ FoundSoFar(f, u - Len(s.buf), frames, lost)

\* The inductive invariant of FramesRecovered.
DecodeIInv == Decoding(from, upto, stream, decoded, overran)

\* A decoder that has just been reset has found nothing in nothing.
LEMMA DecodeReset ==
  ASSUME NEW f \in Starts
  PROVE  Decoding(f, f, StreamReset, << >>, FALSE)
  <1>1. PICK n \in Nat : n = Len(Bytes)
    BY PollerAssumption
  <1>2. f \in Int /\ f \in 0..n /\ f \in f..n
    BY <1>1, PollerAssumption
  <1>3. PICK m \in Nat \ {0} : m = FrameLen
    BY DecoderAssumption
  <1>4. /\ StreamReset \in [buf : Seq(Sent), resync : Nat]
        /\ StreamReset.buf = << >> /\ Len(StreamReset.buf) = 0
        /\ StreamReset.resync = 0
    BY DEF StreamReset
  <1>5. << >> \in Seq(Names(Sent)) /\ Len(<< >>) = 0 /\ DOMAIN << >> = 1..0
    OBVIOUS
  <1>6. \A k \in 1..0 : FALSE
    OBVIOUS
  <1>7. f - 0 = f /\ \A p \in (f + 1)..f : FALSE
    BY <1>2
  <1>8. Placed(Bytes, f + 1, f, << >>, << >>)
    BY <1>5, <1>6 DEF Placed
  <1>9. Complete(Bytes, f + 1, f, << >>, << >>)
    BY <1>7 DEF Complete
  <1>10. FoundSoFar(f, f - Len(StreamReset.buf), << >>, FALSE)
    BY <1>4, <1>7, <1>8, <1>9 DEF FoundSoFar
  <1>11. 0 < m /\ 0 <= f - f /\ f - f = m * 0 + 0 + 0
    BY <1>2
  <1>12. /\ Len(StreamReset.buf) < FrameLen /\ Len(StreamReset.buf) <= f - f
         /\ f - f = FrameLen * Len(<< >>) + Len(StreamReset.buf) + StreamReset.resync
    BY <1>3, <1>4, <1>5, <1>11
  <1>13. \A k \in 1..Len(StreamReset.buf) :
            StreamReset.buf[k] = Bytes[f - Len(StreamReset.buf) + k]
    BY <1>4, <1>6
  <1> QED
    BY <1>1, <1>2, <1>4, <1>5, <1>10, <1>12, <1>13 DEF Decoding

\* The bytes that do not fit.
LEMMA OverflowIs ==
  ASSUME NEW st, NEW data, NEW c \in Nat, NEW n \in Nat, Len(st.buf) = c, Len(data) = n
  PROVE  Overflow(st, data) \in Nat /\ Overflow(st, data) <= c + n
  <1>1. BufSize \in Nat
    BY DecoderAssumption
  <1>2. PICK t \in Nat : t = c + n
    OBVIOUS
  <1>3. Overflow(st, data) = IF t > BufSize THEN t - BufSize ELSE 0
    BY <1>2 DEF Overflow
  <1> QED
    BY <1>1, <1>2, <1>3

\* A read: what the decoder makes of the bytes it has now is what is to be found
\* in them, and they begin where the frames found before end, unless some of
\* them did not fit.
LEMMA DecodeRecv ==
  ASSUME DecodeIInv, Recv
  PROVE  DecodeIInv'
  <1> DEFINE given(n) == SubSeq(Bytes, upto + 1, upto + n)
  <1>1. PICK n \in Nat \ {0} :
          /\ upto + n <= Len(Bytes)
          /\ stream' = StreamFeed(stream, given(n)).stream
          /\ decoded' = decoded \o StreamFeed(stream, given(n)).frames
          /\ overran' = (overran \/ Overflow(stream, given(n)) > 0)
          /\ upto' = upto + n /\ from' = from
    <2>1. \A n \in 1..RecvMax : n \in Nat \ {0}
      BY PollerAssumption
    <2> QED
      BY <2>1 DEF Recv
  <1>2. Bytes \in Seq(Sent)
    BY PollerAssumption DEF Sent
  <1>3. PICK l \in Nat : l = Len(Bytes)
    BY <1>2
  <1>4. PICK f \in Nat, u \in Nat : f = from /\ u = upto /\ u \in f..l
    <2>1. from \in 0..l /\ upto \in from..l
      BY <1>3, PollerAssumption DEF DecodeIInv, Decoding
    <2> QED
      BY <2>1
  <1>5. PICK buf \in Seq(Sent), res \in Nat : buf = stream.buf /\ res = stream.resync
    BY DEF DecodeIInv, Decoding
  <1>6. PICK c \in Nat : c = Len(buf)
    OBVIOUS
  <1>7. PICK x \in Nat : x = Len(decoded)
    BY DEF DecodeIInv, Decoding
  <1>8. PICK m \in Nat \ {0} : m = FrameLen
    BY DecoderAssumption
  <1>9. c < m /\ c <= u - f
    BY <1>4, <1>5, <1>6, <1>8 DEF DecodeIInv, Decoding
  <1>38. \A k \in 1..c : buf[k] = Bytes[u - c + k]
    BY <1>4, <1>5, <1>6 DEF DecodeIInv, Decoding
  <1>39. u - f = m * x + c + res
    BY <1>4, <1>5, <1>6, <1>7, <1>8 DEF DecodeIInv, Decoding
  <1>10. u + n <= l
    BY <1>1, <1>3, <1>4
  <1> DEFINE data == SubSeq(Bytes, u + 1, u + n)
  <1>11. data = given(n)
    BY <1>4
  <1>12. Len(data) = n
    <2>1. 0 \in Nat /\ 0 <= Len(buf) + n
      BY <1>6
    <2>2. EndsAt(buf, Bytes, u) /\ u + n <= Len(Bytes)
      BY <1>3, <1>6, <1>9, <1>10, <1>38 DEF EndsAt
    <2> QED
      BY <1>2, <2>1, <2>2, Window
  <1> HIDE DEF data
  <1>13. PICK over \in Nat : over = Overflow(stream, data) /\ over <= c + n
    <2>1. Len(stream.buf) = c /\ Len(data) = n
      BY <1>5, <1>6, <1>12
    <2> QED
      BY <2>1, OverflowIs
  <1> DEFINE w == Given(Bytes, u, n, buf, over)
             cut == CutFrames(w)
  <1>14. /\ w \in Seq(Sent) /\ Len(w) = c + n - over
         /\ \A k \in 1..Len(w) : w[k] = Bytes[u + n - Len(w) + k]
    <2>1. EndsAt(buf, Bytes, u) /\ u + n <= Len(Bytes) /\ over <= Len(buf) + n
      BY <1>3, <1>6, <1>9, <1>10, <1>13, <1>38 DEF EndsAt
    <2>2. w \in Seq(Sent) /\ Len(w) = Len(buf) + n - over /\ EndsAt(w, Bytes, u + n)
      BY <1>2, <2>1, Window
    <2> HIDE DEF w
    <2> QED
      BY <1>6, <2>2 DEF EndsAt
  <1>15. StreamFeed(stream, data) =
           [stream |-> [buf |-> cut.rest, resync |-> res + over + cut.skipped],
            frames |-> cut.frames]
    BY <1>5, <1>13 DEF StreamFeed, Given, Behind, data
  <1> HIDE DEF w
  <1>16. Right(Sent, w, 1, cut)
    BY <1>14, CutRight
  <1> HIDE DEF cut
  <1>17. PICK rest \in Seq(Sent), fr \in Seq(Names(Sent)), sk \in Nat :
           rest = cut.rest /\ fr = cut.frames /\ sk = cut.skipped
    BY <1>16 DEF Right
  <1>18. PICK r \in Nat : r = Len(rest)
    OBVIOUS
  <1>19. PICK y \in Nat : y = Len(fr)
    OBVIOUS
  <1>20. PICK lw \in Nat : lw = Len(w)
    BY <1>14
  <1>21. /\ r < m /\ m * y + sk + r = lw - 1 + 1 /\ lw - r >= 1 - 1
         /\ \A k \in 1..r : rest[k] = w[lw - r + k]
         /\ \E at : Found(w, 1, lw - r, fr, at)
    BY <1>8, <1>16, <1>17, <1>18, <1>19, <1>20 DEF Right
  <1>22. lw = c + n - over
    BY <1>14, <1>20
  \* The bytes gone through begin behind the q-th.
  <1>23. PICK q \in Nat : q = u + n - lw
    <2>1. u + n - lw \in Nat
      BY <1>9, <1>22
    <2> QED
      BY <2>1
  <1>24. q = u - c + over /\ q + lw = u + n /\ q + lw <= l /\ r <= lw
    <2>1. 0 <= lw - r
      BY <1>21
    <2> QED
      BY <1>10, <1>22, <1>23, <2>1
  <1>40. \A k \in 1..lw : w[k] = Bytes[q + k]
    BY <1>14, <1>20, <1>23
  <1>25. /\ stream' = [buf |-> rest, resync |-> res + over + sk]
         /\ decoded' = decoded \o fr
    <2>1. /\ StreamFeed(stream, data).stream =
                [buf |-> cut.rest, resync |-> res + over + cut.skipped]
          /\ StreamFeed(stream, data).frames = cut.frames
      BY <1>15
    <2> QED
      BY <1>1, <1>11, <1>17, <2>1
  <1>26. /\ stream'.buf = rest /\ stream'.resync = res + over + sk
         /\ stream' \in [buf : Seq(Sent), resync : Nat]
    BY <1>25
  <1>27. decoded' \in Seq(Names(Sent)) /\ Len(decoded') = x + y
    <2>1. decoded \in Seq(Names(Sent))
      BY DEF DecodeIInv, Decoding
    <2>2. /\ decoded \o fr \in Seq(Names(Sent))
          /\ Len(decoded \o fr) = Len(decoded) + Len(fr)
      BY <2>1, ConcatProperties
    <2> QED
      BY <1>7, <1>19, <1>25, <2>2
  <1>28. from' = f /\ upto' = u + n /\ f \in Starts
    BY <1>1, <1>4 DEF DecodeIInv, Decoding
  <1>41. ~(over > 0) => over = 0
    OBVIOUS
  <1>29. overran' \in BOOLEAN /\ (~overran' => ~overran /\ over = 0)
    <2>1. overran' = (overran \/ over > 0) /\ overran \in BOOLEAN
      BY <1>1, <1>11, <1>13 DEF DecodeIInv, Decoding
    <2> QED
      BY <1>41, <2>1, Zenon
  <1>30. \A k \in 1..r : rest[k] = Bytes[(u + n) - r + k]
    <2> SUFFICES ASSUME NEW k \in 1..r PROVE rest[k] = Bytes[(u + n) - r + k]
      OBVIOUS
    <2>1. /\ lw - r + k \in 1..lw /\ q + (lw - r + k) = (u + n) - r + k
      BY <1>24
    <2> QED
      BY <1>21, <1>40, <2>1
  <1>31. (u + n) - f = m * (x + y) + r + (res + over + sk)
    <2>1. m * (x + y) = m * x + m * y
      OBVIOUS
    <2>2. PICK z1 \in Nat, z2 \in Nat : z1 = m * x /\ z2 = m * y
      OBVIOUS
    <2>3. u - f = z1 + c + res /\ z2 + sk + r = lw
      BY <1>21, <1>39, <2>2
    <2>4. (u + n) - f = z1 + z2 + r + (res + over + sk)
      BY <1>22, <2>3
    <2> QED
      BY <2>1, <2>2, <2>4
  \* The frames found now are joined to those found before.
  <1>32. PICK at1 : /\ Placed(Bytes, f + 1, u - c, decoded, at1)
                    /\ ~overran => Complete(Bytes, f + 1, u - c, decoded, at1)
    BY <1>4, <1>5, <1>6 DEF DecodeIInv, Decoding, FoundSoFar
  <1>33. PICK at2 : Found(Bytes, q + 1, q + (lw - r), fr, at2)
    <2>1. PICK at0 : Found(w, 1, lw - r, fr, at0)
      BY <1>21
    <2>2. lw - r \in 0..lw
      BY <1>24
    <2> QED
      BY <1>2, <1>3, <1>14, <1>20, <1>24, <1>40, <2>1, <2>2, FoundInWindow
  <1>34. PICK e \in Int, g \in Int : /\ e = u - c /\ g = q + (lw - r) /\ g = (u + n) - r
                                     /\ f + 1 <= q + 1 /\ e < q + 1 /\ e <= g
                                     /\ over = 0 => q + 1 = e + 1
    <2>1. /\ u - c \in Int /\ q + (lw - r) \in Int /\ q + (lw - r) = (u + n) - r
          /\ f + 1 <= q + 1 /\ u - c < q + 1 /\ u - c <= q + (lw - r)
          /\ over = 0 => q + 1 = (u - c) + 1
      BY <1>9, <1>22, <1>24
    <2> QED
      BY <2>1
  <1>35. PICK at : /\ Placed(Bytes, f + 1, g, decoded \o fr, at)
                   /\ /\ Complete(Bytes, f + 1, e, decoded, at1)
                      /\ Complete(Bytes, q + 1, g, fr, at2) /\ q + 1 = e + 1
                      => Complete(Bytes, f + 1, g, decoded \o fr, at)
    <2>1. decoded \in Seq(Names(Sent)) /\ f + 1 \in Int /\ q + 1 \in Int
      BY DEF DecodeIInv, Decoding
    <2>2. Placed(Bytes, f + 1, e, decoded, at1) /\ Placed(Bytes, q + 1, g, fr, at2)
      BY <1>32, <1>33, <1>34 DEF Found
    <2> QED
      BY <1>34, <2>1, <2>2, FoundJoined
  <1>36. FoundSoFar(f, (u + n) - r, decoded \o fr, overran')
    <2>1. ~overran' => Complete(Bytes, f + 1, g, decoded \o fr, at)
      BY <1>29, <1>32, <1>33, <1>34, <1>35 DEF Found
    <2> QED
      BY <1>34, <1>35, <2>1 DEF FoundSoFar
  <1>37. /\ u + n \in f..l /\ r <= (u + n) - f
    BY <1>9, <1>10, <1>22, <1>24
  <1>42. PICK o \in BOOLEAN : o = overran'
    BY <1>29
  <1>43. PICK s \in [buf : Seq(Sent), resync : Nat] :
            s = stream' /\ s.buf = rest /\ s.resync = res + over + sk
    BY <1>26
  <1>44. PICK h \in Seq(Names(Sent)) : h = decoded' /\ h = decoded \o fr /\ Len(h) = x + y
    BY <1>25, <1>27
  <1>45. FoundSoFar(f, (u + n) - r, h, o)
    BY <1>36, <1>42, <1>44
  <1>46. Decoding(f, u + n, s, h, o)
    BY <1>3, <1>8, <1>18, <1>21, <1>28, <1>30, <1>31, <1>37, <1>43, <1>44, <1>45
       DEF Decoding
  <1> QED
    BY <1>28, <1>42, <1>43, <1>44, <1>46 DEF DecodeIInv

\* The connection that the poller starts from has received nothing.
LEMMA InitDecode == TcpInit => DecodeIInv
  <1> SUFFICES ASSUME TcpInit PROVE DecodeIInv
    OBVIOUS
  <1>1. 0 \in Starts
    BY PollerAssumption
  <1>2. Decoding(0, 0, StreamReset, << >>, FALSE)
    BY <1>1, DecodeReset
  <1>3. from = 0 /\ upto = 0 /\ stream = StreamReset /\ decoded = << >> /\ overran = FALSE
    BY DEF TcpInit
  <1> QED
    BY <1>2, <1>3 DEF DecodeIInv

\* Only a connection and a read touch the decoder.
LEMMA NextDecode == DecodeIInv /\ [TcpNext]_tcpvars => DecodeIInv'
  <1> SUFFICES ASSUME DecodeIInv, [TcpNext]_tcpvars PROVE DecodeIInv'
    OBVIOUS
  <1>1. CASE Expose
    <2>1. PICK p \in Starts : from' = p /\ upto' = p
      BY <1>1 DEF Expose
    <2>2. stream' = StreamReset /\ decoded' = << >> /\ overran' = FALSE
      BY <1>1 DEF Expose
    <2>3. Decoding(p, p, StreamReset, << >>, FALSE)
      BY DecodeReset
    <2> QED
      BY <2>1, <2>2, <2>3 DEF DecodeIInv
  <1>2. CASE Recv
    BY <1>2, DecodeRecv
  <1>3. CASE UNCHANGED strvars
    BY <1>3 DEF DecodeIInv, strvars
  <1>4. ASSUME TcpPollThread \/ RecvStray, ~Expose, ~Recv PROVE UNCHANGED strvars
    BY <1>4 DEF TcpPollThread, PollLoop, Connect, SessionCheck, RecvNothing, RecvBlocks, RecvStray,
                RecvEnds, SessionEnd, SessionClose, SessionClear
  <1>5. ASSUME Main \/ OnExitSignal \/ PlatformConnect \/ PlatformClose
        PROVE  UNCHANGED strvars
    BY <1>5 DEF Main, TcpPollerStart, Serve, RollBack, ServeEnds, StopTest,
                StopClose, StopClear, TcpPollerJoin, OnExitSignal,
                PlatformConnect, PlatformClose
  <1>6. CASE UNCHANGED tcpvars
    BY <1>3, <1>6 DEF tcpvars
  <1> QED
    BY <1>1, <1>2, <1>3, <1>4, <1>5, <1>6 DEF TcpNext

\* Every decoder is right about its connection, at every moment.
LEMMA DecodeInvariant == TcpSpec => []DecodeIInv
  BY InitDecode, NextDecode, PTL DEF TcpSpec

\* What was received is a part of Bytes.
LEMMA ReceivedIs ==
  ASSUME DecodeIInv
  PROVE  /\ Len(Received) = upto - from
         /\ \A k \in 1..(upto - from) : Received[k] = Bytes[from + k]
  <1>1. PICK l \in Nat : l = Len(Bytes)
    BY PollerAssumption
  <1>2. PICK f \in Nat, u \in Nat : f = from /\ u = upto /\ f <= u /\ u <= l
    <2>1. from \in 0..l /\ upto \in from..l
      BY <1>1, PollerAssumption DEF DecodeIInv, Decoding
    <2> QED
      BY <2>1
  <1> DEFINE w == SubSeq(Bytes, f + 1, u)
  <1>3. Bytes \in Seq(Range(Bytes))
    BY PollerAssumption
  <1>4. Len(w) = u - f /\ \A k \in 1..(u - f) : w[k] = Bytes[f + k]
    BY <1>1, <1>2, <1>3, Part
  <1>5. Received = w
    BY <1>2 DEF Received, w
  <1> QED
    BY <1>2, <1>4, <1>5

\* A frame is whole in what was received if it begins in Bytes and ends there.
LEMMA WholeReceived ==
  ASSUME DecodeIInv, NEW p \in 1..Len(Received)
  PROVE  WholeAt(Received, p) <=>
           p + FrameLen - 1 <= upto - from /\ Begun(Bytes, from + p)
  <1>1. PICK l \in Nat : l = Len(Bytes)
    BY PollerAssumption
  <1>2. PICK f \in Nat, u \in Nat : f = from /\ u = upto /\ f <= u /\ u <= l
    <2>1. from \in 0..l /\ upto \in from..l
      BY <1>1, PollerAssumption DEF DecodeIInv, Decoding
    <2> QED
      BY <2>1
  <1>3. PICK m \in Nat \ {0} : m = FrameLen
    BY DecoderAssumption
  <1>4. PICK w : w = Received
    OBVIOUS
  <1>5. Len(w) = u - f /\ \A k \in 1..(u - f) : w[k] = Bytes[f + k]
    BY <1>2, <1>4, ReceivedIs
  <1>6. p \in 1..(u - f)
    BY <1>4, <1>5
  <1>7. WholeAt(w, p) <=> /\ p + m - 1 <= u - f
                          /\ \A k \in 1..m : w[p + k - 1] = <<w[p][1], k>>
    BY <1>3, <1>5 DEF WholeAt
  <1>8. ASSUME p + m - 1 <= u - f
        PROVE  (\A k \in 1..m : w[p + k - 1] = <<w[p][1], k>>) <=> Begun(Bytes, f + p)
    <2>1. ASSUME NEW k \in 1..m
          PROVE  /\ w[p + k - 1] = Bytes[(f + p) + k - 1] /\ (f + p) + k - 1 <= l
      <3>1. /\ p + k - 1 \in 1..(u - f) /\ f + (p + k - 1) = (f + p) + k - 1
            /\ (f + p) + k - 1 <= l
        BY <1>2, <1>6, <1>8
      <3> QED
        BY <1>5, <3>1
    <2>2. w[p] = Bytes[f + p]
      BY <1>5, <1>6
    <2>3. Begun(Bytes, f + p) <=> \A k \in 1..m : Bytes[(f + p) + k - 1] = <<Bytes[f + p][1], k>>
      BY <1>1, <1>3, <2>1 DEF Begun
    <2> QED
      BY <2>1, <2>2, <2>3
  <1> QED
    BY <1>2, <1>3, <1>4, <1>7, <1>8

\* The scan of frame_stream_feed finds what is there, of every stream of bytes
\* and of every way to cut it into reads (decoder.c:71): the frames that arrived
\* whole, once and in order, nothing else, and every byte is accounted for.
THEOREM FramesFound == TcpSpec => []FramesRecovered
  <1>1. ASSUME DecodeIInv PROVE FramesRecovered
    <2>1. PICK l \in Nat : l = Len(Bytes)
      BY PollerAssumption
    <2>2. PICK f \in Nat, u \in Nat : f = from /\ u = upto /\ f <= u /\ u <= l
      <3>1. from \in 0..l /\ upto \in from..l
        BY <1>1, <2>1, PollerAssumption DEF DecodeIInv, Decoding
      <3> QED
        BY <3>1
    <2>3. PICK m \in Nat \ {0} : m = FrameLen
      BY DecoderAssumption
    <2>4. PICK c \in Nat : c = Len(stream.buf) /\ c < m
      BY <1>1, <2>3 DEF DecodeIInv, Decoding
    <2>5. PICK x \in Nat : x = Len(decoded) /\ DOMAIN decoded = 1..x
      BY <1>1 DEF DecodeIInv, Decoding
    <2>6. PICK w : /\ w = Received /\ Len(w) = u - f
                   /\ \A k \in 1..(u - f) : w[k] = Bytes[f + k]
      BY <1>1, <2>2, ReceivedIs
    <2>7. PICK at : /\ Placed(Bytes, f + 1, u - c, decoded, at)
                    /\ ~overran => Complete(Bytes, f + 1, u - c, decoded, at)
      BY <1>1, <2>2, <2>4 DEF DecodeIInv, Decoding, FoundSoFar
    <2>8. /\ \A n \in 1..x : /\ at[n] \in Int /\ f + 1 <= at[n]
                             /\ at[n] + m - 1 <= u - c
                             /\ Begun(Bytes, at[n]) /\ decoded[n] = Bytes[at[n]][1]
          /\ \A n, o \in 1..x : n < o => at[n] < at[o]
      BY <2>3, <2>5, <2>7 DEF Placed
    <2>9. ASSUME NEW p \in 1..(u - f)
          PROVE  WholeAt(w, p) <=> p + m - 1 <= u - f /\ Begun(Bytes, f + p)
      BY <1>1, <2>2, <2>3, <2>6, WholeReceived
    <2> DEFINE here == [n \in 1..x |-> at[n] - f]
    <2>10. ASSUME NEW n \in 1..x
           PROVE  /\ here[n] \in 1..(u - f) /\ f + here[n] = at[n]
                  /\ here[n] + m - 1 <= u - f
      <3>1. PICK a \in Int : a = at[n] /\ f + 1 <= a /\ a + m - 1 <= u - c
        BY <2>8
      <3>2. here[n] = a - f
        BY <3>1
      <3>3. a - f \in 1..(u - f) /\ f + (a - f) = a /\ (a - f) + m - 1 <= u - f
        BY <3>1
      <3> QED
        BY <3>1, <3>2, <3>3
    <2>11. here \in [1..x -> 1..(u - f)]
      BY <2>10
    <2>12. DOMAIN here = 1..x
      OBVIOUS
    <2> HIDE DEF here
    <2>13. ASSUME NEW n \in 1..x, NEW o \in 1..x, n < o PROVE here[n] < here[o]
      <3>1. PICK a \in Int, b \in Int : a = here[n] /\ b = here[o]
        BY <2>10
      <3>2. f + a < f + b
        BY <2>8, <2>10, <2>13, <3>1
      <3> QED
        BY <3>1, <3>2
    <2>14. ASSUME NEW n \in 1..x
           PROVE  WholeAt(w, here[n]) /\ decoded[n] = w[here[n]][1]
      <3>1. PICK a \in 1..(u - f) : a = here[n]
        BY <2>10
      <3>2. f + a = at[n] /\ a + m - 1 <= u - f
        BY <2>10, <3>1
      <3>3. w[a] = Bytes[f + a]
        BY <2>6
      <3> QED
        BY <2>8, <2>9, <3>1, <3>2, <3>3
    <2>15. ASSUME ~overran, NEW p \in 1..(u - f), WholeAt(w, p) PROVE p \in Range(here)
      <3>1. p + m - 1 <= u - f /\ Begun(Bytes, f + p)
        BY <2>9, <2>15
      <3>2. f + p \in (f + 1)..(u - c)
        BY <2>4, <3>1
      <3>3. PICK n \in 1..x : at[n] = f + p
        BY <2>5, <2>7, <2>15, <3>1, <3>2 DEF Complete
      <3>4. here[n] = p
        <4>1. PICK a \in Int : a = here[n] /\ f + a = at[n]
          BY <2>10
        <4> QED
          BY <3>3, <4>1
      <3> QED
        BY <2>12, <3>4 DEF Range
    <2>16. upto - from = FrameLen * Len(decoded) + Len(stream.buf) + stream.resync
      BY <1>1 DEF DecodeIInv, Decoding
    <2> QED
      BY <2>5, <2>6, <2>11, <2>13, <2>14, <2>15, <2>16 DEF FramesRecovered
  <1> QED
    BY <1>1, DecodeInvariant, PTL

\* The types of the whole: of the descriptors, of main's flags and of the decoder,
\* whose buffer never keeps a frame's worth of bytes (decoder.c:71).
THEOREM TcpTyping == TcpSpec => []TcpTypeOK
  <1> DEFINE Flags == running \in BOOLEAN /\ rolled \in BOOLEAN /\ foreign \in BOOLEAN
  <1>1. TcpInit => Flags
    BY DEF TcpInit
  <1>2. FdTypes /\ Flags /\ [TcpNext]_tcpvars => Flags'
    <2> SUFFICES ASSUME FdTypes, Flags, [TcpNext]_tcpvars PROVE Flags'
      OBVIOUS
    <2>1. CASE UNCHANGED tcpvars
      BY <2>1 DEF tcpvars, mainvars, fdvars
    <2>2. CASE TcpPollThread \/ RecvStray
      BY <2>2 DEF TcpPollThread, PollLoop, Connect, Expose, SessionCheck, Recv,
                  RecvNothing, RecvBlocks, RecvStray, RecvEnds, SessionEnd, SessionClose, SessionClear,
                  CloseFd, mainvars, fdvars
    <2>3. CASE Main \/ OnExitSignal \/ PlatformConnect \/ PlatformClose
      BY <2>3 DEF Main, TcpPollerStart, Serve, RollBack, ServeEnds, StopTest,
                  StopClose, StopClear, TcpPollerJoin, OnExitSignal,
                  PlatformConnect, PlatformClose, CloseFd, mainvars, fdvars
    <2> QED
      BY <2>1, <2>2, <2>3 DEF TcpNext
  <1>3. CloseIInv /\ DecodeIInv /\ Flags => TcpTypeOK
    BY DEF CloseIInv, FdTypes, DecodeIInv, Decoding, TcpTypeOK
  <1>4. CloseIInv => FdTypes
    BY DEF CloseIInv
  <1> HIDE DEF Flags
  <1> QED
    BY <1>1, <1>2, <1>3, <1>4, CloseInvariant, DecodeInvariant, PTL DEF TcpSpec

=============================================================================
