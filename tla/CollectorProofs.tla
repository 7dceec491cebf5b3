-------------------------- MODULE CollectorProofs --------------------------
(***************************************************************************)
(* Theorems about Collector for any number of dispatch threads, any        *)
(* capacities and any set of threads that cannot be created.               *)
(***************************************************************************)
EXTENDS Collector, TLAPS

USE CollectorAssumption DEF ends, UsesQueue

-----------------------------------------------------------------------------
(* main's programs, step by step.                                           *)

Steps ==
  {"udp_start", "tcp_start", "cleaner_start", "sim_start", "ticker_start",
   "workers_start", "monitor_start", "serve", "udp_stop", "udp_join",
   "tcp_join", "sim_join", "wake_q1", "cleaner_join", "wake_q2",
   "workers_join", "bucket_stop", "ticker_join", "monitor_join", "destroy",
   "report", "return"}

LEMMA StoppingSteps == Stopping \in Seq(Steps)
  BY DEF Stopping, Steps

LEMMA StartUpSteps ==
  /\ StartUp \in Seq(Steps) /\ Len(StartUp) = 8
  /\ StartUp[1] = "udp_start" /\ StartUp[2] = "tcp_start"
  /\ StartUp[3] = "cleaner_start" /\ StartUp[4] = "sim_start"
  /\ StartUp[5] = "ticker_start" /\ StartUp[6] = "workers_start"
  /\ StartUp[7] = "monitor_start" /\ StartUp[8] = "serve"
  <1>1. StartUp \in Seq(Steps)
    BY DEF StartUp, Steps
  <1> QED
    BY <1>1 DEF StartUp

LEMMA ExitSteps ==
  /\ Exit \in Seq(Steps) /\ Len(Exit) = 13
  /\ Exit[1] = "udp_stop" /\ Exit[2] = "udp_join" /\ Exit[3] = "tcp_join"
  /\ Exit[4] = "sim_join" /\ Exit[5] = "wake_q1" /\ Exit[6] = "cleaner_join"
  /\ Exit[7] = "wake_q2" /\ Exit[8] = "workers_join" /\ Exit[9] = "bucket_stop"
  /\ Exit[10] = "ticker_join" /\ Exit[11] = "monitor_join" /\ Exit[12] = "destroy"
  /\ Exit[13] = "report"
  <1>1. <<"sim_join", "wake_q1", "cleaner_join", "wake_q2", "workers_join",
          "bucket_stop", "ticker_join", "monitor_join", "destroy", "report">> \in Seq(Steps)
    BY DEF Steps
  <1>2. Exit \in Seq(Steps)
    BY <1>1, StoppingSteps DEF Exit
  <1>3. Len(Exit) = 13
    BY DEF Exit, Stopping
  <1>4. /\ Exit[1] = "udp_stop" /\ Exit[2] = "udp_join" /\ Exit[3] = "tcp_join"
        /\ Exit[4] = "sim_join" /\ Exit[5] = "wake_q1" /\ Exit[6] = "cleaner_join"
    BY DEF Exit, Stopping
  <1>5. /\ Exit[7] = "wake_q2" /\ Exit[8] = "workers_join"
        /\ Exit[9] = "bucket_stop" /\ Exit[10] = "ticker_join"
        /\ Exit[11] = "monitor_join" /\ Exit[12] = "destroy"
        /\ Exit[13] = "report"
    BY DEF Exit, Stopping
  <1> QED
    BY <1>2, <1>3, <1>4, <1>5

LEMMA RollBackIngressSteps ==
  /\ RollBackIngress \in Seq(Steps) /\ Len(RollBackIngress) = 5
  /\ RollBackIngress[1] = "udp_stop" /\ RollBackIngress[2] = "udp_join"
  /\ RollBackIngress[3] = "tcp_join" /\ RollBackIngress[4] = "destroy"
  /\ RollBackIngress[5] = "return"
  <1>1. <<"destroy", "return">> \in Seq(Steps)
    BY DEF Steps
  <1>2. RollBackIngress \in Seq(Steps)
    BY <1>1, StoppingSteps DEF RollBackIngress
  <1> QED
    BY <1>2 DEF RollBackIngress, Stopping

LEMMA RollBackAllSteps ==
  /\ RollBackAll \in Seq(Steps) /\ Len(RollBackAll) = 8
  /\ RollBackAll[1] = "wake_q1" /\ RollBackAll[2] = "cleaner_join"
  /\ RollBackAll[3] = "sim_join" /\ RollBackAll[4] = "udp_stop"
  /\ RollBackAll[5] = "udp_join" /\ RollBackAll[6] = "tcp_join"
  /\ RollBackAll[7] = "destroy" /\ RollBackAll[8] = "return"
  <1>1. <<"wake_q1", "cleaner_join", "sim_join">> \in Seq(Steps)
        /\ <<"destroy", "return">> \in Seq(Steps)
    BY DEF Steps
  <1>2. RollBackAll \in Seq(Steps)
    BY <1>1, StoppingSteps DEF RollBackAll
  <1>3. Len(RollBackAll) = 8
    BY DEF RollBackAll, Stopping
  <1>4. /\ RollBackAll[1] = "wake_q1" /\ RollBackAll[2] = "cleaner_join"
        /\ RollBackAll[3] = "sim_join" /\ RollBackAll[4] = "udp_stop"
        /\ RollBackAll[5] = "udp_join" /\ RollBackAll[6] = "tcp_join"
        /\ RollBackAll[7] = "destroy" /\ RollBackAll[8] = "return"
    BY DEF RollBackAll, Stopping
  <1> QED
    BY <1>2, <1>3, <1>4

\* main has done k steps of a program.
DoneOf(program, k) ==
  /\ k \in 0..Len(program)
  /\ Len(todo) = Len(program) - k
  /\ \A i \in 1..Len(todo) : todo[i] = program[i + k]

LEMMA NextStep ==
  ASSUME todo \in Seq(Steps), NEW program \in Seq(Steps), NEW k,
         DoneOf(program, k), NEW step, Doing(step)
  PROVE  /\ k < Len(program) /\ program[k + 1] = step
         /\ Done => todo' \in Seq(Steps) /\ DoneOf(program, k + 1)'
  <1>1. Len(todo) \in Nat \ {0} /\ todo[1] = step
    BY DEF Doing
  <1>2. k < Len(program) /\ program[k + 1] = step
    BY <1>1 DEF DoneOf
  <1>3. ASSUME Done PROVE todo' \in Seq(Steps) /\ DoneOf(program, k + 1)'
    <2>1. /\ todo' \in Seq(Steps) /\ Len(todo') = Len(todo) - 1
          /\ \A i \in 1..Len(todo') : todo'[i] = todo[i + 1]
      BY <1>3 DEF Done
    <2> QED
      BY <1>1, <1>2, <2>1 DEF DoneOf
  <1> QED
    BY <1>2, <1>3

LEMMA Begins ==
  ASSUME NEW program \in Seq(Steps), todo' = program
  PROVE  todo' \in Seq(Steps) /\ DoneOf(program, 0)'
  BY DEF DoneOf

-----------------------------------------------------------------------------
(* Which threads can be there at which step.                                *)

Places == {"none", "loop", "pop", "asleep", "busy", "left"}

Starting(k) ==
  /\ DoneOf(StartUp, k)
  /\ ~destroyed
  /\ k < 1 => at["udp"] = "none"
  /\ k < 2 => at["tcp"] = "none"
  /\ k < 3 => at["cleaner"] = "none"
  /\ k < 4 => at["sim"] = "none"
  /\ k < 6 => \A w \in Workers : at[w] = "none"

Exiting(k) ==
  /\ DoneOf(Exit, k)
  /\ destroyed => k >= 12
  /\ k > 1 => Gone("udp")
  /\ k > 2 => Gone("tcp")
  /\ k > 3 => Gone("sim")
  /\ k > 5 => Gone("cleaner")
  /\ k > 7 => \A w \in Workers : Gone(w)

RollingBackIngress(k) ==
  /\ DoneOf(RollBackIngress, k)
  /\ destroyed => k >= 4
  /\ k > 1 => Gone("udp")
  /\ k > 2 => Gone("tcp")
  /\ Gone("sim") /\ Gone("cleaner") /\ \A w \in Workers : Gone(w)

RollingBackAll(k) ==
  /\ DoneOf(RollBackAll, k)
  /\ destroyed => k >= 7
  /\ k > 1 => Gone("cleaner")
  /\ k > 2 => Gone("sim")
  /\ k > 4 => Gone("udp")
  /\ k > 5 => Gone("tcp")
  /\ \A w \in Workers : Gone(w)

Ending(k) == Exiting(k) \/ RollingBackIngress(k) \/ RollingBackAll(k)

\* The inductive invariant: a thread that uses a queue is not started yet, or
\* is still to be joined, or gone, wherever main is in its four programs.
LifeIInv ==
  /\ todo \in Seq(Steps)
  /\ at \in [Threads -> Places]
  /\ \E k \in Nat : Starting(k) \/ Ending(k)

LEMMA InitLife == CollectorInit => LifeIInv
  <1> SUFFICES ASSUME CollectorInit PROVE LifeIInv
    OBVIOUS
  <1>1. todo \in Seq(Steps) /\ at \in [Threads -> Places]
    BY StartUpSteps DEF CollectorInit, Places
  <1>2. DoneOf(StartUp, 0)
    BY StartUpSteps DEF CollectorInit, DoneOf
  <1>3. Starting(0)
    BY <1>2 DEF CollectorInit, Starting, Threads, Producers
  <1> QED
    BY <1>1, <1>3 DEF LifeIInv

\* What main does not do: threads that are gone, or not started, stay so.
MainRests ==
  /\ todo' = todo /\ destroyed' = destroyed
  /\ at' \in [Threads -> Places]
  /\ \A t \in Threads : Gone(t) => at'[t] = at[t]

LEMMA RestKeepsLife ==
  ASSUME LifeIInv, MainRests
  PROVE  LifeIInv'
  <1> USE DEF Threads, Producers
  <1>1. PICK k \in Nat : Starting(k) \/ Ending(k)
    BY DEF LifeIInv
  <1>2. \A program : DoneOf(program, k) => DoneOf(program, k)'
    BY DEF MainRests, DoneOf
  <1>3. \A t \in Threads : Gone(t) => Gone(t)'
    BY DEF MainRests, Gone
  <1>4. CASE Starting(k)
    <2>1. Starting(k)'
      BY <1>2, <1>4 DEF Starting, MainRests, Gone
    <2> QED
      BY <2>1 DEF LifeIInv, MainRests
  <1>5. CASE Ending(k)
    <2>1. Ending(k)'
      BY <1>2, <1>3, <1>5 DEF Ending, Exiting, RollingBackIngress, RollingBackAll,
                              MainRests
    <2> QED
      BY <2>1 DEF LifeIInv, MainRests
  <1> QED
    BY <1>1, <1>4, <1>5

\* Threads leave, sleep and wake, but none comes back.
LEMMA ThreadsRest ==
  ASSUME LifeIInv,
         \/ OnExitSignal
         \/ \E p \in Producers : ProducerLoop(p) \/ ProducerFrame(p)
         \/ CleanerThread
         \/ \E w \in Workers : Worker(w)
         \/ Ticker \/ MonitorLeaves \/ Snapshot
         \/ \E t \in Threads : SpuriousWakeup(t)
  PROVE  MainRests
  <1> USE DEF LifeIInv, MainRests, Gone, Goto, GotoWith, Threads, Producers, Places,
              flowvars, outvars
  <1>1. CASE OnExitSignal
    BY <1>1 DEF OnExitSignal
  <1>2. ASSUME NEW p \in Producers, ProducerLoop(p) PROVE MainRests
    BY <1>2 DEF ProducerLoop
  <1>3. ASSUME NEW p \in Producers, ProducerFrame(p) PROVE MainRests
    BY <1>3 DEF ProducerFrame
  <1>4. CASE CleanerLoop
    BY <1>4 DEF CleanerLoop
  <1>5. CASE CleanerPop
    BY <1>5 DEF CleanerPop
  <1>6. CASE CleanerFrame
    BY <1>6 DEF CleanerFrame
  <1>7. ASSUME NEW w \in Workers, WorkerPop(w) \/ WorkerSend(w) PROVE MainRests
    BY <1>7 DEF WorkerPop, WorkerSend
  <1>8. CASE Ticker \/ MonitorLeaves \/ Snapshot
    BY <1>8 DEF Ticker, TickerLoop, Tick, MonitorLeaves, Snapshot
  <1>9. ASSUME NEW t \in Threads, SpuriousWakeup(t) PROVE MainRests
    BY <1>9 DEF SpuriousWakeup
  <1> QED
    BY <1>1, <1>2, <1>3, <1>4, <1>5, <1>6, <1>7, <1>8, <1>9
    DEF CleanerThread, Worker

-----------------------------------------------------------------------------
(* main.                                                                    *)

StartSteps ==
  {"udp_start", "tcp_start", "cleaner_start", "sim_start", "ticker_start",
   "workers_start", "monitor_start", "serve"}

\* Only the start-up starts threads, and no step of it occurs twice.
LEMMA StartPlace ==
  ASSUME LifeIInv, NEW step \in StartSteps, Doing(step)
  PROVE  \E k \in 0..7 : Starting(k) /\ StartUp[k + 1] = step
  <1>1. PICK k \in Nat : Starting(k) \/ Ending(k)
    BY DEF LifeIInv
  <1>2. CASE Starting(k)
    BY <1>2, NextStep, StartUpSteps DEF Starting, LifeIInv
  <1>3. CASE Exiting(k)
    <2>1. k < 13 /\ k \in Nat /\ Exit[k + 1] = step
      BY <1>3, NextStep, ExitSteps DEF Exiting, LifeIInv
    <2> QED
      BY <2>1, ExitSteps DEF StartSteps
  <1>4. CASE RollingBackIngress(k)
    <2>1. k < 5 /\ k \in Nat /\ RollBackIngress[k + 1] = step
      BY <1>4, NextStep, RollBackIngressSteps DEF RollingBackIngress, LifeIInv
    <2> QED
      BY <2>1, RollBackIngressSteps DEF StartSteps
  <1>5. CASE RollingBackAll(k)
    <2>1. k < 8 /\ k \in Nat /\ RollBackAll[k + 1] = step
      BY <1>5, NextStep, RollBackAllSteps DEF RollingBackAll, LifeIInv
    <2> QED
      BY <2>1, RollBackAllSteps DEF StartSteps
  <1> QED
    BY <1>1, <1>2, <1>3, <1>4, <1>5 DEF Ending

\* The other steps are on the way out.
LEMMA EndPlace ==
  ASSUME LifeIInv, NEW step, step \notin StartSteps, Doing(step)
  PROVE  \E k \in Nat : Ending(k)
  <1>1. PICK k \in Nat : Starting(k) \/ Ending(k)
    BY DEF LifeIInv
  <1>2. CASE Starting(k)
    <2>1. k < 8 /\ k \in Nat /\ StartUp[k + 1] = step
      BY <1>2, NextStep, StartUpSteps DEF Starting, LifeIInv
    <2> QED
      BY <2>1, StartUpSteps DEF StartSteps
  <1> QED
    BY <1>1, <1>2

\* The start of one optional thread.
LEMMA OptionalStep ==
  ASSUME LifeIInv, NEW step \in StartSteps, NEW t \in Threads,
         StartOptional(step, t)
  PROVE  /\ Doing(step) /\ Done /\ destroyed' = destroyed
         /\ at' \in [Threads -> Places]
         /\ \A s \in Threads \ {t} : at'[s] = at[s]
  BY DEF StartOptional, Create, LifeIInv, Places

\* The step of the start-up at which a thread is created.
TurnOf(t, k) ==
  \/ t = "udp" /\ k = 0
  \/ t = "tcp" /\ k = 1
  \/ t = "cleaner" /\ k = 2
  \/ t = "sim" /\ k = 3
  \/ t \in {"ticker", "monitor"}

\* At its turn a thread may come to be, for the others nothing changes.
LEMMA TurnKeepsStarting ==
  ASSUME NEW t \in Threads \ Workers, NEW k \in 0..7, TurnOf(t, k), Starting(k),
         DoneOf(StartUp, k + 1)', destroyed' = destroyed,
         \A s \in Threads \ {t} : at'[s] = at[s]
  PROVE  Starting(k + 1)'
  <1>1. \A w \in Workers : at'[w] = at[w]
    BY DEF Threads
  <1>2. \A s \in {"udp", "tcp", "cleaner", "sim"} : s # t => at'[s] = at[s]
    BY DEF Threads, Producers
  <1>3. k + 1 < 1 => at'["udp"] = "none"
    OBVIOUS
  <1>4. k + 1 < 2 => at'["tcp"] = "none"
    BY <1>2 DEF TurnOf, Starting
  <1>5. k + 1 < 3 => at'["cleaner"] = "none"
    BY <1>2 DEF TurnOf, Starting
  <1>6. k + 1 < 4 => at'["sim"] = "none"
    BY <1>2 DEF TurnOf, Starting
  <1>7. k + 1 < 6 => \A w \in Workers : at'[w] = "none"
    BY <1>1 DEF Starting
  <1> QED
    BY <1>3, <1>4, <1>5, <1>6, <1>7 DEF Starting

LEMMA StartKeepsLife ==
  ASSUME LifeIInv,
         \/ UdpStart \/ TcpStart \/ CleanerStart \/ SimStart \/ TickerStart
         \/ WorkersStart \/ MonitorStart \/ Serve
  PROVE  LifeIInv'
  <1>1. ASSUME NEW t \in Threads \ Workers, NEW step \in StartSteps,
               StartOptional(step, t), NEW k \in 0..7, Starting(k), TurnOf(t, k)
        PROVE  LifeIInv'
    <2>1. /\ Doing(step) /\ Done /\ destroyed' = destroyed
          /\ at' \in [Threads -> Places]
          /\ \A s \in Threads \ {t} : at'[s] = at[s]
      BY <1>1, OptionalStep
    <2>2. todo' \in Seq(Steps) /\ DoneOf(StartUp, k + 1)'
      BY <1>1, <2>1, NextStep, StartUpSteps DEF LifeIInv, Starting
    <2>3. Starting(k + 1)'
      BY <1>1, <2>1, <2>2, TurnKeepsStarting
    <2> QED
      BY <2>1, <2>2, <2>3 DEF LifeIInv
  <1>2. CASE UdpStart
    <2>1. StartOptional("udp_start", "udp") /\ Doing("udp_start")
      BY <1>2 DEF UdpStart, StartOptional, Create
    <2>2. PICK k \in 0..7 : Starting(k) /\ StartUp[k + 1] = "udp_start"
      BY <2>1, StartPlace DEF StartSteps
    <2>3. TurnOf("udp", k)
      BY <2>2, StartUpSteps DEF TurnOf
    <2>4. "udp" \in Threads \ Workers /\ "udp_start" \in StartSteps
      BY DEF Threads, Producers, StartSteps
    <2> QED
      BY <1>1, <2>1, <2>2, <2>3, <2>4
  <1>3. CASE TcpStart
    <2>1. StartOptional("tcp_start", "tcp") /\ Doing("tcp_start")
      BY <1>3 DEF TcpStart, StartOptional, Create
    <2>2. PICK k \in 0..7 : Starting(k) /\ StartUp[k + 1] = "tcp_start"
      BY <2>1, StartPlace DEF StartSteps
    <2>3. TurnOf("tcp", k)
      BY <2>2, StartUpSteps DEF TurnOf
    <2>4. "tcp" \in Threads \ Workers /\ "tcp_start" \in StartSteps
      BY DEF Threads, Producers, StartSteps
    <2> QED
      BY <1>1, <2>1, <2>2, <2>3, <2>4
  <1>4. CASE SimStart
    <2>1. StartOptional("sim_start", "sim") /\ Doing("sim_start")
      BY <1>4 DEF SimStart, StartOptional, Create
    <2>2. PICK k \in 0..7 : Starting(k) /\ StartUp[k + 1] = "sim_start"
      BY <2>1, StartPlace DEF StartSteps
    <2>3. TurnOf("sim", k)
      BY <2>2, StartUpSteps DEF TurnOf
    <2>4. "sim" \in Threads \ Workers /\ "sim_start" \in StartSteps
      BY DEF Threads, Producers, StartSteps
    <2> QED
      BY <1>1, <2>1, <2>2, <2>3, <2>4
  <1>5. CASE MonitorStart
    <2>1. StartOptional("monitor_start", "monitor") /\ Doing("monitor_start")
      BY <1>5 DEF MonitorStart, StartOptional, Create
    <2>2. "monitor" \in Threads \ Workers /\ "monitor_start" \in StartSteps
      BY DEF Threads, StartSteps
    <2>3. \A k : TurnOf("monitor", k)
      BY DEF TurnOf
    <2> QED
      BY <1>1, <2>1, <2>2, <2>3, StartPlace
  <1>6. CASE CleanerStart
    <2>1. Doing("cleaner_start") /\ destroyed' = destroyed
      BY <1>6 DEF CleanerStart, Create
    <2>2. PICK k \in 0..7 : Starting(k) /\ StartUp[k + 1] = "cleaner_start"
      BY <2>1, StartPlace DEF StartSteps
    <2>3. k = 2
      BY <2>2, StartUpSteps
    <2>4. at' \in [Threads -> Places] /\ \A s \in Threads \ {"cleaner"} : at'[s] = at[s]
      BY <1>6 DEF CleanerStart, Create, LifeIInv, Places
    <2>5. CASE Done
      <3>1. todo' \in Seq(Steps) /\ DoneOf(StartUp, 3)'
        BY <2>1, <2>2, <2>3, <2>5, NextStep, StartUpSteps DEF LifeIInv, Starting
      <3>2. TurnOf("cleaner", 2) /\ "cleaner" \in Threads \ Workers
        BY DEF TurnOf, Threads
      <3>3. Starting(3)'
        BY <2>1, <2>2, <2>3, <2>4, <3>1, <3>2, TurnKeepsStarting
      <3> QED
        BY <2>4, <3>1, <3>3 DEF LifeIInv
    <2>6. CASE todo' = RollBackIngress /\ ~Done
      <3>1. todo' \in Seq(Steps) /\ DoneOf(RollBackIngress, 0)'
        BY <2>6, Begins, RollBackIngressSteps
      <3>2. at'["cleaner"] = at["cleaner"]
        BY <1>6, <2>6 DEF CleanerStart, Create, Threads
      <3>3. /\ at'["sim"] = "none" /\ at'["cleaner"] = "none"
            /\ \A w \in Workers : at'[w] = "none"
        <4>1. at["sim"] = "none" /\ at["cleaner"] = "none"
              /\ \A w \in Workers : at[w] = "none"
          BY <2>2, <2>3 DEF Starting
        <4>2. at'["sim"] = at["sim"]
          BY <2>4 DEF Threads, Producers
        <4>3. \A w \in Workers : at'[w] = at[w]
          BY <2>4 DEF Threads
        <4> QED
          BY <3>2, <4>1, <4>2, <4>3
      <3>5. ~destroyed'
        BY <2>1, <2>2, Zenon DEF Starting
      <3>4. RollingBackIngress(0)'
        BY <3>1, <3>3, <3>5 DEF RollingBackIngress, Gone
      <3> QED
        BY <2>4, <3>1, <3>4 DEF LifeIInv, Ending
    <2> QED
      BY <1>6, <2>5, <2>6 DEF CleanerStart
  <1>7. ASSUME NEW step \in StartSteps, DispatcherFails(step),
               NEW k \in 0..7, Starting(k), k < 6
        PROVE  LifeIInv'
    <2>1. todo' \in Seq(Steps) /\ DoneOf(RollBackAll, 0)'
      BY <1>7, Begins, RollBackAllSteps DEF DispatcherFails
    <2>2. at' \in [Threads -> Places] /\ destroyed' = destroyed
          /\ \A s \in Threads : at'[s] = at[s]
      BY <1>7 DEF DispatcherFails, Create, LifeIInv, Places
    <2>3. RollingBackAll(0)'
      BY <1>7, <2>1, <2>2 DEF RollingBackAll, Starting, Gone, Threads
    <2> QED
      BY <2>1, <2>2, <2>3 DEF LifeIInv, Ending
  <1>8. CASE TickerStart
    <2>1. Doing("ticker_start")
      BY <1>8 DEF TickerStart, StartOptional, DispatcherFails, Create
    <2>2. PICK k \in 0..7 : Starting(k) /\ StartUp[k + 1] = "ticker_start"
      BY <2>1, StartPlace DEF StartSteps
    <2>3. k = 4
      BY <2>2, StartUpSteps
    <2>4. CASE StartOptional("ticker_start", "ticker")
      <3>1. "ticker" \in Threads \ Workers /\ "ticker_start" \in StartSteps
        BY DEF Threads, StartSteps
      <3>2. TurnOf("ticker", k)
        BY DEF TurnOf
      <3> QED
        BY <1>1, <2>2, <2>4, <3>1, <3>2
    <2>5. CASE DispatcherFails("ticker_start")
      BY <1>7, <2>2, <2>3, <2>5 DEF StartSteps
    <2> QED
      BY <1>8, <2>4, <2>5 DEF TickerStart
  <1>9. CASE WorkersStart
    <2>1. Doing("workers_start")
      BY <1>9 DEF WorkersStart, DispatcherFails, Create
    <2>2. PICK k \in 0..7 : Starting(k) /\ StartUp[k + 1] = "workers_start"
      BY <2>1, StartPlace DEF StartSteps
    <2>3. k = 5
      BY <2>2, StartUpSteps
    <2>4. ASSUME NEW set \in SUBSET Workers, Create("workers_start", set, "pop"), Done
          PROVE  LifeIInv'
      <3>1. todo' \in Seq(Steps) /\ DoneOf(StartUp, 6)'
        BY <2>1, <2>2, <2>3, <2>4, NextStep, StartUpSteps DEF LifeIInv, Starting
      <3>2. at' \in [Threads -> Places] /\ destroyed' = destroyed
        BY <2>4 DEF Create, LifeIInv, Places
      <3>3. Starting(6)'
        BY <2>2, <3>1, <3>2 DEF Starting
      <3> QED
        BY <3>1, <3>2, <3>3 DEF LifeIInv
    <2>5. CASE DispatcherFails("workers_start")
      BY <1>7, <2>2, <2>3, <2>5 DEF StartSteps
    <2> QED
      BY <1>9, <2>4, <2>5 DEF WorkersStart
  <1>10. CASE Serve
    <2>1. Doing("serve") /\ at' = at /\ destroyed' = destroyed /\ todo' = Exit
      BY <1>10 DEF Serve
    <2>2. PICK k \in 0..7 : Starting(k) /\ StartUp[k + 1] = "serve"
      BY <2>1, StartPlace DEF StartSteps
    <2>3. todo' \in Seq(Steps) /\ DoneOf(Exit, 0)'
      BY <2>1, Begins, ExitSteps
    <2>4. Exiting(0)'
      BY <2>1, <2>2, <2>3 DEF Exiting, Starting
    <2> QED
      BY <2>1, <2>3, <2>4 DEF LifeIInv, Ending
  <1> QED
    BY <1>2, <1>3, <1>4, <1>5, <1>6, <1>8, <1>9, <1>10

-----------------------------------------------------------------------------
(* main, on its way out.                                                    *)

\* A step on the way out: main goes on, and a join has waited.
LEMMA EndStep ==
  ASSUME LifeIInv, NEW step, step \notin StartSteps, Doing(step), Done,
         at' \in [Threads -> Places], \A t \in Threads : Gone(t) => Gone(t)',
         destroyed' => destroyed \/ step = "destroy",
         step = "udp_join" => Gone("udp")', step = "tcp_join" => Gone("tcp")',
         step = "sim_join" => Gone("sim")',
         step = "cleaner_join" => Gone("cleaner")',
         step = "workers_join" => \A w \in Workers : Gone(w)'
  PROVE  LifeIInv'
  <1>1. PICK k \in Nat : Ending(k)
    BY EndPlace
  <1>2. /\ \A w \in Workers : Gone(w) => Gone(w)'
        /\ Gone("udp") => Gone("udp")'
        /\ Gone("tcp") => Gone("tcp")'
        /\ Gone("sim") => Gone("sim")'
        /\ Gone("cleaner") => Gone("cleaner")'
    BY DEF Threads, Producers
  <1>3. todo \in Seq(Steps)
    BY DEF LifeIInv
  <1>4. CASE Exiting(k)
    <2>1. /\ k < 13 /\ Exit[k + 1] = step
          /\ todo' \in Seq(Steps) /\ DoneOf(Exit, k + 1)'
      BY <1>3, <1>4, NextStep, ExitSteps DEF Exiting
    <2>2. destroyed' => k + 1 >= 12
      BY <1>4, <2>1, ExitSteps DEF Exiting
    <2>3. k + 1 > 1 => Gone("udp")'
      BY <1>2, <1>4, <2>1, ExitSteps DEF Exiting
    <2>4. k + 1 > 2 => Gone("tcp")'
      BY <1>2, <1>4, <2>1, ExitSteps DEF Exiting
    <2>5. k + 1 > 3 => Gone("sim")'
      BY <1>2, <1>4, <2>1, ExitSteps DEF Exiting
    <2>6. k + 1 > 5 => Gone("cleaner")'
      BY <1>2, <1>4, <2>1, ExitSteps DEF Exiting
    <2>7. k + 1 > 7 => \A w \in Workers : Gone(w)'
      BY <1>2, <1>4, <2>1, ExitSteps DEF Exiting
    <2>8. Exiting(k + 1)'
      BY <2>1, <2>2, <2>3, <2>4, <2>5, <2>6, <2>7 DEF Exiting
    <2> QED
      BY <2>1, <2>8 DEF LifeIInv, Ending
  <1>5. CASE RollingBackIngress(k)
    <2>1. /\ k < 5 /\ RollBackIngress[k + 1] = step
          /\ todo' \in Seq(Steps) /\ DoneOf(RollBackIngress, k + 1)'
      BY <1>3, <1>5, NextStep, RollBackIngressSteps DEF RollingBackIngress
    <2>2. destroyed' => k + 1 >= 4
      BY <1>5, <2>1, RollBackIngressSteps DEF RollingBackIngress
    <2>3. k + 1 > 1 => Gone("udp")'
      BY <1>2, <1>5, <2>1, RollBackIngressSteps DEF RollingBackIngress
    <2>4. k + 1 > 2 => Gone("tcp")'
      BY <1>2, <1>5, <2>1, RollBackIngressSteps DEF RollingBackIngress
    <2>5. Gone("sim")' /\ Gone("cleaner")' /\ \A w \in Workers : Gone(w)'
      BY <1>2, <1>5 DEF RollingBackIngress
    <2>6. RollingBackIngress(k + 1)'
      BY <2>1, <2>2, <2>3, <2>4, <2>5 DEF RollingBackIngress
    <2> QED
      BY <2>1, <2>6 DEF LifeIInv, Ending
  <1>6. CASE RollingBackAll(k)
    <2>1. /\ k < 8 /\ RollBackAll[k + 1] = step
          /\ todo' \in Seq(Steps) /\ DoneOf(RollBackAll, k + 1)'
      BY <1>3, <1>6, NextStep, RollBackAllSteps DEF RollingBackAll
    <2>2. destroyed' => k + 1 >= 7
      BY <1>6, <2>1, RollBackAllSteps DEF RollingBackAll
    <2>3. k + 1 > 1 => Gone("cleaner")'
      BY <1>2, <1>6, <2>1, RollBackAllSteps DEF RollingBackAll
    <2>4. k + 1 > 2 => Gone("sim")'
      BY <1>2, <1>6, <2>1, RollBackAllSteps DEF RollingBackAll
    <2>5. k + 1 > 4 => Gone("udp")'
      BY <1>2, <1>6, <2>1, RollBackAllSteps DEF RollingBackAll
    <2>6. k + 1 > 5 => Gone("tcp")'
      BY <1>2, <1>6, <2>1, RollBackAllSteps DEF RollingBackAll
    <2>7. \A w \in Workers : Gone(w)'
      BY <1>2, <1>6 DEF RollingBackAll
    <2>8. RollingBackAll(k + 1)'
      BY <2>1, <2>2, <2>3, <2>4, <2>5, <2>6, <2>7 DEF RollingBackAll
    <2> QED
      BY <2>1, <2>8 DEF LifeIInv, Ending
  <1> QED
    BY <1>1, <1>4, <1>5, <1>6 DEF Ending

LEMMA EndKeepsLife ==
  ASSUME LifeIInv, UdpStop \/ Join \/ WakeAll \/ BucketStop \/ Destroy \/ Report \/ Return
  PROVE  LifeIInv'
  <1> DEFINE Waited(step) ==
        /\ step = "udp_join" => Gone("udp")'
        /\ step = "tcp_join" => Gone("tcp")'
        /\ step = "sim_join" => Gone("sim")'
        /\ step = "cleaner_join" => Gone("cleaner")'
        /\ step = "workers_join" => \A w \in Workers : Gone(w)'
  <1>1. \E step : /\ Doing(step) /\ step \notin StartSteps /\ Done
                  /\ at' \in [Threads -> Places]
                  /\ \A t \in Threads : Gone(t) => Gone(t)'
                  /\ destroyed' => destroyed \/ step = "destroy"
                  /\ Waited(step)
    <2>1. CASE UdpStop
      <3>1. Doing("udp_stop") /\ Done /\ at' = at /\ destroyed' = destroyed
        BY <2>1 DEF UdpStop
      <3> QED
        BY <3>1 DEF LifeIInv, Gone, StartSteps
    <2>2. CASE Join
      <3>1. Done /\ at' = at /\ destroyed' = destroyed
        BY <2>2 DEF Join
      <3>2. \E step : Doing(step) /\ step \notin StartSteps /\ Waited(step)
        BY <2>2, <3>1 DEF Join, StartSteps, Gone
      <3> QED
        BY <3>1, <3>2 DEF LifeIInv, Gone
    <2>3. CASE WakeAll
      <3>1. Done /\ destroyed' = destroyed
        BY <2>3 DEF WakeAll
      <3>2. /\ at' \in [Threads -> Places]
            /\ \A t \in Threads : Gone(t) => Gone(t)'
        BY <2>3 DEF WakeAll, Woken, Gone, LifeIInv, Places
      <3>3. Doing("wake_q1") \/ Doing("wake_q2")
        BY <2>3 DEF WakeAll
      <3> QED
        BY <3>1, <3>2, <3>3 DEF StartSteps
    <2>4. CASE BucketStop
      <3>1. Doing("bucket_stop") /\ Done /\ at' = at /\ destroyed' = destroyed
        BY <2>4 DEF BucketStop
      <3> QED
        BY <3>1 DEF LifeIInv, Gone, StartSteps
    <2>5. CASE Destroy
      <3>1. Doing("destroy") /\ Done /\ at' = at
        BY <2>5 DEF Destroy
      <3> QED
        BY <3>1 DEF LifeIInv, Gone, StartSteps
    <2>6. CASE Report
      <3>1. Doing("report") /\ Done /\ at' = at /\ destroyed' = destroyed
        BY <2>6 DEF Report
      <3> QED
        BY <3>1 DEF LifeIInv, Gone, StartSteps
    <2>7. CASE Return
      <3>1. Doing("return") /\ Done /\ at' = at /\ destroyed' = destroyed
        BY <2>7 DEF Return
      <3> QED
        BY <3>1 DEF LifeIInv, Gone, StartSteps
    <2> QED
      BY <2>1, <2>2, <2>3, <2>4, <2>5, <2>6, <2>7
  <1> QED
    BY <1>1, EndStep

LEMMA NextLife == LifeIInv /\ [CollectorNext]_cvars => LifeIInv'
  <1> SUFFICES ASSUME LifeIInv, [CollectorNext]_cvars PROVE LifeIInv'
    OBVIOUS
  <1>1. CASE Main
    BY <1>1, StartKeepsLife, EndKeepsLife DEF Main
  <1>2. CASE CollectorNext /\ ~Main
    BY <1>2, ThreadsRest, RestKeepsLife DEF CollectorNext
  <1>3. CASE UNCHANGED cvars
    <2>1. MainRests
      BY <1>3 DEF cvars, MainRests, LifeIInv
    <2> QED
      BY <2>1, RestKeepsLife
  <1> QED
    BY <1>1, <1>2, <1>3

\* Where main is at the end, the threads that fill and empty the queues are gone.
LEMMA UsersGone ==
  ASSUME LifeIInv, destroyed
  PROVE  \A t \in Producers \cup {"cleaner"} \cup Workers : Gone(t)
  <1>1. PICK k \in Nat : Ending(k)
    BY DEF LifeIInv, Starting
  <1> QED
    BY <1>1 DEF Ending, Exiting, RollingBackIngress, RollingBackAll, Producers

\* So none of them comes to a destroyed queue.
LEMMA NextLate ==
  ASSUME LifeIInv, late \subseteq {"main", "stats"}, [CollectorNext]_cvars
  PROVE  late' \subseteq {"main", "stats"}
  <1>1. ASSUME NEW t \in Producers \cup {"cleaner"} \cup Workers, ~Gone(t), UsesQueue(t)
        PROVE  late' = late
    BY <1>1, UsersGone
  <1>2. ASSUME NEW p \in Producers, ProducerFrame(p) PROVE late' = late
    BY <1>1, <1>2 DEF ProducerFrame, Gone
  <1>3. CASE CleanerPop \/ CleanerFrame
    BY <1>1, <1>3 DEF CleanerPop, CleanerFrame, Gone
  <1>4. ASSUME NEW w \in Workers, WorkerPop(w) PROVE late' = late
    BY <1>1, <1>4 DEF WorkerPop, Gone
  <1>5. CASE Main \/ Snapshot
    BY <1>5 DEF Main, UdpStart, TcpStart, CleanerStart, SimStart, TickerStart,
           WorkersStart, MonitorStart, Serve, UdpStop, Join, WakeAll, BucketStop,
           Destroy, Report, Return, StartOptional, DispatcherFails, Create, Snapshot
  <1>6. CASE OnExitSignal \/ CleanerLoop \/ Ticker \/ MonitorLeaves
             \/ UNCHANGED cvars
    BY <1>6 DEF OnExitSignal, CleanerLoop, Ticker, TickerLoop, Tick, MonitorLeaves, cvars
  <1>7. CASE \/ \E p \in Producers : ProducerLoop(p)
             \/ \E w \in Workers : WorkerSend(w)
             \/ \E t \in Threads : SpuriousWakeup(t)
    BY <1>7 DEF ProducerLoop, WorkerSend, SpuriousWakeup
  <1> QED
    BY <1>2, <1>3, <1>4, <1>5, <1>6, <1>7 DEF CollectorNext, CleanerThread, Worker

\* Whatever cannot be created, whenever the signal comes and on each of the
\* three ways to the end of main, a queue is destroyed only when every thread
\* that fills or empties it is gone (main.c:259-267, 294-307, 326-348); only
\* main's report and the statistics thread come to it later.
THEOREM StatsAloneOutlive == CollectorSpec => []OnlyStatsOutlive
  <1> DEFINE Late == late \subseteq {"main", "stats"}
  <1>1. CollectorInit => Late
    BY DEF CollectorInit
  <1>2. LifeIInv /\ Late /\ [CollectorNext]_cvars => Late'
    BY NextLate
  <1>3. LifeIInv /\ Late => OnlyStatsOutlive
    BY UsersGone DEF OnlyStatsOutlive
  <1> HIDE DEF Late
  <1> QED
    BY <1>1, <1>2, <1>3, InitLife, NextLife, PTL DEF CollectorSpec

-----------------------------------------------------------------------------
(* Types and bounds.                                                        *)

\* A consumer that is busy has a frame.
BusyHaveFrames ==
  \A t \in {"cleaner"} \cup Workers : at[t] = "busy" => hand[t] # 0

\* The counts, and apart from them the flags.
Counts ==
  /\ at \in [Threads -> {"none", "loop", "pop", "asleep", "busy", "left"}]
  /\ q1 \in 0..Q1Cap
  /\ q2 \in 0..Q2Cap
  /\ hand \in [Threads -> 0..Batch]
  /\ supply \in 0..Supply
  /\ tokens \in 0..Burst
  /\ BusyHaveFrames

Flags == {running, epoll, bucketDown, tickStop, destroyed} \subseteq BOOLEAN

LateTyped == late \subseteq Threads \cup {"main", "stats"}

TypeIInv == Counts /\ Flags /\ LateTyped

LEMMA SmallerBounds ==
  ASSUME NEW m \in Nat, NEW n \in Nat
  PROVE  Smaller(m, n) \in 0..m /\ Smaller(m, n) \in 0..n
  BY DEF Smaller

LEMMA InitTypes == CollectorInit => TypeIInv
  <1> SUFFICES ASSUME CollectorInit PROVE TypeIInv
    OBVIOUS
  <1>1. Counts
    BY DEF CollectorInit, Counts, BusyHaveFrames, Threads, Producers
  <1>2. Flags
    BY DEF CollectorInit, Flags
  <1>3. LateTyped
    BY DEF CollectorInit, LateTyped
  <1> QED
    BY <1>1, <1>2, <1>3 DEF TypeIInv

\* The threads keep queues, hands and tokens within their bounds.
LEMMA ThreadsKeepCounts ==
  ASSUME Counts,
         \/ OnExitSignal
         \/ \E p \in Producers : ProducerLoop(p) \/ ProducerFrame(p)
         \/ CleanerThread
         \/ \E w \in Workers : Worker(w)
         \/ Ticker \/ MonitorLeaves \/ Snapshot
         \/ \E t \in Threads : SpuriousWakeup(t)
  PROVE  Counts'
  <1>a. /\ Smaller(q1 + 1, Q1Cap) \in 0..Q1Cap
        /\ Smaller(q1, Batch) \in 0..q1 /\ Smaller(q1, Batch) \in 0..Batch
        /\ Smaller(q2, Batch) \in 0..q2 /\ Smaller(q2, Batch) \in 0..Batch
        /\ Smaller(tokens + Rate, Burst) \in 0..Burst
        /\ Want \in 0..Burst
    <2>1. /\ q1 \in Nat /\ q2 \in Nat /\ q1 + 1 \in Nat /\ tokens + Rate \in Nat
          /\ Batch \in Nat /\ Q1Cap \in Nat /\ Burst \in Nat /\ Cost \in Nat
      BY DEF Counts
    <2> QED
      BY <2>1, SmallerBounds DEF Want
  <1>b. \A t \in {"cleaner"} \cup Workers : at[t] = "busy" => hand[t] \in 1..Batch
    BY DEF Counts, BusyHaveFrames, Threads
  <1> USE DEF Counts, BusyHaveFrames, Threads, Producers, Goto,
              GotoWith, flowvars, outvars
  <1>1. CASE OnExitSignal
    BY <1>1 DEF OnExitSignal
  <1>2. ASSUME NEW p \in Producers, ProducerLoop(p) PROVE Counts'
    BY <1>2 DEF ProducerLoop
  <1>3. ASSUME NEW p \in Producers, ProducerFrame(p) PROVE Counts'
    <2>1. q1' \in 0..Q1Cap /\ supply' \in 0..Supply
      BY <1>3, <1>a DEF ProducerFrame
    <2>2. at' \in [Threads -> {"none", "loop", "pop", "asleep", "busy", "left"}]
          /\ \A t \in {"cleaner"} \cup Workers : at'[t] = "busy" => at[t] = "busy"
      BY <1>3 DEF ProducerFrame
    <2>3. UNCHANGED <<q2, hand, tokens>>
      BY <1>3 DEF ProducerFrame
    <2> QED
      BY <2>1, <2>2, <2>3
  <1>4. CASE CleanerLoop
    BY <1>4 DEF CleanerLoop
  <1>5. CASE CleanerPop
    <2> DEFINE n == Smaller(q1, Batch)
    <2>1. n \in 0..q1 /\ n \in 0..Batch
      BY <1>a
    <2> HIDE DEF n
    <2>2. /\ q1' = q1 - n
          /\ hand' = [hand EXCEPT !["cleaner"] = IF n > 0 THEN n ELSE 0]
          /\ at' = [at EXCEPT !["cleaner"] = IF n > 0 THEN "busy"
                                             ELSE IF running THEN "asleep" ELSE "left"]
      BY <1>5 DEF CleanerPop, n
    <2> QED
      BY <1>5, <2>1, <2>2 DEF CleanerPop
  <1>6. CASE CleanerFrame
    <2> DEFINE left == hand["cleaner"] - 1
    <2>1. left \in 0..Batch
      BY <1>6, <1>b DEF CleanerFrame
    <2>2. hand' = [hand EXCEPT !["cleaner"] = left]
      BY <1>6 DEF CleanerFrame
    <2> HIDE DEF left
    <2>3. /\ at' \in [Threads -> {"none", "loop", "pop", "asleep", "busy", "left"}]
          /\ at'["cleaner"] = "busy" => left # 0
          /\ \A w \in Workers : at'[w] = "busy" => at[w] = "busy"
      <3> DEFINE then == [at EXCEPT !["cleaner"] = IF left = 0 THEN "loop" ELSE "busy"]
      <3>1. at' = then \/ \E w \in Workers : at' = [then EXCEPT ![w] = "pop"]
        BY <1>6 DEF CleanerFrame, left
      <3> QED
        BY <3>1
    <2>4. q2' \in 0..Q2Cap /\ UNCHANGED <<q1, supply, tokens>>
      BY <1>6 DEF CleanerFrame
    <2> QED
      BY <2>1, <2>2, <2>3, <2>4
  <1>7. ASSUME NEW w \in Workers, WorkerPop(w) PROVE Counts'
    <2> DEFINE n == Smaller(q2, Batch)
    <2>1. n \in 0..q2 /\ n \in 0..Batch
      BY <1>a
    <2> HIDE DEF n
    <2>2. /\ q2' = q2 - n
          /\ hand' = [hand EXCEPT ![w] = IF n > 0 THEN n ELSE 0]
          /\ at' = [at EXCEPT ![w] = IF n > 0 THEN "busy"
                                     ELSE IF running THEN "asleep" ELSE "left"]
      BY <1>7 DEF WorkerPop, n
    <2> QED
      BY <1>7, <2>1, <2>2 DEF WorkerPop
  <1>8. ASSUME NEW w \in Workers, WorkerSend(w) PROVE Counts'
    <2>1. tokens' \in 0..Burst
      BY <1>8, <1>a DEF WorkerSend
    <2>2. at[w] = "busy"
      BY <1>8, Zenon DEF WorkerSend
    <2>3. hand[w] \in 1..Batch
      BY <1>b, <2>2
    <2>4. hand[w] - 1 \in 0..Batch
      BY <2>3
    <2>5. /\ at' = [at EXCEPT ![w] = IF hand[w] = 1 THEN "pop" ELSE "busy"]
          /\ hand' = [hand EXCEPT ![w] = hand[w] - 1]
          /\ UNCHANGED <<q1, q2, supply>>
      BY <1>8 DEF WorkerSend
    <2> QED
      BY <2>1, <2>3, <2>4, <2>5
  <1>9. CASE TickerLoop \/ MonitorLeaves \/ Snapshot
    BY <1>9 DEF TickerLoop, MonitorLeaves, Snapshot
  <1>10. CASE Tick
    BY <1>10, <1>a DEF Tick
  <1>11. ASSUME NEW t \in Threads, SpuriousWakeup(t) PROVE Counts'
    BY <1>11 DEF SpuriousWakeup
  <1> QED
    BY <1>1, <1>2, <1>3, <1>4, <1>5, <1>6, <1>7, <1>8, <1>9, <1>10, <1>11
    DEF CleanerThread, Worker, Ticker

\* main moves threads, and no frame or token.
LEMMA MainKeepsCounts ==
  ASSUME Counts, Main
  PROVE  Counts'
  <1>1. UNCHANGED <<flowvars, tokens>>
    BY DEF Main, UdpStart, TcpStart, CleanerStart, SimStart, TickerStart,
           WorkersStart, MonitorStart, Serve, UdpStop, Join, WakeAll, BucketStop,
           Destroy, Report, Return, StartOptional, DispatcherFails, Create, flowvars, outvars
  <1>2. ASSUME NEW step, NEW set, NEW place \in {"loop", "pop"},
               Create(step, set, place)
        PROVE  /\ at' \in [Threads -> {"none", "loop", "pop", "asleep", "busy", "left"}]
               /\ \A t \in Threads : at'[t] = "busy" => at[t] = "busy"
    BY <1>2 DEF Create, Counts
  <1>3. /\ at' \in [Threads -> {"none", "loop", "pop", "asleep", "busy", "left"}]
        /\ \A t \in Threads : at'[t] = "busy" => at[t] = "busy"
    <2>1. CASE UdpStart \/ TcpStart \/ SimStart \/ MonitorStart \/ TickerStart
      BY <1>2, <2>1 DEF UdpStart, TcpStart, SimStart, MonitorStart, TickerStart,
                        StartOptional, DispatcherFails
    <2>2. CASE CleanerStart \/ WorkersStart
      BY <1>2, <2>2 DEF CleanerStart, WorkersStart, DispatcherFails
    <2>3. CASE Serve \/ UdpStop \/ Join \/ BucketStop \/ Destroy \/ Report \/ Return
      BY <2>3 DEF Serve, UdpStop, Join, BucketStop, Destroy, Report, Return, Counts
    <2>4. CASE WakeAll
      BY <2>4 DEF WakeAll, Woken, Counts
    <2> QED
      BY <2>1, <2>2, <2>3, <2>4 DEF Main
  <1> QED
    BY <1>1, <1>3 DEF Counts, BusyHaveFrames, Threads, flowvars

\* A flag is only ever set to TRUE or FALSE.
LEMMA NextFlags ==
  ASSUME Flags, [CollectorNext]_cvars
  PROVE  Flags'
  <1>1. running' \in BOOLEAN
    <2>1. running' = running \/ running' = FALSE
      BY DEF CollectorNext, Main, UdpStart, TcpStart, CleanerStart, SimStart,
             TickerStart, WorkersStart, MonitorStart, Serve, UdpStop, Join, WakeAll,
             BucketStop, Destroy, Report, Return, DispatcherFails, OnExitSignal, ProducerLoop,
             ProducerFrame, CleanerThread, CleanerLoop, CleanerPop, CleanerFrame,
             Worker, WorkerPop, WorkerSend, Ticker, TickerLoop, Tick,
             MonitorLeaves, Snapshot, SpuriousWakeup, cvars
    <2> QED
      BY <2>1 DEF Flags
  <1>2. epoll' \in BOOLEAN
    <2>1. epoll' = epoll \/ epoll' = FALSE \/ epoll' = (at'["udp"] = "loop")
      BY DEF CollectorNext, Main, UdpStart, TcpStart, CleanerStart, SimStart,
             TickerStart, WorkersStart, MonitorStart, Serve, UdpStop, Join, WakeAll,
             BucketStop, Destroy, Report, Return, OnExitSignal, ProducerLoop,
             ProducerFrame, CleanerThread, CleanerLoop, CleanerPop, CleanerFrame,
             Worker, WorkerPop, WorkerSend, Ticker, TickerLoop, Tick,
             MonitorLeaves, Snapshot, SpuriousWakeup, cvars
    <2> QED
      BY <2>1 DEF Flags
  <1>3. /\ bucketDown' = bucketDown \/ bucketDown' = TRUE
        /\ tickStop' = tickStop \/ tickStop' = TRUE
        /\ destroyed' = destroyed \/ destroyed' = TRUE
    BY DEF CollectorNext, Main, UdpStart, TcpStart, CleanerStart, SimStart,
           TickerStart, WorkersStart, MonitorStart, Serve, UdpStop, Join, WakeAll,
           BucketStop, Destroy, Report, Return, StartOptional, DispatcherFails, Create,
           OnExitSignal, ProducerLoop, ProducerFrame, CleanerThread, CleanerLoop,
           CleanerPop, CleanerFrame, Worker, WorkerPop, WorkerSend, Ticker,
           TickerLoop, Tick, MonitorLeaves, Snapshot, SpuriousWakeup, cvars, outvars
  <1> QED
    BY <1>1, <1>2, <1>3 DEF Flags

\* Only threads, main and the statistics use a queue.
LEMMA NextLateTyped ==
  ASSUME LateTyped, [CollectorNext]_cvars
  PROVE  LateTyped'
  <1>1. late' = late \/ \E t \in Threads \cup {"main", "stats"} : late' = late \cup {t}
    BY DEF CollectorNext, Main, UdpStart, TcpStart, CleanerStart, SimStart,
           TickerStart, WorkersStart, MonitorStart, Serve, UdpStop, Join, WakeAll,
           BucketStop, Destroy, Report, Return, StartOptional, DispatcherFails, Create,
           OnExitSignal, ProducerLoop, ProducerFrame, CleanerThread, CleanerLoop,
           CleanerPop, CleanerFrame, Worker, WorkerPop, WorkerSend, Ticker,
           TickerLoop, Tick, MonitorLeaves, Snapshot, SpuriousWakeup, cvars, Threads
  <1> QED
    BY <1>1 DEF LateTyped

LEMMA NextTypes == TypeIInv /\ [CollectorNext]_cvars => TypeIInv'
  <1> SUFFICES ASSUME TypeIInv, [CollectorNext]_cvars PROVE TypeIInv'
    OBVIOUS
  <1>1. Counts'
    <2>1. CASE UNCHANGED cvars
      BY <2>1 DEF cvars, flowvars, outvars, TypeIInv, Counts, BusyHaveFrames
    <2> QED
      BY <2>1, ThreadsKeepCounts, MainKeepsCounts DEF TypeIInv, CollectorNext
  <1> QED
    BY <1>1, NextFlags, NextLateTyped DEF TypeIInv

\* Queues never exceed their capacity, a batch never its size, and tokens never
\* the burst, whatever the rates; no consumer is busy without a frame.
THEOREM CollectorTyping == CollectorSpec => []CollectorTypeOK
  <1>1. TypeIInv => CollectorTypeOK
    BY DEF TypeIInv, Counts, Flags, LateTyped, CollectorTypeOK
  <1> QED
    BY <1>1, InitTypes, NextTypes, PTL DEF CollectorSpec

=============================================================================
