----------------------------- MODULE FrameQueue -----------------------------
(***************************************************************************)
(* What a frame queue promises its callers, with no slots, indices or      *)
(* condition variables: a first-in first-out sequence of at most Capacity  *)
(* frames in which every frame appears once, leaves once, and is lost only *)
(* when the queue is full - a normal frame that arrives then, or the       *)
(* oldest normal frame when an alarm takes its place.  An alarm is lost    *)
(* only if it meets Capacity other alarms.                                 *)
(***************************************************************************)
EXTENDS Integers, Sequences, SequencesExt

CONSTANTS Capacity, BatchMax, Frames, Alarms

VARIABLES
  queue,   \* the frames held, oldest first
  popped,  \* the frames delivered, in order
  lost     \* the frames refused or displaced

qvars == <<queue, popped, lost>>

Fresh(f) == f \in Frames \ (Range(queue) \cup Range(popped) \cup lost)

Full == Len(queue) = Capacity

Normals == {i \in 1..Len(queue) : queue[i] \notin Alarms}

Init == queue = << >> /\ popped = << >> /\ lost = {}

Accept(f) ==
  /\ Fresh(f)
  /\ Len(queue) < Capacity
  /\ queue' = Append(queue, f)
  /\ UNCHANGED <<popped, lost>>

Displace(f) ==
  /\ Fresh(f)
  /\ Full
  /\ f \in Alarms
  /\ \E i \in Normals :
        /\ \A j \in Normals : i <= j
        /\ queue' = Append(RemoveAt(queue, i), f)
        /\ lost' = lost \cup {queue[i]}
  /\ UNCHANGED popped

Refuse(f) ==
  /\ Fresh(f)
  /\ Full
  /\ f \in Alarms => Normals = {}
  /\ lost' = lost \cup {f}
  /\ UNCHANGED <<queue, popped>>

Deliver ==
  \E n \in 1..Len(queue) :
     /\ n <= BatchMax
     /\ n < BatchMax => n = Len(queue)
     /\ popped' = popped \o SubSeq(queue, 1, n)
     /\ queue' = SubSeq(queue, n + 1, Len(queue))
     /\ UNCHANGED lost

Next ==
  \/ \E f \in Frames : Accept(f) \/ Displace(f) \/ Refuse(f)
  \/ Deliver

Spec == Init /\ [][Next]_qvars

=============================================================================
