-------------------------- MODULE RingQueueProofs --------------------------
(***************************************************************************)
(* Theorems about RingQueue for every capacity, every set of frames and    *)
(* any number of consumers, in three parts:                                *)
(*   1. lemmas on the pure operators of the ring: what the masked indices  *)
(*      are, and what Write, RemoveNormal and Take do to the sequence of   *)
(*      frames a ring holds, so that the rest can argue about sequences,   *)
(*      never about slots (ThreadPoolProofs uses them as well);            *)
(*   2. the inductive invariant, what it implies, and the refinement of    *)
(*      FrameQueue;                                                        *)
(*   3. the count of the frames: every frame given to the queue is in one  *)
(*      place.  Nothing bounds the set of frames: what has been offered so *)
(*      far is finite, and that is part of the invariant.                  *)
(***************************************************************************)
EXTENDS RingQueue, SequenceTheorems, FiniteSetTheorems, TLAPS

\* All that the proofs need of CapacityAssumption.
LEMMA CapacityPositive == Capacity \in Nat /\ Capacity > 0
  BY CapacityAssumption

USE CapacityPositive, BatchAssumption, FrameAssumption

-----------------------------------------------------------------------------
(* Index arithmetic.                                                        *)

\* A masked index is a slot.
LEMMA SlotType == \A k \in Int : Slot(k) \in Slots
  BY DEF Slot, Slots

\* Going forward at most once around the ring.
LEMMA SlotForward ==
  \A s \in Slots, k \in 0..Capacity :
     Slot(s + k) = IF s + k < Capacity THEN s + k ELSE s + k - Capacity
  BY DEF Slot, Slots

\* Going back one slot, as drop_oldest_normal does with head.
LEMMA SlotBack ==
  \A s \in Slots : (s - 1) % Capacity = IF s = 0 THEN Capacity - 1 ELSE s - 1
  BY DEF Slots

\* The distance from one slot to another.
LEMMA SlotDistance ==
  \A s, t \in Slots :
     (s - t) % Capacity = IF s >= t THEN s - t ELSE s - t + Capacity
  BY DEF Slots

-----------------------------------------------------------------------------
(* The ring operators.                                                      *)

\* What is left of a sequence without its i-th element.
LEMMA RemoveAtSeq ==
  ASSUME NEW S, NEW s \in Seq(S), NEW i \in 1..Len(s)
  PROVE  /\ RemoveAt(s, i) \in Seq(S)
         /\ Len(RemoveAt(s, i)) = Len(s) - 1
         /\ \A k \in 1..(Len(s) - 1) :
               RemoveAt(s, i)[k] = IF k < i THEN s[k] ELSE s[k + 1]
  <1> DEFINE u == SubSeq(s, 1, i - 1)
             v == SubSeq(s, i + 1, Len(s))
  <1>1. Len(s) \in Nat
    OBVIOUS
  <1>2. u \in Seq(S) /\ Len(u) = i - 1 /\ \A k \in 1..(i - 1) : u[k] = s[k]
    BY <1>1
  <1>3. /\ v \in Seq(S) /\ Len(v) = Len(s) - i
        /\ \A k \in 1..(Len(s) - i) : v[k] = s[i + k]
    BY <1>1
  <1> HIDE DEF u, v
  <1>4. /\ u \o v \in Seq(S)
        /\ Len(u \o v) = Len(u) + Len(v)
        /\ \A k \in 1..(Len(u) + Len(v)) :
              (u \o v)[k] = IF k <= Len(u) THEN u[k] ELSE v[k - Len(u)]
    BY <1>2, <1>3, ConcatProperties
  <1> DEFINE x == u \o v
  <1>5. \A k \in 1..(Len(u) + Len(v)) :
           x[k] = IF k <= Len(u) THEN u[k] ELSE v[k - Len(u)]
    BY <1>4
  <1> HIDE DEF x
  <1>6. \A k \in 1..(Len(s) - 1) :
           x[k] = IF k < i THEN s[k] ELSE s[k + 1]
    <2> TAKE k \in 1..(Len(s) - 1)
    <2>1. CASE k < i
      <3>1. k \in 1..(i - 1) /\ k \in 1..(Len(u) + Len(v)) /\ k <= Len(u)
        BY <2>1, <1>1, <1>2, <1>3
      <3>2. x[k] = u[k]
        BY <3>1, <1>5
      <3>3. u[k] = s[k]
        BY <3>1, <1>2
      <3> QED
        BY <2>1, <3>2, <3>3
    <2>2. CASE i <= k
      <3> DEFINE m == k - (i - 1)
      <3>1. m \in 1..(Len(s) - i) /\ i + m = k + 1
        BY <2>2, <1>1
      <3>2. x[k] = v[m]
        BY <2>2, <1>1, <1>2, <1>3, <1>5
      <3> HIDE DEF m
      <3>3. v[m] = s[i + m]
        BY <3>1, <1>3
      <3>4. ~(k < i)
        BY <2>2, <1>1
      <3>5. s[i + m] = s[k + 1]
        BY <3>1
      <3>6. x[k] = s[i + m]
        BY <3>2, <3>3
      <3>7. x[k] = s[k + 1]
        BY <3>5, <3>6
      <3> QED
        BY <3>4, <3>7, <1>1
    <2> QED
      BY <2>1, <2>2, <1>1
  <1>7. RemoveAt(s, i) = x
    BY DEF RemoveAt, u, v, x
  <1>8. Len(u) + Len(v) = Len(s) - 1
    BY <1>1, <1>2, <1>3
  <1> QED
    BY <1>4, <1>6, <1>7, <1>8 DEF x

\* The contents of a well-formed ring are a sequence of frames.
LEMMA ContentsType ==
  ASSUME NEW r \in Ring, WellFormed(r)
  PROVE  /\ Contents(r) \in Seq(Frames)
         /\ Len(Contents(r)) = r.count
         /\ \A i \in 1..r.count :
               Contents(r)[i] = r.buf[Slot(r.tail + (i - 1))]
  <1>1. r.count \in Nat
    BY DEF Ring
  <1>2. \A i \in 1..r.count : r.buf[Slot(r.tail + (i - 1))] \in Frames
    <2> TAKE i \in 1..r.count
    <2>1. i - 1 \in 0..(r.count - 1)
      BY <1>1 DEF Ring, Slots
    <2> QED
      BY <2>1 DEF WellFormed
  <1> QED
    BY <1>1, <1>2 DEF Contents

\* Storing into a ring with a free slot appends to its contents.
LEMMA WriteLemma ==
  ASSUME NEW r \in Ring, WellFormed(r), r.count < Capacity, NEW f \in Frames
  PROVE  /\ Write(r, f) \in Ring
         /\ WellFormed(Write(r, f))
         /\ Contents(Write(r, f)) = Append(Contents(r), f)
  <1> DEFINE w == Write(r, f)
  <1>1. /\ r.count \in Nat /\ r.tail \in Slots /\ r.head \in Slots
        /\ r.dropped \in Nat /\ r.buf \in [Slots -> Frames \cup {NoFrame}]
    BY DEF Ring
  <1>2. /\ w.buf = [r.buf EXCEPT ![r.head] = f]
        /\ w.head = Slot(r.head + 1)
        /\ w.tail = r.tail
        /\ w.count = r.count + 1
        /\ w.dropped = r.dropped
    BY DEF Write
  <1>3. w \in Ring
    <2>1. Slot(r.head + 1) \in Slots
      <3>1. r.head + 1 \in Int
        BY <1>1 DEF Slots
      <3> QED
        BY <3>1, SlotType
    <2>2. [r.buf EXCEPT ![r.head] = f] \in [Slots -> Frames \cup {NoFrame}]
      BY <1>1
    <2> QED
      BY <2>1, <2>2, <1>1 DEF Write, Ring
  <1>4. w.head = Slot(w.tail + w.count)
    <2>1. Slot(r.head + 1)
            = IF r.head + 1 < Capacity THEN r.head + 1 ELSE r.head + 1 - Capacity
      BY <1>1, SlotForward
    <2>2. r.head = IF r.tail + r.count < Capacity
                   THEN r.tail + r.count ELSE r.tail + r.count - Capacity
      BY <1>1, SlotForward DEF WellFormed
    <2>3. Slot(r.tail + (r.count + 1))
            = IF r.tail + (r.count + 1) < Capacity
              THEN r.tail + (r.count + 1) ELSE r.tail + (r.count + 1) - Capacity
      BY <1>1, SlotForward
    <2> QED
      BY <2>1, <2>2, <2>3, <1>1, <1>2 DEF Slots
  <1>5. \A i \in 0..(r.count - 1) :
           /\ Slot(r.tail + i) \in Slots
           /\ Slot(r.tail + i) # r.head
    <2> TAKE i \in 0..(r.count - 1)
    <2>1. r.tail + i \in Int /\ i \in 0..Capacity /\ r.count \in 0..Capacity
      BY <1>1 DEF Slots
    <2>2. Slot(r.tail + i)
            = IF r.tail + i < Capacity THEN r.tail + i ELSE r.tail + i - Capacity
      BY <1>1, <2>1, SlotForward
    <2>3. r.head = IF r.tail + r.count < Capacity
                   THEN r.tail + r.count ELSE r.tail + r.count - Capacity
      BY <1>1, <2>1, SlotForward DEF WellFormed
    <2>4. Slot(r.tail + i) # r.head
      BY <2>1, <2>2, <2>3, <1>1 DEF Slots
    <2> QED
      BY <2>1, <2>4, SlotType
  <1>6. \A i \in 0..(r.count - 1) :
           w.buf[Slot(w.tail + i)] = r.buf[Slot(r.tail + i)]
    BY <1>1, <1>2, <1>5
  <1>7. w.buf[Slot(w.tail + r.count)] = f
    BY <1>1, <1>2 DEF WellFormed
  <1>8. WellFormed(w)
    <2>1. \A i \in 0..(w.count - 1) : w.buf[Slot(w.tail + i)] \in Frames
      <3> TAKE i \in 0..(w.count - 1)
      <3>1. i = r.count \/ i \in 0..(r.count - 1)
        BY <1>1, <1>2
      <3> QED
        BY <3>1, <1>6, <1>7 DEF WellFormed
    <2> QED
      BY <2>1, <1>1, <1>2, <1>4 DEF WellFormed
  <1>9. Contents(w) = Append(Contents(r), f)
    <2>1. /\ Contents(w) \in Seq(Frames)
          /\ Len(Contents(w)) = r.count + 1
          /\ \A i \in 1..(r.count + 1) :
                Contents(w)[i] = w.buf[Slot(w.tail + (i - 1))]
      BY <1>2, <1>3, <1>8, ContentsType
    <2>2. /\ Contents(r) \in Seq(Frames)
          /\ Len(Contents(r)) = r.count
          /\ \A i \in 1..r.count :
                Contents(r)[i] = r.buf[Slot(r.tail + (i - 1))]
      BY ContentsType
    <2>3. \A i \in 1..r.count : Contents(w)[i] = Contents(r)[i]
      <3> TAKE i \in 1..r.count
      <3>1. i - 1 \in 0..(r.count - 1)
        BY <1>1 DEF Slots
      <3> QED
        <4>1. i \in 1..(r.count + 1)
          BY <1>1
        <4>2. Contents(w)[i] = w.buf[Slot(w.tail + (i - 1))]
          BY <4>1, <2>1
        <4>3. Contents(r)[i] = r.buf[Slot(r.tail + (i - 1))]
          BY <2>2
        <4> QED
          BY <3>1, <4>2, <4>3, <1>6
    <2>4. Contents(w)[r.count + 1] = f
      <3>1. (r.count + 1) - 1 = r.count /\ r.count + 1 \in 1..(r.count + 1)
        BY <1>1
      <3>2. Contents(w)[r.count + 1] = w.buf[Slot(w.tail + ((r.count + 1) - 1))]
        BY <2>1, <3>1
      <3> QED
        BY <3>1, <3>2, <1>7
    <2> QED
      BY <2>1, <2>2, <2>3, <2>4, <1>1
  <1> QED
    BY <1>3, <1>8, <1>9

\* What the slots of a ring hold after the frame at distance i was removed.
LEMMA RemovedSlots ==
  ASSUME NEW r \in Ring, r.count = Capacity, NEW i \in 0..(Capacity - 1),
         NEW d \in 0..(Capacity - 2)
  PROVE  RemoveNormal(r, i).buf[Slot(r.tail + d)]
           = IF d < i THEN r.buf[Slot(r.tail + d)] ELSE r.buf[Slot(r.tail + (d + 1))]
  <1> DEFINE s == Slot(r.tail + d)
  <1>1. r.tail \in Slots /\ r.tail \in Int
    BY DEF Ring, Slots
  <1>2. d \in 0..Capacity /\ d + 1 \in 0..Capacity /\ r.tail + d \in Int
    BY <1>1
  <1>3. s = IF r.tail + d < Capacity THEN r.tail + d ELSE r.tail + d - Capacity
    BY <1>1, <1>2, SlotForward
  <1>4. s \in Slots
    BY <1>2, SlotType
  <1>5. (s - r.tail) % Capacity = d
    <2>1. (s - r.tail) % Capacity
            = IF s >= r.tail THEN s - r.tail ELSE s - r.tail + Capacity
      BY <1>1, <1>4, SlotDistance
    <2> QED
      BY <2>1, <1>1, <1>3 DEF Slots
  <1>6. Slot(s + 1) = Slot(r.tail + (d + 1))
    <2>1. Slot(s + 1) = IF s + 1 < Capacity THEN s + 1 ELSE s + 1 - Capacity
      BY <1>4, SlotForward
    <2>2. Slot(r.tail + (d + 1))
            = IF r.tail + (d + 1) < Capacity
              THEN r.tail + (d + 1) ELSE r.tail + (d + 1) - Capacity
      BY <1>1, <1>2, SlotForward
    <2> QED
      BY <2>1, <2>2, <1>1, <1>3 DEF Slots
  <1>7. RemoveNormal(r, i).buf[s]
          = IF i <= (s - r.tail) % Capacity /\ ((s - r.tail) % Capacity) + 1 < r.count
            THEN r.buf[Slot(s + 1)] ELSE r.buf[s]
    BY <1>4 DEF RemoveNormal
  <1>8. d + 1 < r.count
    OBVIOUS
  <1>9. CASE d < i
    BY <1>5, <1>7, <1>9
  <1>10. CASE i <= d
    BY <1>5, <1>6, <1>7, <1>8, <1>10
  <1> QED
    BY <1>9, <1>10

\* Removing a frame from a full ring frees one slot and keeps the order of the
\* others.
LEMMA RemoveLemma ==
  ASSUME NEW r \in Ring, WellFormed(r), r.count = Capacity,
         NEW i \in 0..(Capacity - 1)
  PROVE  /\ RemoveNormal(r, i) \in Ring
         /\ WellFormed(RemoveNormal(r, i))
         /\ RemoveNormal(r, i).count = Capacity - 1
         /\ Contents(RemoveNormal(r, i)) = RemoveAt(Contents(r), i + 1)
  <1> DEFINE w == RemoveNormal(r, i)
  <1>1. /\ r.count \in Nat /\ r.tail \in Slots /\ r.head \in Slots
        /\ r.dropped \in Nat /\ r.buf \in [Slots -> Frames \cup {NoFrame}]
    BY DEF Ring
  <1>2. /\ w.head = (r.head - 1) % Capacity
        /\ w.tail = r.tail
        /\ w.count = r.count - 1
        /\ w.dropped = r.dropped + 1
    BY DEF RemoveNormal
  <1>3. w \in Ring
    <2>1. (r.head - 1) % Capacity \in Slots
      <3> DEFINE k == IF r.head = 0 THEN Capacity - 1 ELSE r.head - 1
      <3>1. (r.head - 1) % Capacity = k
        BY <1>1, SlotBack
      <3>2. k \in Slots
        BY <1>1 DEF Slots
      <3> HIDE DEF k
      <3> QED
        BY <3>1, <3>2
    <2>2. w.buf \in [Slots -> Frames \cup {NoFrame}]
      <3>1. \A s \in Slots : Slot(s + 1) \in Slots
        <4> TAKE s \in Slots
        <4>1. s + 1 \in Int
          BY DEF Slots
        <4> QED
          BY <4>1, SlotType
      <3> QED
        BY <3>1, <1>1 DEF RemoveNormal
    <2>3. w = [buf |-> w.buf, head |-> w.head, tail |-> w.tail,
               count |-> w.count, dropped |-> w.dropped]
      BY DEF RemoveNormal
    <2> QED
      BY <2>1, <2>2, <2>3, <1>1, <1>2 DEF Ring
  <1>4. \A d \in 0..(Capacity - 2) :
           w.buf[Slot(r.tail + d)]
             = IF d < i THEN r.buf[Slot(r.tail + d)] ELSE r.buf[Slot(r.tail + (d + 1))]
    BY RemovedSlots
  <1>5. WellFormed(w)
    <2>1. w.head = Slot(w.tail + w.count)
      <3>1. r.head = Slot(r.tail + Capacity) /\ Capacity \in 0..Capacity
        BY DEF WellFormed
      <3>2. Slot(r.tail + Capacity)
              = IF r.tail + Capacity < Capacity
                THEN r.tail + Capacity ELSE r.tail + Capacity - Capacity
        BY <1>1, <3>1, SlotForward
      <3>3. r.head = r.tail
        BY <3>1, <3>2, <1>1 DEF Slots
      <3>4. Slot(r.tail + (Capacity - 1))
              = IF r.tail + (Capacity - 1) < Capacity
                THEN r.tail + (Capacity - 1) ELSE r.tail + (Capacity - 1) - Capacity
        BY <1>1, SlotForward
      <3>5. (r.head - 1) % Capacity = IF r.head = 0 THEN Capacity - 1 ELSE r.head - 1
        BY <1>1, SlotBack
      <3> QED
        BY <3>3, <3>4, <3>5, <1>1, <1>2 DEF Slots
    <2>2. \A d \in 0..(w.count - 1) : w.buf[Slot(w.tail + d)] \in Frames
      <3> TAKE d \in 0..(w.count - 1)
      <3>1. d \in 0..(Capacity - 2) /\ d \in 0..(r.count - 1) /\ d + 1 \in 0..(r.count - 1)
        BY <1>1, <1>2
      <3> QED
        BY <3>1, <1>2, <1>4 DEF WellFormed
    <2> QED
      BY <2>1, <2>2, <1>1, <1>2 DEF WellFormed
  <1>6. Contents(w) = RemoveAt(Contents(r), i + 1)
    <2>1. /\ Contents(w) \in Seq(Frames)
          /\ Len(Contents(w)) = Capacity - 1
          /\ \A k \in 1..(Capacity - 1) :
                Contents(w)[k] = w.buf[Slot(r.tail + (k - 1))]
      BY <1>2, <1>3, <1>5, ContentsType
    <2>2. /\ Contents(r) \in Seq(Frames)
          /\ Len(Contents(r)) = Capacity
          /\ \A k \in 1..Capacity :
                Contents(r)[k] = r.buf[Slot(r.tail + (k - 1))]
      BY ContentsType
    <2>3. \A k \in 1..(Capacity - 1) :
             Contents(w)[k] = IF k <= i THEN Contents(r)[k] ELSE Contents(r)[k + 1]
      <3> TAKE k \in 1..(Capacity - 1)
      <3>1. /\ k - 1 \in 0..(Capacity - 2) /\ k \in 1..Capacity
            /\ k + 1 \in 1..Capacity /\ (k + 1) - 1 = (k - 1) + 1
            /\ k - 1 < i <=> k <= i
        OBVIOUS
      <3>2. Contents(w)[k] = IF k - 1 < i THEN r.buf[Slot(r.tail + (k - 1))]
                             ELSE r.buf[Slot(r.tail + ((k - 1) + 1))]
        BY <3>1, <2>1, <1>4
      <3>3. /\ Contents(r)[k] = r.buf[Slot(r.tail + (k - 1))]
            /\ Contents(r)[k + 1] = r.buf[Slot(r.tail + ((k + 1) - 1))]
        BY <3>1, <2>2
      <3> QED
        BY <3>1, <3>2, <3>3
    <2> HIDE DEF w
    <2>4. /\ RemoveAt(Contents(r), i + 1) \in Seq(Frames)
          /\ Len(RemoveAt(Contents(r), i + 1)) = Capacity - 1
          /\ \A k \in 1..(Capacity - 1) :
                RemoveAt(Contents(r), i + 1)[k]
                  = IF k < i + 1 THEN Contents(r)[k] ELSE Contents(r)[k + 1]
      <3>1. i + 1 \in 1..Len(Contents(r))
        BY <2>2
      <3>2. (i + 1) - 1 = i /\ Len(Contents(r)) - 1 = Capacity - 1
        BY <2>2
      <3> HIDE DEF w
      <3>3. /\ RemoveAt(Contents(r), i + 1) \in Seq(Frames)
            /\ Len(RemoveAt(Contents(r), i + 1)) = Len(Contents(r)) - 1
            /\ \A k \in 1..(Len(Contents(r)) - 1) :
                  RemoveAt(Contents(r), i + 1)[k]
                    = IF k < i + 1 THEN Contents(r)[k] ELSE Contents(r)[k + 1]
        BY <3>1, <2>2, RemoveAtSeq
      <3> QED
        BY <3>2, <3>3
    <2>5. \A k \in 1..(Capacity - 1) :
             Contents(w)[k] = RemoveAt(Contents(r), i + 1)[k]
      <3> TAKE k \in 1..(Capacity - 1)
      <3>1. k <= i <=> k < i + 1
        OBVIOUS
      <3> QED
        BY <3>1, <2>3, <2>4
    <2> QED
      BY <2>1, <2>4, <2>5, SeqEqual
  <1> QED
    BY <1>2, <1>3, <1>5, <1>6

\* Taking the oldest n frames leaves the others, in order.
LEMMA TakeLemma ==
  ASSUME NEW r \in Ring, WellFormed(r), NEW n \in 0..r.count
  PROVE  /\ Take(r, n) \in Ring
         /\ WellFormed(Take(r, n))
         /\ Contents(Take(r, n)) = SubSeq(Contents(r), n + 1, r.count)
  <1> DEFINE w == Take(r, n)
  <1>1. /\ r.count \in Nat /\ r.tail \in Slots /\ r.head \in Slots
        /\ r.dropped \in Nat /\ r.buf \in [Slots -> Frames \cup {NoFrame}]
        /\ n \in Nat /\ n \in 0..Capacity /\ r.count \in 0..Capacity
    BY DEF Ring, WellFormed
  <1>2. /\ w.buf = r.buf
        /\ w.head = r.head
        /\ w.tail = Slot(r.tail + n)
        /\ w.count = r.count - n
        /\ w.dropped = r.dropped
    BY DEF Take, Ring
  <1>3. w \in Ring
    <2>1. Slot(r.tail + n) \in Slots
      <3>1. r.tail + n \in Int
        BY <1>1 DEF Slots
      <3> QED
        BY <3>1, SlotType
    <2>2. r.count - n \in Nat
      BY <1>1
    <2> QED
      BY <2>1, <2>2 DEF Take, Ring
  <1>4. \A k \in 0..(r.count - n) : Slot(w.tail + k) = Slot(r.tail + (k + n))
    <2> TAKE k \in 0..(r.count - n)
    <2>1. k \in 0..Capacity /\ k + n \in 0..Capacity
      BY <1>1
    <2>2. w.tail = IF r.tail + n < Capacity THEN r.tail + n ELSE r.tail + n - Capacity
      BY <1>1, <1>2, SlotForward
    <2>3. w.tail \in Slots
      BY <1>3 DEF Ring
    <2>4. Slot(w.tail + k)
            = IF w.tail + k < Capacity THEN w.tail + k ELSE w.tail + k - Capacity
      BY <2>1, <2>3, SlotForward
    <2>5. Slot(r.tail + (k + n))
            = IF r.tail + (k + n) < Capacity
              THEN r.tail + (k + n) ELSE r.tail + (k + n) - Capacity
      BY <1>1, <2>1, SlotForward
    <2> HIDE DEF w
    <2> QED
      BY <2>1, <2>2, <2>3, <2>4, <2>5, <1>1 DEF Slots
  <1>5. WellFormed(w)
    <2>1. w.head = Slot(w.tail + w.count)
      <3>1. r.count - n \in 0..(r.count - n) /\ (r.count - n) + n = r.count
        BY <1>1
      <3> QED
        BY <3>1, <1>2, <1>4 DEF WellFormed
    <2>2. \A k \in 0..(w.count - 1) : w.buf[Slot(w.tail + k)] \in Frames
      <3> TAKE k \in 0..(w.count - 1)
      <3>1. k \in 0..(r.count - n) /\ k + n \in 0..(r.count - 1)
        BY <1>1, <1>2
      <3> QED
        BY <3>1, <1>2, <1>4 DEF WellFormed
    <2> QED
      BY <2>1, <2>2, <1>1, <1>2 DEF WellFormed
  <1>6. Contents(w) = SubSeq(Contents(r), n + 1, r.count)
    <2>1. /\ Contents(w) \in Seq(Frames)
          /\ Len(Contents(w)) = r.count - n
          /\ \A k \in 1..(r.count - n) :
                Contents(w)[k] = r.buf[Slot(w.tail + (k - 1))]
      BY <1>2, <1>3, <1>5, ContentsType
    <2>2. /\ Contents(r) \in Seq(Frames)
          /\ Len(Contents(r)) = r.count
          /\ \A k \in 1..r.count :
                Contents(r)[k] = r.buf[Slot(r.tail + (k - 1))]
      BY ContentsType
    <2>3. \A k \in 1..(r.count - n) : Contents(w)[k] = Contents(r)[k + n]
      <3> TAKE k \in 1..(r.count - n)
      <3>1. /\ k - 1 \in 0..(r.count - n) /\ k + n \in 1..r.count
            /\ (k - 1) + n = (k + n) - 1
        BY <1>1
      <3>2. Contents(w)[k] = r.buf[Slot(w.tail + (k - 1))]
        BY <2>1
      <3>3. Contents(r)[k + n] = r.buf[Slot(r.tail + ((k + n) - 1))]
        BY <3>1, <2>2
      <3> QED
        BY <3>1, <3>2, <3>3, <1>4
    <2> HIDE DEF w
    <2> QED
      BY <2>1, <2>2, <2>3, <1>1
  <1> QED
    BY <1>3, <1>5, <1>6

-----------------------------------------------------------------------------
(* Ranges of the sequences that the ring operators build.                   *)

\* Appending adds one element to the range.
LEMMA RangeAppend ==
  ASSUME NEW S, NEW s \in Seq(S), NEW e
  PROVE  Range(Append(s, e)) = Range(s) \cup {e}
  <1>1. /\ Len(s) \in Nat /\ DOMAIN s = 1..Len(s)
        /\ DOMAIN Append(s, e) = 1..(Len(s) + 1)
        /\ \A k \in 1..Len(s) : Append(s, e)[k] = s[k]
        /\ Append(s, e)[Len(s) + 1] = e
    OBVIOUS
  <1>2. \A k \in 1..(Len(s) + 1) : k \in 1..Len(s) \/ k = Len(s) + 1
    BY <1>1
  <1>3. \A k \in 1..Len(s) : k \in 1..(Len(s) + 1)
    BY <1>1
  <1>4. Len(s) + 1 \in 1..(Len(s) + 1)
    BY <1>1
  <1> QED
    BY <1>1, <1>2, <1>3, <1>4, Zenon DEF Range

\* Removing an element takes out nothing else.
LEMMA RangeRemoveAt ==
  ASSUME NEW S, NEW s \in Seq(S), NEW i \in 1..Len(s)
  PROVE  Range(s) = Range(RemoveAt(s, i)) \cup {s[i]}
  <1> DEFINE x == RemoveAt(s, i)
  <1>0. Len(s) \in Nat
    OBVIOUS
  <1>1. /\ x \in Seq(S) /\ Len(x) = Len(s) - 1
        /\ \A k \in 1..(Len(s) - 1) : x[k] = IF k < i THEN s[k] ELSE s[k + 1]
    BY RemoveAtSeq, Zenon
  <1> HIDE DEF x
  <1>2. DOMAIN s = 1..Len(s) /\ DOMAIN x = 1..(Len(s) - 1)
    BY <1>0, <1>1
  <1>3. ASSUME NEW k \in 1..Len(s)
        PROVE  s[k] \in Range(x) \cup {s[i]}
    <2>1. CASE k < i
      <3>1. k \in 1..(Len(s) - 1) /\ x[k] = s[k]
        BY <1>0, <1>1, <2>1
      <3> QED
        BY <3>1, <1>2 DEF Range
    <2>2. CASE i < k
      <3> DEFINE m == k - 1
      <3>1. m \in 1..(Len(s) - 1) /\ ~(m < i) /\ m + 1 = k
        BY <1>0, <1>1, <2>2
      <3> HIDE DEF m
      <3>2. x[m] = s[k]
        BY <3>1, <1>0, <1>1
      <3> QED
        BY <3>1, <3>2, <1>2 DEF Range
    <2> QED
      BY <2>1, <2>2, <1>0
  <1>4. ASSUME NEW k \in 1..(Len(s) - 1)
        PROVE  x[k] \in Range(s)
    <2>1. k \in 1..Len(s) /\ k + 1 \in 1..Len(s)
      BY <1>0, <1>1
    <2> QED
      BY <2>1, <1>0, <1>1, <1>2 DEF Range
  <1> QED
    BY <1>2, <1>3, <1>4 DEF Range, x

\* Splitting a sequence loses nothing.
LEMMA RangeSplit ==
  ASSUME NEW S, NEW s \in Seq(S), NEW n \in 0..Len(s)
  PROVE  /\ SubSeq(s, 1, n) \in Seq(S)
         /\ SubSeq(s, n + 1, Len(s)) \in Seq(S)
         /\ Range(s) = Range(SubSeq(s, 1, n)) \cup Range(SubSeq(s, n + 1, Len(s)))
  <1> DEFINE u == SubSeq(s, 1, n)
             v == SubSeq(s, n + 1, Len(s))
  <1>1. Len(s) \in Nat /\ n \in Nat /\ DOMAIN s = 1..Len(s)
    OBVIOUS
  <1>2. u \in Seq(S) /\ DOMAIN u = 1..n /\ \A k \in 1..n : u[k] = s[k]
    BY <1>1
  <1>3. /\ v \in Seq(S) /\ DOMAIN v = 1..(Len(s) - n)
        /\ \A k \in 1..(Len(s) - n) : v[k] = s[n + k]
    BY <1>1
  <1> HIDE DEF u, v
  <1>4. ASSUME NEW k \in 1..Len(s)
        PROVE  s[k] \in Range(u) \cup Range(v)
    <2>1. CASE k <= n
      <3>1. k \in 1..n
        BY <1>1, <2>1
      <3> QED
        BY <3>1, <1>2 DEF Range
    <2>2. CASE n < k
      <3> DEFINE m == k - n
      <3>1. m \in 1..(Len(s) - n) /\ n + m = k
        BY <1>1, <2>2
      <3> HIDE DEF m
      <3> QED
        BY <3>1, <1>3 DEF Range
    <2> QED
      BY <2>1, <2>2, <1>1
  <1>5. ASSUME NEW k \in 1..n
        PROVE  u[k] \in Range(s)
    <2>1. k \in 1..Len(s)
      BY <1>1
    <2> QED
      BY <2>1, <1>1, <1>2 DEF Range
  <1>6. ASSUME NEW k \in 1..(Len(s) - n)
        PROVE  v[k] \in Range(s)
    <2> DEFINE m == n + k
    <2>1. m \in 1..Len(s) /\ v[k] = s[m]
      BY <1>1, <1>3
    <2> HIDE DEF m
    <2> QED
      BY <2>1, <1>1 DEF Range
  <1> QED
    BY <1>1, <1>2, <1>3, <1>4, <1>5, <1>6 DEF Range, u, v

-----------------------------------------------------------------------------
(* The inductive invariant, and the refinement of FrameQueue.                *)

\* The inductive invariant.  TypeOK alone is not inductive: what a consumer
\* receives is a frame only because the occupied slots hold frames.
RingIInv == TypeOK /\ RingInv /\ AllAccounted

\* The ring that ring_init sets up holds nothing.
LEMMA EmptyContents ==
  Contents(EmptyRing) = << >> /\ Range(<< >>) = {}
  <1>1. EmptyRing.count = 0
    BY DEF EmptyRing
  <1> QED
    BY <1>1 DEF Contents, Range

\* The inductive invariant holds initially.
LEMMA InitRing == Init => RingIInv
  <1> SUFFICES ASSUME Init PROVE RingIInv
    OBVIOUS
  <1>1. q \in Ring /\ WellFormed(q)
    <2>1. 0 \in Slots /\ Slot(0 + 0) = 0
      BY DEF Slots, Slot
    <2> QED
      BY <2>1 DEF Init, EmptyRing, Ring, WellFormed
  <1>2. Contents(q) = << >> /\ Range(popped) = {} /\ Range(Contents(q)) = {}
    BY EmptyContents DEF Init
  <1>3. TypeOK
    <2>1. << >> \in Seq(Frames)
      OBVIOUS
    <2> QED
      BY <1>1, <2>1, Zenon DEF Init, TypeOK
  <1>4. AllAccounted
    BY <1>2 DEF Init, AllAccounted
  <1> QED
    BY <1>1, <1>3, <1>4 DEF RingIInv, RingInv

-----------------------------------------------------------------------------
(* Every action keeps the invariant and is a step of the abstract queue.    *)

\* FrameQueue and RingQueue mean the same by Range.
LEMMA QueueRange == \A s : Queue!Range(s) = Range(s)
  BY DEF Queue!Range, Range

\* A frame is written to a free slot: the invariant is kept, and the abstract
\* queue accepts the frame.
LEMMA StoreStep ==
  ASSUME RingIInv, NEW f \in Frames, TryStore(f)
  PROVE  RingIInv' /\ Queue!Accept(f)
  <1> DEFINE c == Contents(q)
  <1>1. q \in Ring /\ WellFormed(q) /\ q.count < Capacity
    BY DEF RingIInv, TypeOK, RingInv, TryStore, WellFormed, Ring
  <1>2. q' \in Ring /\ WellFormed(q') /\ Contents(q') = Append(c, f)
    BY <1>1, WriteLemma DEF TryStore
  <1>3. c \in Seq(Frames) /\ Len(c) = q.count
    BY <1>1, ContentsType
  <1> HIDE DEF c
  <1>4. Range(Append(c, f)) = Range(c) \cup {f}
    BY <1>3, RangeAppend
  <1>5. TypeOK'
    BY <1>2 DEF RingIInv, TypeOK, TryStore, Offer, SignalNotEmpty, loops
  <1>6. AllAccounted'
    BY <1>2, <1>4 DEF c, RingIInv, AllAccounted, TryStore, Offer
  <1>7. Queue!Accept(f)
    BY <1>1, <1>2, <1>3, QueueRange
    DEF c, RingIInv, AllAccounted, TryStore, Offer, Queue!Accept, Queue!Fresh
  <1> QED
    BY <1>2, <1>5, <1>6, <1>7 DEF RingIInv, RingInv

\* The distances at which the ring finds a normal frame are the positions of
\* the normal frames of the abstract queue, less one.
LEMMA NormalPositions ==
  ASSUME RingIInv
  PROVE  /\ \A i \in NormalAt(q) : i + 1 \in Queue!Normals
         /\ \A j \in Queue!Normals : j - 1 \in NormalAt(q)
  <1> DEFINE c == Contents(q)
  <1>1. q \in Ring /\ WellFormed(q) /\ q.count \in Nat
    BY DEF RingIInv, TypeOK, RingInv, Ring
  <1>2. /\ Len(c) = q.count
        /\ \A k \in 1..q.count : c[k] = q.buf[Slot(q.tail + (k - 1))]
    BY <1>1, ContentsType
  <1>3. Queue!Normals = {k \in 1..q.count : c[k] \notin Alarms}
    BY <1>2 DEF Queue!Normals
  <1> HIDE DEF c
  <1>4. ASSUME NEW i \in NormalAt(q)
        PROVE  i + 1 \in Queue!Normals
    <2>1. i + 1 \in 1..q.count /\ (i + 1) - 1 = i
      BY <1>1 DEF NormalAt
    <2>2. c[i + 1] = q.buf[Slot(q.tail + i)]
      BY <1>2, <2>1
    <2> QED
      BY <1>3, <2>1, <2>2 DEF NormalAt
  <1>5. ASSUME NEW j \in Queue!Normals
        PROVE  j - 1 \in NormalAt(q)
    <2>1. j \in 1..q.count /\ c[j] \notin Alarms
      BY <1>3
    <2>2. j - 1 \in 0..(q.count - 1)
      BY <1>1, <2>1
    <2> QED
      BY <1>2, <2>1, <2>2 DEF NormalAt
  <1> QED
    BY <1>4, <1>5

\* An alarm takes the place of the oldest normal frame.
LEMMA DisplaceStep ==
  ASSUME RingIInv, NEW f \in Frames, TryDisplace(f)
  PROVE  RingIInv' /\ Queue!Displace(f)
  <1> DEFINE c == Contents(q)
  <1>1. /\ q \in Ring /\ WellFormed(q) /\ q.count = Capacity
        /\ lost \subseteq Frames
    BY DEF RingIInv, TypeOK, RingInv, TryDisplace
  <1>2. PICK i \in Slots :
           /\ IsOldestNormal(q, i)
           /\ q' = Write(RemoveNormal(q, i), f)
           /\ lost' = lost \cup {q.buf[Slot(q.tail + i)]}
    BY DEF TryDisplace
  <1> DEFINE r == RemoveNormal(q, i)
             d == RemoveAt(c, i + 1)
  <1>3. r \in Ring /\ WellFormed(r) /\ r.count = Capacity - 1 /\ Contents(r) = d
    <2>1. i \in 0..(Capacity - 1)
      BY DEF Slots
    <2> QED
      BY <1>1, <2>1, RemoveLemma
  <1>4. /\ c \in Seq(Frames) /\ Len(c) = Capacity
        /\ \A k \in 1..Capacity : c[k] = q.buf[Slot(q.tail + (k - 1))]
    BY <1>1, ContentsType
  <1>5. /\ i + 1 \in 1..Len(c)
        /\ c[i + 1] = q.buf[Slot(q.tail + i)]
    <2>1. i + 1 \in 1..Capacity /\ (i + 1) - 1 = i
      BY DEF Slots
    <2> QED
      BY <1>4, <2>1
  <1> HIDE DEF r
  <1>6. q' \in Ring /\ WellFormed(q') /\ Contents(q') = Append(d, f)
    <2>1. r.count < Capacity
      BY <1>3
    <2>2. /\ Write(r, f) \in Ring /\ WellFormed(Write(r, f))
          /\ Contents(Write(r, f)) = Append(Contents(r), f)
      BY <1>3, <2>1, WriteLemma
    <2> QED
      BY <1>2, <1>3, <2>2 DEF r
  <1>7. d \in Seq(Frames) /\ Range(c) = Range(d) \cup {c[i + 1]}
    BY <1>4, <1>5, RemoveAtSeq, RangeRemoveAt
  <1>8. c[i + 1] \in Frames
    BY <1>4, <1>5
  <1> HIDE DEF c, d
  <1>9. Range(Append(d, f)) = Range(d) \cup {f}
    BY <1>7, RangeAppend
  <1>10. TypeOK'
    BY <1>2, <1>5, <1>6, <1>8
    DEF RingIInv, TypeOK, TryDisplace, Offer, SignalNotEmpty, loops
  <1>11. AllAccounted'
    BY <1>2, <1>5, <1>6, <1>7, <1>9
    DEF c, RingIInv, AllAccounted, TryDisplace, Offer
  <1>12. Queue!Displace(f)
    <2>1. Queue!Fresh(f) /\ Queue!Full
      BY <1>1, <1>4, QueueRange
      DEF c, RingIInv, AllAccounted, TryDisplace, Offer, Queue!Fresh, Queue!Full
    <2>2. i + 1 \in Queue!Normals
      BY <1>2, NormalPositions DEF IsOldestNormal
    <2>3. ASSUME NEW j \in Queue!Normals
          PROVE  i + 1 <= j
      <3>1. j - 1 \in NormalAt(q) /\ j \in Int
        BY NormalPositions DEF Queue!Normals
      <3>2. i <= j - 1
        BY <1>2, <3>1 DEF IsOldestNormal
      <3> QED
        BY <3>1, <3>2 DEF Slots
    <2>4. Contents(q)' = Append(Queue!RemoveAt(Contents(q), i + 1), f)
      BY <1>6 DEF c, d, Queue!RemoveAt, RemoveAt
    <2>5. lost' = lost \cup {Contents(q)[i + 1]}
      BY <1>2, <1>5 DEF c
    <2>6. popped' = popped /\ f \in Alarms
      BY DEF TryDisplace
    <2> QED
      BY <2>1, <2>2, <2>3, <2>4, <2>5, <2>6 DEF Queue!Displace
  <1> QED
    BY <1>6, <1>10, <1>11, <1>12 DEF RingIInv, RingInv

\* A full queue refuses a normal frame, and an alarm among alarms.
LEMMA DropStep ==
  ASSUME RingIInv, NEW f \in Frames, TryDropNormal(f)
  PROVE  RingIInv' /\ Queue!Refuse(f)
  <1>1. q \in Ring /\ WellFormed(q) /\ q.count = Capacity
    BY DEF RingIInv, TypeOK, RingInv, TryDropNormal
  <1>2. /\ q' \in Ring /\ q'.buf = q.buf /\ q'.head = q.head
        /\ q'.tail = q.tail /\ q'.count = q.count
    BY <1>1 DEF TryDropNormal, Ring
  <1>3. WellFormed(q') /\ Contents(q') = Contents(q)
    BY <1>1, <1>2 DEF WellFormed, Contents
  <1>4. Len(Contents(q)) = Capacity
    BY <1>1, ContentsType
  <1>5. TypeOK' /\ AllAccounted'
    BY <1>2, <1>3
    DEF RingIInv, TypeOK, AllAccounted, TryDropNormal, Offer, control, loops
  <1>6. Queue!Refuse(f)
    BY <1>3, <1>4, QueueRange
    DEF RingIInv, AllAccounted, TryDropNormal, Offer, Queue!Refuse, Queue!Fresh,
        Queue!Full
  <1> QED
    BY <1>2, <1>3, <1>5, <1>6 DEF RingIInv, RingInv

\* ring_push_try refuses an alarm among alarms: so does the abstract queue.
LEMMA RefuseStep ==
  ASSUME RingIInv, NEW f \in Frames, TryRefuseAlarm(f)
  PROVE  RingIInv' /\ Queue!Refuse(f)
  <1>1. q \in Ring /\ WellFormed(q) /\ q.count = Capacity /\ q' = q
    BY DEF RingIInv, TypeOK, RingInv, TryRefuseAlarm
  <1>2. Len(Contents(q)) = Capacity
    BY <1>1, ContentsType
  <1>3. TypeOK' /\ AllAccounted'
    BY <1>1
    DEF RingIInv, TypeOK, AllAccounted, TryRefuseAlarm, Offer, control, loops
  <1>4. Queue!Normals = {}
    BY NormalPositions DEF TryRefuseAlarm
  <1>5. Queue!Refuse(f)
    BY <1>1, <1>2, <1>4, QueueRange
    DEF RingIInv, AllAccounted, TryRefuseAlarm, Offer, Queue!Refuse,
        Queue!Fresh, Queue!Full
  <1> QED
    BY <1>1, <1>3, <1>5 DEF RingIInv, RingInv

\* A consumer takes the oldest frames.
LEMMA PopStep ==
  ASSUME RingIInv, NEW t \in Poppers, PopFrames(t)
  PROVE  RingIInv' /\ Queue!Deliver
  <1> DEFINE c == Contents(q)
             n == BatchSize(q)
             u == SubSeq(c, 1, n)
             v == SubSeq(c, n + 1, Len(c))
  <1>1. /\ q \in Ring /\ WellFormed(q) /\ q.count \in Nat /\ q.count # 0
        /\ popped \in Seq(Frames)
    BY DEF RingIInv, TypeOK, RingInv, PopFrames, Ring
  <1>2. /\ n \in 1..q.count /\ n <= BatchMax
        /\ n < BatchMax => n = q.count
    BY <1>1 DEF BatchSize
  <1>3. c \in Seq(Frames) /\ Len(c) = q.count
    BY <1>1, ContentsType
  <1> HIDE DEF n
  <1>4. q' \in Ring /\ WellFormed(q') /\ Contents(q') = v
    <2>1. n \in 0..q.count
      BY <1>1, <1>2
    <2> QED
      BY <1>1, <1>3, <2>1, TakeLemma DEF PopFrames, n
  <1>5. popped' = popped \o u
    BY DEF PopFrames, n
  <1> HIDE DEF c
  <1>6. u \in Seq(Frames) /\ Range(c) = Range(u) \cup Range(v)
    <2>1. n \in 0..Len(c)
      BY <1>1, <1>2, <1>3
    <2> QED
      BY <1>3, <2>1, RangeSplit
  <1>7. Queue!Deliver
    BY <1>1, <1>2, <1>3, <1>4, <1>5 DEF c, PopFrames, Queue!Deliver
  <1> HIDE DEF u, v
  <1>8. popped' \in Seq(Frames) /\ Range(popped') = Range(popped) \cup Range(u)
    <2>1. popped \o u \in Seq(Frames)
      BY <1>1, <1>6
    <2>2. Range(popped \o u) = Range(popped) \cup Range(u)
      BY <1>1, <1>6, RangeConcatenation
    <2> QED
      BY <1>5, <2>1, <2>2
  <1>9. TypeOK'
    BY <1>4, <1>8 DEF RingIInv, TypeOK, PopFrames, InPop, Awake, Return
  <1>10. AllAccounted'
    BY <1>4, <1>6, <1>8 DEF c, RingIInv, AllAccounted, PopFrames
  <1> QED
    BY <1>4, <1>7, <1>9, <1>10 DEF RingIInv, RingInv

\* The other actions touch neither the ring nor the history.
LEMMA ControlStep ==
  ASSUME RingIInv,
         \/ \E t \in Poppers : LoopTest(t) \/ PopNothing(t) \/ PopSleep(t)
         \/ SpuriousWakeup
         \/ OnExitSignal
         \/ RingWakeAll
         \/ UNCHANGED vars
  PROVE  RingIInv' /\ UNCHANGED Queue!qvars
  <1>1. UNCHANGED <<q, consumers, offered, popped, lost>>
    BY DEF LoopTest, PopNothing, PopSleep, SpuriousWakeup, OnExitSignal,
           RingWakeAll, vars, control, loops, history
  <1>2. /\ notEmpty' \subseteq popping'
        /\ notFull' = {}
        /\ popping' \subseteq consumers
        /\ exited' \subseteq consumers
    <2>1. CASE \E t \in Poppers : LoopTest(t)
      BY <2>1 DEF LoopTest, Awake, RingIInv, TypeOK
    <2>2. CASE \E t \in Poppers : PopNothing(t)
      BY <2>2 DEF PopNothing, InPop, Awake, RingIInv, TypeOK
    <2>3. CASE \E t \in Poppers : PopSleep(t)
      BY <2>3 DEF PopSleep, InPop, Awake, RingIInv, TypeOK, loops
    <2>4. CASE SpuriousWakeup \/ OnExitSignal \/ RingWakeAll \/ UNCHANGED vars
      BY <2>4 DEF SpuriousWakeup, OnExitSignal, RingWakeAll, vars, control, loops,
                  RingIInv, TypeOK
    <2> QED
      BY <2>1, <2>2, <2>3, <2>4
  <1>3. running' \in BOOLEAN /\ woken' \in BOOLEAN
    BY Zenon
    DEF LoopTest, PopNothing, PopSleep, SpuriousWakeup, OnExitSignal, RingWakeAll,
        vars, control, RingIInv, TypeOK
  <1>4. TypeOK'
    BY <1>1, <1>2, <1>3, Zenon DEF RingIInv, TypeOK
  <1>5. RingInv' /\ AllAccounted' /\ Contents(q)' = Contents(q)
    BY <1>1 DEF RingIInv, RingInv, AllAccounted
  <1> QED
    BY <1>1, <1>4, <1>5 DEF RingIInv, Queue!qvars

\* Every step keeps the invariant and is a step of the abstract queue, or none.
LEMMA RingStep ==
  ASSUME RingIInv, [Next]_vars
  PROVE  RingIInv' /\ [Queue!Next]_Queue!qvars
  <1>1. CASE \E f \in Frames : RingPushTry(f)
    <2>1. PICK f \in Frames : RingPushTry(f)
      BY <1>1
    <2>2. RingIInv' /\ (Queue!Accept(f) \/ Queue!Displace(f) \/ Queue!Refuse(f))
      BY <2>1, StoreStep, DisplaceStep, DropStep, RefuseStep DEF RingPushTry
    <2> QED
      BY <2>2 DEF Queue!Next
  <1>2. CASE \E t \in Poppers : PopFrames(t)
    BY <1>2, PopStep DEF Queue!Next
  <1>3. CASE \/ \E t \in Poppers : LoopTest(t) \/ PopNothing(t) \/ PopSleep(t)
             \/ SpuriousWakeup
             \/ OnExitSignal
             \/ RingWakeAll
             \/ UNCHANGED vars
    BY <1>3, ControlStep
  <1> QED
    BY <1>1, <1>2, <1>3 DEF Next, Consumer, RingPopBatch

-----------------------------------------------------------------------------
(* The theorems.                                                            *)

\* The inductive invariant holds in every reachable state.
THEOREM RingInvariance == Spec => []RingIInv
  <1>1. RingIInv /\ [Next]_vars => RingIInv'
    BY RingStep
  <1> QED
    BY InitRing, <1>1, PTL DEF Spec

\* Every variable keeps its type; what consumers receive are frames.
THEOREM Typing == Spec => []TypeOK
  <1>1. RingIInv => TypeOK
    BY DEF RingIInv
  <1> QED
    BY RingInvariance, <1>1, PTL

\* The ring is well formed after any number of wrap-arounds and evictions.
THEOREM RingWellFormed == Spec => []RingInv
  <1>1. RingIInv => RingInv
    BY DEF RingIInv
  <1> QED
    BY RingInvariance, <1>1, PTL

\* The ring implements the abstract queue: first in first out, nothing lost
\* but what FrameQueue says.
THEOREM Refinement == Spec => ImplementsFrameQueue
  <1>1. Init => Queue!Init
    BY EmptyContents DEF Init, Queue!Init
  <1>2. RingIInv /\ [Next]_vars => [Queue!Next]_Queue!qvars
    BY RingStep
  <1> QED
    BY RingInvariance, <1>1, <1>2, PTL DEF Spec, Queue!Spec, ImplementsFrameQueue

\* A consumer that left does not sleep, so the one that a signal wakes is there
\* to pop; and a dispatch_worker is in ring_pop_batch until it leaves.
SleepersStay ==
  /\ notEmpty \cap exited = {}
  /\ \A t \in (consumers \ Cleaners) : t \in exited \/ t \in popping

\* No wake-up is lost: while the queue holds frames some consumer is awake,
\* unless all of them have left.
THEOREM NoWakeupIsLost == Spec => []NoLostWakeup
  <1>1. Init => NoLostWakeup /\ SleepersStay
    BY DEF Init, EmptyRing, NoLostWakeup, SleepersStay
  <1>2. ASSUME SleepersStay, [Next]_vars
        PROVE  SleepersStay'
    <2>1. ASSUME NEW t \in Poppers, Consumer(t)
          PROVE  SleepersStay'
      BY <1>2, <2>1
      DEF SleepersStay, Consumer, LoopTest, RingPopBatch, PopFrames, PopNothing,
          PopSleep, InPop, Awake, Return, loops
    <2>2. ASSUME ~(\E t \in Poppers : Consumer(t))
          PROVE  SleepersStay'
      BY <1>2, <2>2
      DEF SleepersStay, Next, RingPushTry, TryStore, TryDisplace, TryDropNormal,
          TryRefuseAlarm, SignalNotEmpty, SpuriousWakeup, OnExitSignal,
          RingWakeAll, vars, control, loops
    <2> QED
      BY <2>1, <2>2
  <1>3. ASSUME RingIInv, RingIInv', NoLostWakeup, SleepersStay, [Next]_vars
        PROVE  NoLostWakeup'
    <2>0. /\ q.count \in Nat /\ q'.count \in Nat
          /\ notEmpty \subseteq consumers /\ exited \subseteq consumers
          /\ consumers \subseteq Poppers
      BY <1>3, ConsumerAssumption DEF RingIInv, TypeOK, Ring
    <2>1. ASSUME NEW f \in Frames, TryStore(f) \/ TryDisplace(f)
          PROVE  NoLostWakeup'
      <3>1. UNCHANGED loops
        BY <2>1 DEF TryStore, TryDisplace
      <3>2. CASE notEmpty = {}
        <4>1. notEmpty' = {}
          BY <2>1, <3>2 DEF SignalNotEmpty, TryStore, TryDisplace
        <4> QED
          BY <2>0, <3>1, <4>1 DEF NoLostWakeup, Awake, loops
      <3>3. CASE notEmpty # {}
        <4>1. PICK t \in notEmpty : notEmpty' = notEmpty \ {t}
          BY <2>1, <3>3 DEF SignalNotEmpty, TryStore, TryDisplace
        <4> QED
          BY <1>3, <2>0, <3>1, <4>1
          DEF NoLostWakeup, SleepersStay, Awake, loops
      <3> QED
        BY <3>2, <3>3
    <2>2. ASSUME NEW f \in Frames, TryDropNormal(f) \/ TryRefuseAlarm(f)
          PROVE  NoLostWakeup'
      BY <1>3, <2>0, <2>2
      DEF NoLostWakeup, Awake, TryDropNormal, TryRefuseAlarm, control, loops,
          RingIInv, TypeOK, Ring
    <2>3. ASSUME NEW t \in Poppers, PopFrames(t)
          PROVE  NoLostWakeup'
      BY <2>3 DEF NoLostWakeup, InPop, Awake, PopFrames
    <2>4. ASSUME NEW t \in Poppers, LoopTest(t)
          PROVE  NoLostWakeup'
      <3>1. UNCHANGED <<q, notEmpty, consumers>> /\ Awake(t) /\ t \notin popping
        BY <2>4 DEF LoopTest
      <3>2. CASE exited' = exited
        BY <1>3, <3>1, <3>2 DEF NoLostWakeup, Awake
      <3>3. CASE exited' = exited \cup {t}
        <4>1. CASE consumers = Cleaners
          BY <2>0, <3>1, <3>3, <4>1, ConsumerAssumption DEF NoLostWakeup, Awake
        <4>2. CASE consumers = Poppers \ Cleaners
          <5>1. t \in consumers /\ t \notin Cleaners /\ t \notin exited
            BY <3>1, <4>2 DEF Awake
          <5> QED
            BY <1>3, <3>1, <5>1 DEF SleepersStay
        <4> QED
          BY <1>3, <4>1, <4>2 DEF RingIInv, TypeOK
      <3> QED
        BY <2>4, <3>2, <3>3 DEF LoopTest
    <2>5. ASSUME NEW t \in Poppers, PopNothing(t) \/ PopSleep(t)
          PROVE  NoLostWakeup'
      BY <2>0, <2>5 DEF NoLostWakeup, PopNothing, PopSleep
    <2>6. CASE SpuriousWakeup \/ OnExitSignal \/ RingWakeAll \/ UNCHANGED vars
      BY <1>3, <2>6
      DEF NoLostWakeup, Awake, SpuriousWakeup, OnExitSignal, RingWakeAll, vars,
          control, loops
    <2> QED
      BY <1>3, <2>1, <2>2, <2>3, <2>4, <2>5, <2>6
      DEF Next, RingPushTry, Consumer, RingPopBatch
  <1> QED
    BY RingInvariance, <1>1, <1>2, <1>3, PTL DEF Spec

-----------------------------------------------------------------------------
(* The count of the frames.                                                 *)

\* A sequence has at most as many elements as it is long.
LEMMA RangeCardinality ==
  ASSUME NEW S, NEW s \in Seq(S)
  PROVE  /\ IsFiniteSet(Range(s))
         /\ Cardinality(Range(s)) \in Nat
         /\ Cardinality(Range(s)) <= Len(s)
  <1>1. Len(s) \in Nat /\ DOMAIN s = 1..Len(s)
    OBVIOUS
  <1>2. /\ IsFiniteSet(1..Len(s)) /\ Cardinality(1..Len(s)) = Len(s)
    BY <1>1, FS_Interval
  <1>3. s \in Surjection(1..Len(s), Range(s))
    <2>1. s \in [1..Len(s) -> Range(s)]
      BY <1>1 DEF Range
    <2> QED
      BY <1>1, <2>1 DEF Surjection, Range
  <1>4. IsFiniteSet(Range(s)) /\ Cardinality(Range(s)) <= Cardinality(1..Len(s))
    BY <1>2, <1>3, FS_Surjection
  <1> QED
    BY <1>2, <1>4, FS_CardinalityType

\* The counting half of Conservation.
Counted ==
  /\ IsFiniteSet(offered)
  /\ Cardinality(offered) = q.count + Len(popped) + Cardinality(lost)

\* The inductive invariant for counts: a count changes by one only because what
\* is counted is new, which RingIInv and the counts together say.
CountIInv == RingIInv /\ Counted

\* The sets that are counted are finite.
LEMMA Finite ==
  ASSUME RingIInv, Counted
  PROVE  /\ IsFiniteSet(lost) /\ Cardinality(lost) \in Nat
         /\ q.count \in Nat /\ Len(popped) \in Nat
  <1>1. lost \in SUBSET offered
    BY DEF RingIInv, AllAccounted
  <1>2. IsFiniteSet(lost)
    BY <1>1, FS_Subset DEF Counted
  <1> QED
    BY <1>2, FS_CardinalityType DEF RingIInv, TypeOK, Ring

\* A frame in the queue has not been lost before: otherwise the frames offered
\* would be fewer than the counters say.
LEMMA VictimIsNew ==
  ASSUME RingIInv, Counted, NEW k \in 1..q.count
  PROVE  Contents(q)[k] \notin lost
  <1> DEFINE c == Contents(q)
             d == RemoveAt(c, k)
  <1>1. q \in Ring /\ WellFormed(q) /\ popped \in Seq(Frames)
    BY DEF RingIInv, TypeOK, RingInv
  <1>2. c \in Seq(Frames) /\ Len(c) = q.count
    BY <1>1, ContentsType
  <1> SUFFICES ASSUME c[k] \in lost PROVE FALSE
    OBVIOUS
  <1>3. /\ d \in Seq(Frames) /\ Len(d) = q.count - 1
        /\ Range(c) = Range(d) \cup {c[k]}
    BY <1>2, RemoveAtSeq, RangeRemoveAt
  <1>4. offered = (Range(d) \cup Range(popped)) \cup lost
    BY <1>3 DEF RingIInv, AllAccounted
  <1> HIDE DEF c, d
  <1> DEFINE a == Range(d)
             b == Range(popped)
  <1>5. /\ IsFiniteSet(a) /\ Cardinality(a) \in Nat /\ Cardinality(a) <= q.count - 1
        /\ IsFiniteSet(b) /\ Cardinality(b) \in Nat /\ Cardinality(b) <= Len(popped)
    BY <1>1, <1>3, RangeCardinality
  <1> HIDE DEF a, b
  <1>6. /\ IsFiniteSet(a \cup b) /\ Cardinality(a \cup b) \in Nat
        /\ Cardinality(a \cup b) <= Cardinality(a) + Cardinality(b)
    <2>1. /\ IsFiniteSet(a \cup b)
          /\ Cardinality(a \cup b) = Cardinality(a) + Cardinality(b) - Cardinality(a \cap b)
      BY <1>5, FS_Union
    <2>2. IsFiniteSet(a \cap b)
      <3>1. a \cap b \in SUBSET a
        OBVIOUS
      <3> QED
        BY <3>1, <1>5, FS_Subset
    <2>3. Cardinality(a \cap b) \in Nat /\ Cardinality(a \cup b) \in Nat
      BY <2>1, <2>2, FS_CardinalityType
    <2> QED
      BY <1>5, <2>1, <2>3
  <1>7. Cardinality(offered) <= Cardinality(a \cup b) + Cardinality(lost)
    <2>1. Cardinality((a \cup b) \cup lost)
            = Cardinality(a \cup b) + Cardinality(lost) - Cardinality((a \cup b) \cap lost)
      BY <1>6, Finite, FS_Union
    <2>2. IsFiniteSet((a \cup b) \cap lost)
      <3>1. (a \cup b) \cap lost \in SUBSET lost
        OBVIOUS
      <3> QED
        BY <3>1, Finite, FS_Subset
    <2>3. Cardinality((a \cup b) \cap lost) \in Nat
      BY <2>2, FS_CardinalityType
    <2>4. offered = (a \cup b) \cup lost
      BY <1>4 DEF a, b
    <2> QED
      BY <1>6, <2>1, <2>3, <2>4, Finite
  <1> QED
    BY <1>5, <1>6, <1>7, Finite DEF Counted

\* A frame that ring_push_try stores is counted once.
LEMMA CountStore ==
  ASSUME CountIInv, NEW f \in Frames, TryStore(f)
  PROVE  Counted'
  <1>1. /\ IsFiniteSet(offered')
        /\ Cardinality(offered') = Cardinality(offered) + 1
    BY FS_AddElement DEF CountIInv, Counted, TryStore, Offer
  <1>2. q'.count = q.count + 1 /\ popped' = popped /\ lost' = lost
    BY DEF TryStore, Write
  <1> QED
    BY <1>1, <1>2, Finite DEF CountIInv, Counted

\* An eviction moves one frame from the ring to the losses.
LEMMA CountDisplace ==
  ASSUME CountIInv, NEW f \in Frames, TryDisplace(f)
  PROVE  Counted'
  <1>1. /\ IsFiniteSet(offered')
        /\ Cardinality(offered') = Cardinality(offered) + 1
    BY FS_AddElement DEF CountIInv, Counted, TryDisplace, Offer
  <1>2. PICK i \in Slots :
           /\ IsOldestNormal(q, i)
           /\ q' = Write(RemoveNormal(q, i), f)
           /\ lost' = lost \cup {q.buf[Slot(q.tail + i)]}
    BY DEF TryDisplace
  <1> DEFINE x == q.buf[Slot(q.tail + i)]
  <1>3. q'.count = q.count /\ popped' = popped
    BY <1>2, Finite DEF CountIInv, TryDisplace, Write, RemoveNormal
  <1>4. x \notin lost
    <2>1. q \in Ring /\ WellFormed(q) /\ q.count \in Nat
      BY DEF CountIInv, RingIInv, TypeOK, RingInv, Ring
    <2>2. i \in 0..(q.count - 1)
      BY <1>2 DEF IsOldestNormal, NormalAt
    <2>3. i + 1 \in 1..q.count /\ (i + 1) - 1 = i
      BY <2>1, <2>2
    <2>4. Contents(q)[i + 1] = x
      BY <2>1, <2>3, ContentsType
    <2> QED
      BY <2>3, <2>4, VictimIsNew DEF CountIInv
  <1> HIDE DEF x
  <1>5. lost' = lost \cup {x}
    BY <1>2 DEF x
  <1>6. Cardinality(lost') = Cardinality(lost) + 1
    BY <1>4, <1>5, Finite, FS_AddElement DEF CountIInv
  <1> QED
    BY <1>1, <1>3, <1>6, Finite DEF CountIInv, Counted

\* A frame that is refused was not lost before: it is new.
LEMMA CountRefuse ==
  ASSUME CountIInv, NEW f \in Frames, TryDropNormal(f) \/ TryRefuseAlarm(f)
  PROVE  Counted'
  <1>1. /\ IsFiniteSet(offered')
        /\ Cardinality(offered') = Cardinality(offered) + 1
    BY FS_AddElement DEF CountIInv, Counted, TryDropNormal, TryRefuseAlarm, Offer
  <1>2. f \notin lost /\ lost' = lost \cup {f} /\ popped' = popped
    BY DEF CountIInv, RingIInv, AllAccounted, TryDropNormal, TryRefuseAlarm, Offer
  <1>3. Cardinality(lost') = Cardinality(lost) + 1
    BY <1>2, Finite, FS_AddElement DEF CountIInv
  <1>4. q'.count = q.count
    BY DEF CountIInv, RingIInv, TypeOK, Ring, TryDropNormal, TryRefuseAlarm
  <1> QED
    BY <1>1, <1>2, <1>3, <1>4, Finite DEF CountIInv, Counted

\* ring_pop_batch moves frames from the ring to a consumer.
LEMMA CountPop ==
  ASSUME CountIInv, NEW t \in Poppers, PopFrames(t)
  PROVE  Counted'
  <1> DEFINE n == BatchSize(q)
             u == SubSeq(Contents(q), 1, n)
  <1>1. q \in Ring /\ WellFormed(q) /\ q.count # 0 /\ popped \in Seq(Frames)
    BY DEF CountIInv, RingIInv, TypeOK, RingInv, PopFrames
  <1>2. n \in 1..q.count
    BY <1>1, Finite DEF BatchSize, CountIInv
  <1>3. Contents(q) \in Seq(Frames) /\ Len(Contents(q)) = q.count
    BY <1>1, ContentsType
  <1>4. /\ q'.count = q.count - n
        /\ popped' = popped \o u /\ lost' = lost /\ offered' = offered
    BY <1>1 DEF PopFrames, Take, Ring
  <1> HIDE DEF n
  <1>5. u \in Seq(Frames) /\ Len(u) = n
    BY <1>2, <1>3, Finite DEF CountIInv
  <1> HIDE DEF u
  <1>6. Len(popped \o u) = Len(popped) + n
    BY <1>1, <1>5
  <1>7. q'.count + Len(popped') = q.count + Len(popped)
    BY <1>2, <1>4, <1>6, Finite DEF CountIInv
  <1> QED
    BY <1>4, <1>7, Finite DEF CountIInv, Counted

\* Every step keeps the counts.
LEMMA CountStep ==
  ASSUME CountIInv, [Next]_vars
  PROVE  CountIInv'
  <1>1. RingIInv'
    BY RingStep DEF CountIInv
  <1>2. ASSUME NEW f \in Frames, RingPushTry(f)
        PROVE  Counted'
    BY <1>2, CountStore, CountDisplace, CountRefuse DEF RingPushTry
  <1>3. ASSUME NEW t \in Poppers, PopFrames(t)
        PROVE  Counted'
    BY <1>3, CountPop
  <1>4. CASE \/ \E t \in Poppers : LoopTest(t) \/ PopNothing(t) \/ PopSleep(t)
             \/ SpuriousWakeup
             \/ OnExitSignal
             \/ RingWakeAll
             \/ UNCHANGED vars
    <2>1. UNCHANGED <<q, offered, popped, lost>>
      BY <1>4 DEF LoopTest, PopNothing, PopSleep, SpuriousWakeup, OnExitSignal,
                  RingWakeAll, vars, history
    <2>2. Counted'
      BY <2>1 DEF CountIInv, Counted
    <2> QED
      BY <1>1, <2>2 DEF CountIInv
  <1> QED
    BY <1>1, <1>2, <1>3, <1>4 DEF CountIInv, Next, Consumer, RingPopBatch

\* The counts hold in every reachable state.
THEOREM CountInvariance == Spec => []CountIInv
  <1>1. Init => CountIInv
    <2>1. ASSUME Init PROVE Counted
      <3>1. offered = {} /\ lost = {} /\ popped = << >> /\ q.count = 0
        BY <2>1 DEF Init, EmptyRing
      <3> QED
        BY <3>1, FS_EmptySet DEF Counted
    <2> QED
      BY <2>1, InitRing DEF CountIInv
  <1>2. CountIInv /\ [Next]_vars => CountIInv'
    BY CountStep
  <1> QED
    BY <1>1, <1>2, PTL DEF Spec

\* Every frame offered is in a slot, with a consumer or among the losses, and
\* is counted there once.
THEOREM FramesConserved == Spec => []Conservation
  <1>1. CountIInv => Conservation
    BY DEF CountIInv, RingIInv, Counted, Conservation
  <1> QED
    BY CountInvariance, <1>1, PTL

=============================================================================
