------------------------- MODULE EgressLocksProofs -------------------------
(***************************************************************************)
(* Without the wait for tokens no circle of threads waiting for one        *)
(* another can close, whatever turns the threads take: the locks have an   *)
(* order, and every thread takes them in that order.                       *)
(*                                                                         *)
(* The argument has two halves.  That a program keeps the order follows    *)
(* from how it is put together, by Within and \o, and is a property of     *)
(* sequences alone (Fits).  That the threads hold what their programs say  *)
(* is the inductive invariant (HeldIsOwed).                                *)
(***************************************************************************)
EXTENDS EgressLocks, SequenceTheorems, TLAPS

USE LocksAssumption

\* The order of the mutexes.  (With tokens running out stats_lock is taken
\* inside a bucket's, and inside stats_lock cache_lock: no order fits.)
Rank(m) ==
  CASE m = "stats"    -> 1
    [] m = "cache"    -> 2
    [] m = "unicast"  -> 3
    [] m = "send"     -> 4
    [] m = "outbound" -> 5
    [] OTHER          -> 6

Calls == {"lock", "unlock"} \X Mutexes

\* What must be held when the i-th call of p comes: the mutexes it unlocks
\* before it locks them.
Owed(p, i) ==
  {m \in Mutexes :
     \E k \in i..Len(p) :
        /\ p[k] = <<"unlock", m>>
        /\ \A j \in i..(k - 1) : p[j] # <<"lock", m>>}

\* p unlocks what it locks, once, and locks nothing of a lower or the same rank
\* as what it holds.
Proper(p) ==
  \A i \in 1..Len(p), m \in Mutexes :
     /\ p[i] = <<"lock", m>> =>
          /\ m \in Owed(p, i + 1)
          /\ \A h \in Owed(p, i) : Rank(h) < Rank(m)
     /\ p[i] = <<"unlock", m>> => m \notin Owed(p, i + 1)

\* p calls nothing of a rank below r.
Above(p, r) ==
  \A i \in 1..Len(p), m \in Mutexes :
     p[i] \in {<<"lock", m>>, <<"unlock", m>>} => Rank(m) >= r

\* p is a program that may run where only locks of ranks below r are held.
Fits(p, r) ==
  /\ p \in Seq(Calls)
  /\ Proper(p)
  /\ Owed(p, 1) = {}
  /\ Above(p, r)

\* The ranks are numbers from 1 to 6.
LEMMA RankType == \A m \in Mutexes : Rank(m) \in 1..6
  BY DEF Rank, Mutexes

\* After its last call a program owes nothing.
LEMMA OwedAtEnd ==
  ASSUME NEW p \in Seq(Calls)
  PROVE  Owed(p, Len(p) + 1) = {}
  <1>1. \A k \in (Len(p) + 1)..Len(p) : FALSE
    BY LenProperties
  <1> QED
    BY <1>1 DEF Owed

\* What one call changes in what is owed.
LEMMA OwedStep ==
  ASSUME NEW p \in Seq(Calls), NEW i \in 1..Len(p), NEW m \in Mutexes
  PROVE  /\ p[i] = <<"lock", m>> => Owed(p, i) = Owed(p, i + 1) \ {m}
         /\ p[i] = <<"unlock", m>> => Owed(p, i) = Owed(p, i + 1) \cup {m}
  <1>1. PICK n \in Nat : n = Len(p)
    OBVIOUS
  <1>2. i \in 1..n
    BY <1>1
  <1>3. ASSUME NEW h \in Mutexes, h \in Owed(p, i + 1), p[i] # <<"lock", h>>
        PROVE  h \in Owed(p, i)
    <2>1. PICK k \in (i + 1)..n : /\ p[k] = <<"unlock", h>>
                                  /\ \A j \in (i + 1)..(k - 1) : p[j] # <<"lock", h>>
      BY <1>1, <1>3 DEF Owed
    <2>2. k \in i..n /\ \A j \in i..(k - 1) : j = i \/ j \in (i + 1)..(k - 1)
      BY <1>2
    <2>3. \A j \in i..(k - 1) : p[j] # <<"lock", h>>
      BY <1>3, <2>1, <2>2
    <2> QED
      BY <1>1, <2>1, <2>2, <2>3 DEF Owed
  <1>4. ASSUME NEW h \in Mutexes, h \in Owed(p, i), p[i] # <<"unlock", h>>
        PROVE  h \in Owed(p, i + 1) /\ p[i] # <<"lock", h>>
    <2>1. PICK k \in i..n : /\ p[k] = <<"unlock", h>>
                            /\ \A j \in i..(k - 1) : p[j] # <<"lock", h>>
      BY <1>1, <1>4 DEF Owed
    <2>2. k # i
      BY <1>4, <2>1
    <2>3. k \in (i + 1)..n /\ i \in i..(k - 1) /\ \A j \in (i + 1)..(k - 1) : j \in i..(k - 1)
      BY <1>2, <2>2
    <2> QED
      BY <1>1, <2>1, <2>3 DEF Owed
  <1>5. ASSUME p[i] = <<"lock", m>> PROVE Owed(p, i) = Owed(p, i + 1) \ {m}
    <2>1. \A h \in Mutexes : h \in Owed(p, i) <=> h \in Owed(p, i + 1) \ {m}
      BY <1>3, <1>4, <1>5
    <2>2. Owed(p, i) \subseteq Mutexes /\ Owed(p, i + 1) \subseteq Mutexes
      BY DEF Owed
    <2> QED
      BY <2>1, <2>2
  <1>6. ASSUME p[i] = <<"unlock", m>> PROVE Owed(p, i) = Owed(p, i + 1) \cup {m}
    <2>1. \A h \in Mutexes : h # m => (h \in Owed(p, i) <=> h \in Owed(p, i + 1))
      BY <1>3, <1>4, <1>6
    <2>2. Owed(p, i) \subseteq Mutexes /\ Owed(p, i + 1) \subseteq Mutexes
      BY DEF Owed
    <2>3. m \in Owed(p, i)
      <3>1. i \in i..n /\ \A j \in i..(i - 1) : FALSE
        BY <1>2
      <3> QED
        BY <1>1, <1>6, <3>1 DEF Owed
    <2> QED
      BY <2>1, <2>2, <2>3
  <1> QED
    BY <1>5, <1>6

-----------------------------------------------------------------------------
(* Programs.                                                                *)

\* Nothing to do fits everywhere.
LEMMA FitsNothing == \A r : Fits(<< >>, r)
  <1>1. << >> \in Seq(Calls) /\ Len(<< >>) = 0
    OBVIOUS
  <1>2. \A i \in 1..Len(<< >>) : FALSE
    BY <1>1
  <1> QED
    BY <1>1, <1>2 DEF Fits, Proper, Owed, Above

\* What fits among more fits among less.
LEMMA FitsBelow ==
  ASSUME NEW r \in Int, NEW s \in Int, r <= s, NEW p, Fits(p, s)
  PROVE  Fits(p, r)
  <1>1. Above(p, r)
    BY RankType DEF Fits, Above
  <1> QED
    BY <1>1 DEF Fits

\* One program after the other.
LEMMA FitsThen ==
  ASSUME NEW r, NEW u, Fits(u, r), NEW v, Fits(v, r)
  PROVE  Fits(u \o v, r)
  <1>0. u \in Seq(Calls) /\ v \in Seq(Calls)
    BY DEF Fits
  <1>1. PICK a \in Nat : a = Len(u)
    BY <1>0
  <1>2. PICK b \in Nat : b = Len(v)
    BY <1>0
  <1> DEFINE p == u \o v
  <1>3. /\ p \in Seq(Calls) /\ Len(p) = a + b
        /\ \A i \in 1..a : p[i] = u[i]
        /\ \A i \in (a + 1)..(a + b) : p[i] = v[i - a]
    BY <1>0, <1>1, <1>2, ConcatProperties
  <1> HIDE DEF p
  <1>4. \A i \in 1..(a + 1) : Owed(p, i) = Owed(u, i)
    <2> SUFFICES ASSUME NEW i \in 1..(a + 1), NEW m \in Mutexes
                 PROVE  m \in Owed(p, i) <=> m \in Owed(u, i)
      BY Zenon DEF Owed
    <2>1. ASSUME m \in Owed(u, i) PROVE m \in Owed(p, i)
      <3>1. PICK k \in i..a : /\ u[k] = <<"unlock", m>>
                              /\ \A j \in i..(k - 1) : u[j] # <<"lock", m>>
        BY <2>1, <1>1 DEF Owed
      <3>2. k \in i..(a + b) /\ p[k] = <<"unlock", m>>
        BY <1>3, <3>1
      <3>3. \A j \in i..(k - 1) : p[j] # <<"lock", m>>
        BY <1>3, <3>1
      <3> QED
        BY <1>3, <3>2, <3>3 DEF Owed
    <2>2. ASSUME m \in Owed(p, i) PROVE m \in Owed(u, i)
      <3>1. PICK k \in i..(a + b) : /\ p[k] = <<"unlock", m>>
                                    /\ \A j \in i..(k - 1) : p[j] # <<"lock", m>>
        BY <2>2, <1>3 DEF Owed
      <3>2. CASE k <= a
        <4>1. k \in i..a /\ u[k] = <<"unlock", m>>
          BY <1>3, <3>1, <3>2
        <4>2. \A j \in i..(k - 1) : u[j] # <<"lock", m>>
          BY <1>3, <3>1, <3>2
        <4> QED
          BY <1>1, <4>1, <4>2 DEF Owed
      <3>3. CASE k > a
        <4>1. k - a \in 1..b /\ v[k - a] = <<"unlock", m>>
          BY <1>3, <3>1, <3>3
        <4>2. \A j \in 1..(k - a - 1) : v[j] # <<"lock", m>>
          <5> TAKE j \in 1..(k - a - 1)
          <5>1. j + a \in i..(k - 1) /\ j + a \in (a + 1)..(a + b) /\ (j + a) - a = j
            BY <3>1, <3>3
          <5> QED
            BY <1>3, <3>1, <5>1
        <4>3. m \in Owed(v, 1)
          BY <1>2, <4>1, <4>2 DEF Owed
        <4> QED
          BY <4>3 DEF Fits
      <3> QED
        BY <3>1, <3>2, <3>3
    <2> QED
      BY <2>1, <2>2
  <1>5. \A i \in 1..(b + 1) : Owed(p, i + a) = Owed(v, i)
    <2> SUFFICES ASSUME NEW i \in 1..(b + 1), NEW m \in Mutexes
                 PROVE  m \in Owed(p, i + a) <=> m \in Owed(v, i)
      BY Zenon DEF Owed
    <2>1. ASSUME m \in Owed(v, i) PROVE m \in Owed(p, i + a)
      <3>1. PICK k \in i..b : /\ v[k] = <<"unlock", m>>
                              /\ \A j \in i..(k - 1) : v[j] # <<"lock", m>>
        BY <2>1, <1>2 DEF Owed
      <3>2. PICK e \in (i + a)..(a + b) : e = k + a
        OBVIOUS
      <3>4. p[e] = <<"unlock", m>>
        BY <1>3, <3>1, <3>2
      <3>3. \A j \in (i + a)..(e - 1) : p[j] # <<"lock", m>>
        <4> TAKE j \in (i + a)..(e - 1)
        <4>1. j - a \in i..(k - 1)
          BY <3>2
        <4>2. j \in (a + 1)..(a + b)
          BY <3>2
        <4>3. p[j] = v[j - a]
          BY <1>3, <4>2
        <4> QED
          BY <3>1, <4>1, <4>3, Zenon
      <3> QED
        BY <1>3, <3>4, <3>3 DEF Owed
    <2>2. ASSUME m \in Owed(p, i + a) PROVE m \in Owed(v, i)
      <3>1. PICK k \in (i + a)..(a + b) :
               /\ p[k] = <<"unlock", m>>
               /\ \A j \in (i + a)..(k - 1) : p[j] # <<"lock", m>>
        BY <2>2, <1>3 DEF Owed
      <3>2. k - a \in i..b /\ v[k - a] = <<"unlock", m>>
        BY <1>3, <3>1
      <3>3. \A j \in i..(k - a - 1) : v[j] # <<"lock", m>>
        <4> TAKE j \in i..(k - a - 1)
        <4>1. j + a \in (i + a)..(k - 1) /\ j + a \in (a + 1)..(a + b) /\ (j + a) - a = j
          BY <3>1
        <4> QED
          BY <1>3, <3>1, <4>1
      <3> QED
        BY <1>2, <3>2, <3>3 DEF Owed
    <2> QED
      BY <2>1, <2>2
  <1>6. \A i \in 1..(a + b) :
           \/ i \in 1..a /\ i \in 1..(a + 1) /\ i + 1 \in 1..(a + 1)
           \/ /\ i - a \in 1..b /\ i - a \in 1..(b + 1) /\ (i - a) + 1 \in 1..(b + 1)
              /\ (i - a) + a = i /\ ((i - a) + 1) + a = i + 1 /\ i \in (a + 1)..(a + b)
    OBVIOUS
  <1>7. Proper(p)
    <2> SUFFICES ASSUME NEW i \in 1..(a + b), NEW m \in Mutexes
                 PROVE  /\ p[i] = <<"lock", m>> =>
                             /\ m \in Owed(p, i + 1)
                             /\ \A h \in Owed(p, i) : Rank(h) < Rank(m)
                        /\ p[i] = <<"unlock", m>> => m \notin Owed(p, i + 1)
      BY <1>3 DEF Proper
    <2>1. CASE i \in 1..a
      <3>1. p[i] = u[i] /\ Owed(p, i) = Owed(u, i) /\ Owed(p, i + 1) = Owed(u, i + 1)
        BY <1>3, <1>4, <2>1
      <3> QED
        BY <1>1, <2>1, <3>1 DEF Fits, Proper
    <2>2. CASE i - a \in 1..b
      <3>1. /\ p[i] = v[i - a] /\ Owed(p, i) = Owed(v, i - a)
            /\ Owed(p, i + 1) = Owed(v, (i - a) + 1)
        <4>1. /\ i - a \in 1..(b + 1) /\ (i - a) + 1 \in 1..(b + 1)
              /\ (i - a) + a = i /\ ((i - a) + 1) + a = i + 1 /\ i \in (a + 1)..(a + b)
          BY <2>2
        <4>2. Owed(p, (i - a) + a) = Owed(v, i - a)
          BY <1>5, <4>1
        <4>3. Owed(p, ((i - a) + 1) + a) = Owed(v, (i - a) + 1)
          BY <1>5, <4>1
        <4> QED
          BY <1>3, <4>1, <4>2, <4>3
      <3> QED
        BY <1>2, <2>2, <3>1 DEF Fits, Proper
    <2> QED
      BY <1>6, <2>1, <2>2
  <1>8. Above(p, r)
    <2> SUFFICES ASSUME NEW i \in 1..(a + b), NEW m \in Mutexes,
                        p[i] \in {<<"lock", m>>, <<"unlock", m>>}
                 PROVE  Rank(m) >= r
      BY <1>3 DEF Above
    <2>1. CASE i \in 1..a
      BY <1>1, <1>3, <2>1 DEF Fits, Above
    <2>2. CASE i - a \in 1..b /\ i \in (a + 1)..(a + b)
      BY <1>2, <1>3, <2>2 DEF Fits, Above
    <2> QED
      BY <1>6, <2>1, <2>2
  <1>9. Owed(p, 1) = {}
    BY <1>4 DEF Fits
  <1> QED
    BY <1>3, <1>7, <1>8, <1>9 DEF Fits, p

\* A program inside a lock of a lower rank.
LEMMA FitsWithin ==
  ASSUME NEW m \in Mutexes, NEW b, Fits(b, Rank(m) + 1)
  PROVE  Fits(Within(m, b), Rank(m))
  <1>0. b \in Seq(Calls) /\ Rank(m) \in Int /\ Owed(b, 1) = {}
    BY RankType DEF Fits
  <1>1. PICK n \in Nat : n = Len(b)
    BY <1>0
  <1> DEFINE p == Within(m, b)
             lock == <<"lock", m>>
             unlock == <<"unlock", m>>
  <1>2. lock \in Calls /\ unlock \in Calls /\ lock # unlock
    BY DEF Calls
  <1>3. /\ p \in Seq(Calls) /\ Len(p) = n + 2
        /\ p[1] = lock /\ p[n + 2] = unlock
        /\ \A i \in 1..n : p[i + 1] = b[i]
    <2> DEFINE l == <<lock>>
               u == <<unlock>>
               h == l \o b
    <2>1. l \in Seq(Calls) /\ Len(l) = 1 /\ l[1] = lock /\ u \in Seq(Calls) /\ Len(u) = 1 /\ u[1] = unlock
      BY <1>2
    <2>2. p = h \o u
      BY DEF Within
    <2> HIDE DEF l, u, lock, unlock
    <2>3. /\ h \in Seq(Calls) /\ Len(h) = n + 1 /\ h[1] = lock
          /\ \A i \in 1..n : h[i + 1] = b[i]
      <3>1. /\ h \in Seq(Calls) /\ Len(h) = Len(l) + Len(b)
            /\ \A i \in 1..(Len(l) + Len(b)) :
                  h[i] = IF i <= Len(l) THEN l[i] ELSE b[i - Len(l)]
        BY <1>0, <2>1, ConcatProperties
      <3> HIDE DEF h
      <3>2. \A i \in 1..n : i + 1 \in 1..(1 + n) /\ ~(i + 1 <= 1) /\ (i + 1) - 1 = i
        OBVIOUS
      <3> QED
        BY <1>1, <2>1, <3>1, <3>2
    <2> HIDE DEF h, p
    <2>4. /\ p \in Seq(Calls) /\ Len(p) = Len(h) + Len(u)
          /\ \A i \in 1..(Len(h) + Len(u)) :
                p[i] = IF i <= Len(h) THEN h[i] ELSE u[i - Len(h)]
      BY <2>1, <2>2, <2>3, ConcatProperties
    <2>5. \A i \in 1..(n + 2) : p[i] = IF i <= n + 1 THEN h[i] ELSE u[i - (n + 1)]
      BY <2>1, <2>3, <2>4
    <2>6. /\ 1 \in 1..(n + 2) /\ n + 2 \in 1..(n + 2) /\ (n + 2) - (n + 1) = 1
          /\ \A i \in 1..n : i + 1 \in 1..(n + 2) /\ i + 1 <= n + 1
      OBVIOUS
    <2>7. Len(p) = n + 2
      BY <2>1, <2>3, <2>4
    <2>8. p[1] = lock /\ p[n + 2] = unlock
      BY <2>1, <2>3, <2>5, <2>6
    <2>9. \A i \in 1..n : p[i + 1] = b[i]
      BY <2>3, <2>5, <2>6
    <2> QED
      BY <2>4, <2>7, <2>8, <2>9
  <1> HIDE DEF p
  <1>4. \A i \in 1..n : b[i] # lock /\ b[i] # unlock
    <2> SUFFICES ASSUME NEW i \in 1..n, b[i] \in {lock, unlock} PROVE FALSE
      OBVIOUS
    <2>1. Rank(m) >= Rank(m) + 1
      BY <1>1 DEF Fits, Above
    <2> QED
      BY <1>0, <2>1
  <1> HIDE DEF lock, unlock
  <1>5. \A i \in 1..(n + 1) : Owed(p, i + 1) = Owed(b, i) \cup {m}
    <2> SUFFICES ASSUME NEW i \in 1..(n + 1), NEW h \in Mutexes
                 PROVE  h \in Owed(p, i + 1) <=> h \in Owed(b, i) \/ h = m
      <3> SUFFICES ASSUME NEW i \in 1..(n + 1)
                   PROVE  Owed(p, i + 1) = Owed(b, i) \cup {m}
        OBVIOUS
      <3>1. \A h \in Mutexes : h \in Owed(p, i + 1) <=> h \in Owed(b, i) \/ h = m
        BY Zenon
      <3>2. Owed(p, i + 1) \subseteq Mutexes /\ Owed(b, i) \subseteq Mutexes
        BY DEF Owed
      <3> QED
        BY <3>1, <3>2
    <2>1. ASSUME h \in Owed(b, i) PROVE h \in Owed(p, i + 1)
      <3>1. PICK k \in i..n : /\ b[k] = <<"unlock", h>>
                              /\ \A j \in i..(k - 1) : b[j] # <<"lock", h>>
        BY <1>1, <2>1 DEF Owed
      <3>2. k + 1 \in (i + 1)..(n + 2) /\ p[k + 1] = <<"unlock", h>>
        BY <1>3, <3>1
      <3>3. \A j \in (i + 1)..((k + 1) - 1) : p[j] # <<"lock", h>>
        <4> TAKE j \in (i + 1)..((k + 1) - 1)
        <4>1. j - 1 \in i..(k - 1) /\ j - 1 \in 1..n /\ (j - 1) + 1 = j
          BY <3>1
        <4> QED
          BY <1>3, <3>1, <4>1
      <3> QED
        BY <1>3, <3>2, <3>3 DEF Owed
    <2>2. ASSUME h = m PROVE h \in Owed(p, i + 1)
      <3>1. \A j \in (i + 1)..((n + 2) - 1) : j - 1 \in 1..n /\ (j - 1) + 1 = j
        OBVIOUS
      <3>2. \A j \in (i + 1)..((n + 2) - 1) : p[j] # <<"lock", h>>
        <4> TAKE j \in (i + 1)..((n + 2) - 1)
        <4>1. j - 1 \in 1..n /\ (j - 1) + 1 = j
          BY <3>1
        <4>2. p[j] = b[j - 1] /\ b[j - 1] # lock
          BY <1>3, <1>4, <4>1
        <4> QED
          BY <2>2, <4>2 DEF lock
      <3>3. n + 2 \in (i + 1)..(n + 2) /\ p[n + 2] = <<"unlock", h>>
        BY <1>3, <2>2 DEF unlock
      <3> QED
        BY <1>3, <3>2, <3>3 DEF Owed
    <2>3. ASSUME h \in Owed(p, i + 1), h # m PROVE h \in Owed(b, i)
      <3>1. PICK k \in (i + 1)..(n + 2) :
               /\ p[k] = <<"unlock", h>>
               /\ \A j \in (i + 1)..(k - 1) : p[j] # <<"lock", h>>
        BY <1>3, <2>3 DEF Owed
      <3>2. k # n + 2
        BY <1>3, <2>3, <3>1 DEF unlock
      <3>3. k - 1 \in i..n /\ k - 1 \in 1..n /\ (k - 1) + 1 = k
        BY <3>2
      <3>4. b[k - 1] = <<"unlock", h>>
        BY <1>3, <3>1, <3>3
      <3>5. \A j \in i..((k - 1) - 1) : b[j] # <<"lock", h>>
        <4> TAKE j \in i..((k - 1) - 1)
        <4>1. j + 1 \in (i + 1)..(k - 1) /\ j \in 1..n
          BY <3>3
        <4> QED
          BY <1>3, <3>1, <4>1
      <3> QED
        BY <1>1, <3>3, <3>4, <3>5 DEF Owed
    <2> QED
      BY <2>1, <2>2, <2>3
  <1>6. \A i \in 1..(n + 1) : m \notin Owed(b, i)
    <2> SUFFICES ASSUME NEW i \in 1..(n + 1), m \in Owed(b, i) PROVE FALSE
      OBVIOUS
    <2>1. PICK k \in i..n : b[k] = <<"unlock", m>>
      BY <1>1 DEF Owed
    <2>2. k \in 1..n
      OBVIOUS
    <2> QED
      BY <1>4, <2>1, <2>2 DEF unlock
  <1>7. \A i \in 1..n, h \in Mutexes :
           b[i] = <<"lock", h>> => Rank(m) < Rank(h)
    <2> SUFFICES ASSUME NEW i \in 1..n, NEW h \in Mutexes, b[i] = <<"lock", h>>
                 PROVE  Rank(m) < Rank(h)
      OBVIOUS
    <2>1. Rank(h) >= Rank(m) + 1
      BY <1>1 DEF Fits, Above
    <2> QED
      BY <2>1, RankType
  <1>8. Owed(p, 1) = {} /\ Owed(p, n + 3) = {} /\ Owed(p, 2) = {m}
    <2>1. Owed(p, 2) = {m}
      <3>1. Owed(p, 1 + 1) = Owed(b, 1) \cup {m}
        BY <1>5
      <3> QED
        BY <1>0, <3>1
    <2>2. Owed(p, 1) = Owed(p, 1 + 1) \ {m}
      BY <1>3, OwedStep DEF lock
    <2>3. Owed(p, (n + 2) + 1) = {}
      BY <1>3, OwedAtEnd
    <2> QED
      BY <2>1, <2>2, <2>3
  <1>9. \A i \in 1..(n + 2) : i = 1 \/ i = n + 2 \/ (i - 1 \in 1..n /\ (i - 1) + 1 = i)
    OBVIOUS
  <1>10. Proper(p)
    <2> SUFFICES ASSUME NEW i \in 1..(n + 2), NEW h \in Mutexes
                 PROVE  /\ p[i] = <<"lock", h>> =>
                             /\ h \in Owed(p, i + 1)
                             /\ \A g \in Owed(p, i) : Rank(g) < Rank(h)
                        /\ p[i] = <<"unlock", h>> => h \notin Owed(p, i + 1)
      BY <1>3 DEF Proper
    <2>1. CASE i = 1
      <3>1. p[i] = <<"lock", m>> /\ Owed(p, i) = {} /\ Owed(p, i + 1) = {m}
        BY <1>3, <1>8, <2>1 DEF lock
      <3> QED
        BY <3>1
    <2>2. CASE i = n + 2
      <3>1. p[i] = <<"unlock", m>> /\ Owed(p, i + 1) = {}
        BY <1>3, <1>8, <2>2 DEF unlock
      <3> QED
        BY <3>1
    <2>3. ASSUME NEW j \in 1..n, i = j + 1
          PROVE  /\ p[i] = <<"lock", h>> =>
                      /\ h \in Owed(p, i + 1)
                      /\ \A g \in Owed(p, i) : Rank(g) < Rank(h)
                 /\ p[i] = <<"unlock", h>> => h \notin Owed(p, i + 1)
      <3>1. j \in 1..(n + 1) /\ j + 1 \in 1..(n + 1)
        OBVIOUS
      <3>2. /\ p[i] = b[j] /\ Owed(p, i) = Owed(b, j) \cup {m}
            /\ Owed(p, i + 1) = Owed(b, j + 1) \cup {m}
        BY <1>3, <1>5, <2>3, <3>1
      <3>3. /\ b[j] = <<"lock", h>> =>
                 /\ h \in Owed(b, j + 1)
                 /\ \A g \in Owed(b, j) : Rank(g) < Rank(h)
            /\ b[j] = <<"unlock", h>> => h \notin Owed(b, j + 1)
        BY <1>1 DEF Fits, Proper
      <3>4. b[j] = <<"unlock", h>> => h # m
        BY <1>4 DEF unlock
      <3> QED
        BY <1>7, <3>2, <3>3, <3>4
    <2> QED
      BY <1>9, <2>1, <2>2, <2>3
  <1>11. Above(p, Rank(m))
    <2> SUFFICES ASSUME NEW i \in 1..(n + 2), NEW h \in Mutexes,
                        p[i] \in {<<"lock", h>>, <<"unlock", h>>}
                 PROVE  Rank(h) >= Rank(m)
      BY <1>3 DEF Above
    <2>1. CASE i = 1 \/ i = n + 2
      <3>1. h = m
        BY <1>3, <2>1 DEF lock, unlock
      <3> QED
        BY <1>0, <3>1
    <2>2. CASE i - 1 \in 1..n /\ (i - 1) + 1 = i
      <3>1. b[i - 1] \in {<<"lock", h>>, <<"unlock", h>>}
        BY <1>3, <2>2
      <3>2. Rank(h) >= Rank(m) + 1
        BY <1>1, <2>2, <3>1 DEF Fits, Above
      <3> QED
        BY <3>2, RankType
    <2> QED
      BY <1>9, <2>1, <2>2
  <1> QED
    BY <1>3, <1>8, <1>10, <1>11 DEF Fits, p

\* A lock taken and given back.
LEMMA FitsBrief ==
  ASSUME NEW m \in Mutexes
  PROVE  Fits(Brief(m), Rank(m))
  BY FitsNothing, FitsWithin DEF Brief

\* A lock around a program of some higher rank.
LEMMA FitsAround ==
  ASSUME NEW m \in Mutexes, NEW s \in Int, Rank(m) < s, NEW b, Fits(b, s)
  PROVE  Fits(Within(m, b), Rank(m))
  <1>1. Rank(m) + 1 \in Int /\ Rank(m) + 1 <= s
    BY RankType
  <1>2. Fits(b, Rank(m) + 1)
    BY <1>1, FitsBelow
  <1> QED
    BY <1>2, FitsWithin

\* The rank of every mutex, by name.
LEMMA Ranks ==
  /\ {"unicast", "send", "outbound", "retry", "stats", "cache"} = Mutexes
  /\ Rank("stats") = 1 /\ Rank("cache") = 2 /\ Rank("unicast") = 3
  /\ Rank("send") = 4 /\ Rank("outbound") = 5 /\ Rank("retry") = 6
  BY DEF Rank, Mutexes

\* A lock taken and given back, where nothing is held.
LEMMA FitsAlone ==
  ASSUME NEW m \in Mutexes
  PROVE  Fits(Brief(m), 1)
  <1>1. Rank(m) \in Int /\ 1 <= Rank(m)
    BY RankType
  <1> QED
    BY <1>1, FitsBrief, FitsBelow

\* unicast_sender_send_with_bucket, as long as the tokens last.
LEMMA SendFits ==
  ASSUME ~Throttled, NEW bucket \in {"outbound", "retry"}, NEW send \in Send(bucket)
  PROVE  Fits(send, 4)
  <1>1. send = Within("send", Brief(bucket))
    BY Zenon DEF Send, FetchToken
  <1>2. bucket \in Mutexes /\ Rank(bucket) \in Int /\ Rank(bucket) > 4
    BY Ranks
  <1>3. Fits(Within("send", Brief(bucket)), Rank("send"))
    BY <1>2, Ranks, FitsBrief, FitsAround
  <1> QED
    BY <1>1, <1>3, Ranks

\* dispatch_one
LEMMA DispatchOneFits ==
  ASSUME ~Throttled, NEW turn \in DispatchOne
  PROVE  Fits(turn, 1)
  <1>1. PICK unicast \in Unicast \cup {Brief("unicast")},
             after \in {Brief("stats"), Brief("cache")} :
               turn = Brief("stats") \o unicast \o after
    BY DEF DispatchOne
  <1>2. Fits(unicast, 3)
    <2>1. CASE unicast \in Unicast
      <3>1. PICK send \in Send("outbound") : unicast = Within("unicast", send)
        BY <2>1 DEF Unicast
      <3>2. Fits(send, 4)
        BY SendFits
      <3>3. Fits(Within("unicast", send), Rank("unicast"))
        BY <3>2, Ranks, FitsAround
      <3> QED
        BY <3>1, <3>3, Ranks
    <2>2. CASE unicast = Brief("unicast")
      BY <2>2, Ranks, FitsBrief
    <2> QED
      BY <2>1, <2>2
  <1>3. Fits(unicast, 1) /\ Fits(Brief("stats"), 1) /\ Fits(after, 1)
    BY <1>2, Ranks, FitsBelow, FitsAlone
  <1> QED
    BY <1>1, <1>3, FitsThen

\* A round of dispatch_monitor.
LEMMA DispatchMonitorFits ==
  ASSUME ~Throttled, NEW turn \in DispatchMonitor
  PROVE  Fits(turn, 1)
  <1>1. CASE turn = Heartbeat
    <2>1. Fits(Brief("send"), 4)
      BY Ranks, FitsBrief
    <2>2. Fits(Heartbeat, Rank("unicast"))
      BY <2>1, Ranks, FitsAround DEF Heartbeat
    <2> QED
      BY <1>1, <2>2, Ranks, FitsBelow
  <1>2. CASE turn = Install
    BY <1>2, Ranks, FitsAlone DEF Install
  <1>3. CASE turn \in Replay
    <2>1. PICK send \in ReplaySend :
            turn = Brief("cache") \o Brief("unicast") \o Within("cache", send)
      BY <1>3 DEF Replay
    <2>2. Fits(send, 4)
      <3>1. CASE RetryBucket
        BY <2>1, <3>1, SendFits DEF ReplaySend
      <3>2. CASE ~RetryBucket
        BY <2>1, <3>2, Ranks, FitsBrief DEF ReplaySend
      <3> QED
        BY <3>1, <3>2
    <2>3. Fits(Within("cache", send), Rank("cache"))
      BY <2>2, Ranks, FitsAround
    <2>4. /\ Fits(Within("cache", send), 1)
          /\ Fits(Brief("cache"), 1) /\ Fits(Brief("unicast"), 1)
      BY <2>3, Ranks, FitsBelow, FitsAlone
    <2> QED
      BY <2>1, <2>4, FitsThen
  <1> QED
    BY <1>1, <1>2, <1>3 DEF DispatchMonitor

\* stats_snapshot
LEMMA StatsSnapshotFits ==
  ASSUME NEW turn \in StatsSnapshot
  PROVE  Fits(turn, 1)
  <1>1. turn = Within("stats", Brief("cache"))
    BY DEF StatsSnapshot
  <1>2. Fits(Brief("cache"), 2)
    BY Ranks, FitsBrief
  <1> QED
    BY <1>1, <1>2, Ranks, FitsAround

\* The ticks of the buckets.
LEMMA DispatchTickerFits ==
  ASSUME NEW turn \in DispatchTicker
  PROVE  Fits(turn, 1)
  <1>1. turn = Brief("outbound") \o IF RetryBucket THEN Brief("retry") ELSE << >>
    BY DEF DispatchTicker
  <1>2. Fits(IF RetryBucket THEN Brief("retry") ELSE << >>, 1)
    BY Ranks, FitsAlone, FitsNothing
  <1> QED
    BY <1>1, <1>2, Ranks, FitsAlone, FitsThen

\* Every turn of every thread keeps the order, as long as the tokens last.
LEMMA TurnsFit ==
  ASSUME ~Throttled, NEW t \in Threads, NEW turn \in Turns(t)
  PROVE  Fits(turn, 1)
  <1>1. turn \in DispatchOne \cup DispatchMonitor \cup StatsSnapshot
                   \cup DispatchTicker \cup StatsOn
    BY DEF Turns, Threads
  <1>2. CASE turn \in StatsOn
    BY <1>2, Ranks, FitsAlone DEF StatsOn
  <1> QED
    BY <1>1, <1>2, DispatchOneFits, DispatchMonitorFits, StatsSnapshotFits,
       DispatchTickerFits

-----------------------------------------------------------------------------
(* Threads.                                                                 *)

\* Every thread is in the middle of a program that keeps the order, and holds
\* exactly the mutexes it has still to unlock.
LocksIInv ==
  /\ todo \in [Threads -> Seq(Calls)]
  /\ holder \in [Mutexes -> Threads \cup {Free}]
  /\ \A t \in Threads : Proper(todo[t])
  /\ \A m \in Mutexes, t \in Threads : holder[m] = t <=> m \in Owed(todo[t], 1)

\* A thread has made its next call.
LEMMA OneCallDone ==
  ASSUME NEW p \in Seq(Calls), p # << >>, Proper(p)
  PROVE  /\ Tail(p) \in Seq(Calls) /\ Proper(Tail(p))
         /\ Owed(Tail(p), 1) = Owed(p, 2)
         /\ 1 \in 1..Len(p) /\ Head(p) = p[1]
  <1>1. PICK n \in Nat : n = Len(p)
    OBVIOUS
  <1> DEFINE q == Tail(p)
  <1>2. /\ q \in Seq(Calls) /\ Len(q) = n - 1 /\ n >= 1
        /\ \A i \in 1..(n - 1) : q[i] = p[i + 1]
    BY <1>1, EmptySeq, HeadTailProperties
  <1>3. Head(p) = p[1]
    BY HeadTailProperties
  <1> HIDE DEF q
  <1>4. \A i \in 1..n : Owed(q, i) = Owed(p, i + 1)
    <2> SUFFICES ASSUME NEW i \in 1..n, NEW m \in Mutexes
                 PROVE  m \in Owed(q, i) <=> m \in Owed(p, i + 1)
      BY Zenon DEF Owed
    <2>1. ASSUME m \in Owed(q, i) PROVE m \in Owed(p, i + 1)
      <3>1. PICK k \in i..(n - 1) : /\ q[k] = <<"unlock", m>>
                                    /\ \A j \in i..(k - 1) : q[j] # <<"lock", m>>
        BY <2>1, <1>2 DEF Owed
      <3>2. PICK e \in (i + 1)..n : e = k + 1
        OBVIOUS
      <3>3. p[e] = <<"unlock", m>>
        BY <1>2, <3>1, <3>2
      <3>4. \A j \in (i + 1)..(e - 1) : p[j] # <<"lock", m>>
        <4> TAKE j \in (i + 1)..(e - 1)
        <4>1. j - 1 \in i..(k - 1) /\ j - 1 \in 1..(n - 1) /\ (j - 1) + 1 = j
          BY <3>2
        <4>2. q[j - 1] = p[j]
          BY <1>2, <4>1
        <4> QED
          BY <3>1, <4>1, <4>2
      <3> QED
        BY <1>1, <3>3, <3>4 DEF Owed
    <2>2. ASSUME m \in Owed(p, i + 1) PROVE m \in Owed(q, i)
      <3>1. PICK k \in (i + 1)..n : /\ p[k] = <<"unlock", m>>
                                    /\ \A j \in (i + 1)..(k - 1) : p[j] # <<"lock", m>>
        BY <2>2, <1>1 DEF Owed
      <3>2. PICK e \in i..(n - 1) : e + 1 = k
        <4>1. k - 1 \in i..(n - 1) /\ (k - 1) + 1 = k
          OBVIOUS
        <4> QED
          BY <4>1
      <3>3. q[e] = <<"unlock", m>>
        BY <1>2, <3>1, <3>2
      <3>4. \A j \in i..(e - 1) : q[j] # <<"lock", m>>
        <4> TAKE j \in i..(e - 1)
        <4>1. j + 1 \in (i + 1)..(k - 1) /\ j \in 1..(n - 1)
          BY <3>2
        <4> QED
          BY <1>2, <3>1, <4>1
      <3> QED
        BY <1>2, <3>3, <3>4 DEF Owed
    <2> QED
      BY <2>1, <2>2
  <1>5. Proper(q)
    <2> SUFFICES ASSUME NEW i \in 1..(n - 1), NEW m \in Mutexes
                 PROVE  /\ q[i] = <<"lock", m>> =>
                             /\ m \in Owed(q, i + 1)
                             /\ \A h \in Owed(q, i) : Rank(h) < Rank(m)
                        /\ q[i] = <<"unlock", m>> => m \notin Owed(q, i + 1)
      BY <1>2 DEF Proper
    <2>1. PICK j \in 1..n : j = i + 1
      OBVIOUS
    <2>2. /\ q[i] = p[j] /\ Owed(q, i) = Owed(p, j) /\ Owed(q, j) = Owed(p, j + 1)
      BY <1>2, <1>4, <2>1
    <2>3. /\ p[j] = <<"lock", m>> =>
               /\ m \in Owed(p, j + 1)
               /\ \A h \in Owed(p, j) : Rank(h) < Rank(m)
          /\ p[j] = <<"unlock", m>> => m \notin Owed(p, j + 1)
      BY <1>1 DEF Proper
    <2> QED
      BY <2>1, <2>2, <2>3
  <1>6. Owed(q, 1) = Owed(p, 2)
    BY <1>2, <1>4
  <1> QED
    BY <1>1, <1>2, <1>3, <1>5, <1>6 DEF q

\* A turn begins.
LEMMA BeginKeeps ==
  ASSUME ~Throttled, LocksIInv, NEW t \in Threads, Begin(t)
  PROVE  LocksIInv'
  <1>1. PICK turn \in Turns(t) : todo' = [todo EXCEPT ![t] = turn]
    BY DEF Begin
  <1>2. Fits(turn, 1) /\ Owed(<< >>, 1) = {}
    BY TurnsFit, FitsNothing DEF Fits
  <1>3. /\ turn \in Seq(Calls) /\ Proper(turn)
        /\ Owed(turn, 1) = Owed(todo[t], 1)
    BY <1>2 DEF Fits, Begin
  <1>4. /\ todo'[t] = turn
        /\ \A u \in Threads \ {t} : todo'[u] = todo[u]
        /\ todo' \in [Threads -> Seq(Calls)]
    BY <1>1, <1>3 DEF LocksIInv
  <1>5. \A u \in Threads : Owed(todo'[u], 1) = Owed(todo[u], 1) /\ Proper(todo'[u])
    BY <1>3, <1>4, Zenon DEF LocksIInv
  <1> QED
    BY <1>4, <1>5 DEF LocksIInv, Begin

\* A mutex is taken.
LEMMA LockKeeps ==
  ASSUME LocksIInv, NEW t \in Threads, NEW m \in Mutexes, Lock(t, m)
  PROVE  LocksIInv'
  <1> DEFINE p == todo[t]
  <1>1. p \in Seq(Calls) /\ p # << >> /\ Proper(p) /\ Head(p) = <<"lock", m>>
    BY DEF LocksIInv, Lock
  <1>2. /\ Tail(p) \in Seq(Calls) /\ Proper(Tail(p))
        /\ Owed(Tail(p), 1) = Owed(p, 2)
        /\ 1 \in 1..Len(p) /\ p[1] = <<"lock", m>>
    BY <1>1, OneCallDone
  <1>3. Owed(p, 1) = Owed(p, 1 + 1) \ {m} /\ m \in Owed(p, 1 + 1)
    BY <1>1, <1>2, OwedStep DEF Proper
  <1>4. Owed(Tail(p), 1) = Owed(p, 1) \cup {m}
    BY <1>2, <1>3
  <1>5. /\ todo'[t] = Tail(p)
        /\ \A u \in Threads \ {t} : todo'[u] = todo[u]
        /\ todo' \in [Threads -> Seq(Calls)]
    BY <1>2 DEF LocksIInv, Lock
  <1>6. /\ holder[m] = Free /\ holder'[m] = t
        /\ \A h \in Mutexes \ {m} : holder'[h] = holder[h]
        /\ holder' \in [Mutexes -> Threads \cup {Free}]
    BY DEF LocksIInv, Lock
  <1>7. ASSUME NEW u \in Threads PROVE Proper(todo'[u])
    <2>1. CASE u = t
      BY <1>2, <1>5, <2>1
    <2>2. CASE u # t
      <3>1. todo'[u] = todo[u] /\ Proper(todo[u])
        BY <1>5, <2>2 DEF LocksIInv
      <3> QED
        BY <3>1
    <2> QED
      BY <2>1, <2>2
  <1>8. ASSUME NEW h \in Mutexes, NEW u \in Threads
        PROVE  holder'[h] = u <=> h \in Owed(todo'[u], 1)
    <2>1. holder[h] = u <=> h \in Owed(todo[u], 1)
      BY DEF LocksIInv
    <2>2. CASE u = t
      BY <1>4, <1>5, <1>6, <2>1, <2>2
    <2>3. CASE u # t
      BY <1>5, <1>6, <2>1, <2>3
    <2> QED
      BY <2>2, <2>3
  <1> QED
    BY <1>5, <1>6, <1>7, <1>8 DEF LocksIInv

\* A mutex is given back, by the thread that holds it.
LEMMA UnlockKeeps ==
  ASSUME LocksIInv, NEW t \in Threads, NEW m \in Mutexes, Unlock(t, m)
  PROVE  holder[m] = t /\ LocksIInv'
  <1> DEFINE p == todo[t]
  <1>1. p \in Seq(Calls) /\ p # << >> /\ Proper(p) /\ Head(p) = <<"unlock", m>>
    BY DEF LocksIInv, Unlock
  <1>2. /\ Tail(p) \in Seq(Calls) /\ Proper(Tail(p))
        /\ Owed(Tail(p), 1) = Owed(p, 2)
        /\ 1 \in 1..Len(p) /\ p[1] = <<"unlock", m>>
    BY <1>1, OneCallDone
  <1>3. Owed(p, 1) = Owed(p, 1 + 1) \cup {m} /\ m \notin Owed(p, 1 + 1)
    BY <1>1, <1>2, OwedStep DEF Proper
  <1>4. Owed(Tail(p), 1) = Owed(p, 1) \ {m} /\ m \in Owed(p, 1)
    BY <1>2, <1>3
  <1>5. /\ todo'[t] = Tail(p)
        /\ \A u \in Threads \ {t} : todo'[u] = todo[u]
        /\ todo' \in [Threads -> Seq(Calls)]
    BY <1>2 DEF LocksIInv, Unlock
  <1>6. /\ holder[m] = t /\ holder'[m] = Free
        /\ \A h \in Mutexes \ {m} : holder'[h] = holder[h]
        /\ holder' \in [Mutexes -> Threads \cup {Free}]
    BY <1>4 DEF LocksIInv, Unlock
  <1>7. ASSUME NEW u \in Threads PROVE Proper(todo'[u])
    <2>1. CASE u = t
      BY <1>2, <1>5, <2>1
    <2>2. CASE u # t
      <3>1. todo'[u] = todo[u] /\ Proper(todo[u])
        BY <1>5, <2>2 DEF LocksIInv
      <3> QED
        BY <3>1
    <2> QED
      BY <2>1, <2>2
  <1>8. ASSUME NEW h \in Mutexes, NEW u \in Threads
        PROVE  holder'[h] = u <=> h \in Owed(todo'[u], 1)
    <2>1. holder[h] = u <=> h \in Owed(todo[u], 1)
      BY DEF LocksIInv
    <2>2. CASE u = t
      BY <1>4, <1>5, <1>6, <2>1, <2>2
    <2>3. CASE u # t
      BY <1>5, <1>6, <2>1, <2>3
    <2> QED
      BY <2>2, <2>3
  <1> QED
    BY <1>5, <1>6, <1>7, <1>8 DEF LocksIInv

\* The invariant holds from the start and survives every step.
LEMMA LocksInductive ==
  ASSUME ~Throttled
  PROVE  /\ Init => LocksIInv
         /\ LocksIInv /\ [Next]_lkvars => LocksIInv'
  <1>1. Init => LocksIInv
    <2> SUFFICES ASSUME Init PROVE LocksIInv
      OBVIOUS
    <2>1. << >> \in Seq(Calls) /\ Proper(<< >>) /\ Owed(<< >>, 1) = {}
      BY FitsNothing DEF Fits
    <2>2. \A t \in Threads : todo[t] = << >>
      BY DEF Init
    <2> QED
      BY <2>1, <2>2 DEF Init, LocksIInv
  <1>2. ASSUME LocksIInv, [Next]_lkvars PROVE LocksIInv'
    <2>1. CASE UNCHANGED lkvars
      BY <1>2, <2>1 DEF LocksIInv, lkvars
    <2>2. CASE Next
      <3>1. PICK t \in Threads : Begin(t) \/ Advance(t)
        BY <2>2 DEF Next
      <3>2. CASE Begin(t)
        BY <1>2, <3>2, BeginKeeps
      <3>3. CASE Advance(t)
        <4>1. PICK m \in Mutexes : Lock(t, m) \/ Unlock(t, m)
          BY <3>3 DEF Advance
        <4> QED
          BY <1>2, <4>1, LockKeeps, UnlockKeeps
      <3> QED
        BY <3>1, <3>2, <3>3
    <2> QED
      BY <1>2, <2>1, <2>2
  <1> QED
    BY <1>1, <1>2

\* A thread for which another waits, itself waits for a mutex of a higher rank.
LEMMA WaitsHigher ==
  ASSUME LocksIInv, NEW u \in Threads, NEW m \in Mutexes, NEW h \in Mutexes,
         holder[m] = u, todo[u] # << >>, Head(todo[u]) = <<"lock", h>>
  PROVE  Rank(m) < Rank(h)
  <1>1. todo[u] \in Seq(Calls) /\ Proper(todo[u]) /\ m \in Owed(todo[u], 1)
    BY DEF LocksIInv
  <1>2. 1 \in 1..Len(todo[u]) /\ todo[u][1] = <<"lock", h>>
    BY <1>1, OneCallDone
  <1> QED
    BY <1>1, <1>2 DEF Proper

\* In a set of threads that all wait for members of the set, no highest mutex
\* could be waited for.
LEMMA OrderForbidsCircles ==
  ASSUME LocksIInv
  PROVE  NoCircle
  <1> SUFFICES ASSUME NEW S \in (SUBSET Threads) \ {{}},
                      \A t \in S : \E u \in S : WaitsFor(t, u)
               PROVE  FALSE
    BY Zenon DEF NoCircle
  <1>0. S \subseteq Threads /\ S # {}
    OBVIOUS
  <1> DEFINE Below(k) ==
        \A t \in S, m \in Mutexes :
           todo[t] # << >> /\ Head(todo[t]) = <<"lock", m>> => Rank(m) < k
  <1>1. ASSUME NEW k \in 1..6, Below(k + 1) PROVE Below(k)
    <2> SUFFICES ASSUME NEW t \in S, NEW m \in Mutexes,
                        todo[t] # << >>, Head(todo[t]) = <<"lock", m>>
                 PROVE  Rank(m) < k
      OBVIOUS
    <2>1. PICK u \in S : WaitsFor(t, u)
      OBVIOUS
    <2> u \in Threads
      BY <1>0
    <2>2. holder[m] = u
      BY <2>1 DEF WaitsFor
    <2>3. PICK w \in S : WaitsFor(u, w)
      OBVIOUS
    <2>4. PICK h \in Mutexes : todo[u] # << >> /\ Head(todo[u]) = <<"lock", h>>
      BY <2>3 DEF WaitsFor
    <2>5. Rank(m) < Rank(h)
      BY <2>2, <2>4, WaitsHigher
    <2>6. Rank(h) < k + 1
      BY <1>1, <2>4
    <2> QED
      BY <2>5, <2>6, RankType
  <1>2. Below(6 + 1)
    BY RankType
  <1> HIDE DEF Below
  <1>3. Below(6) /\ Below(5) /\ Below(4) /\ Below(3) /\ Below(2) /\ Below(1)
    <2>1. Below(6)
      BY <1>1, <1>2
    <2>2. Below(5)
      BY <1>1, <2>1
    <2>3. Below(4)
      BY <1>1, <2>2
    <2>4. Below(3)
      BY <1>1, <2>3
    <2>5. Below(2)
      BY <1>1, <2>4
    <2>6. Below(1)
      BY <1>1, <2>5
    <2> QED
      BY <2>1, <2>2, <2>3, <2>4, <2>5, <2>6
  <1>4. PICK t \in S, m \in Mutexes : todo[t] # << >> /\ Head(todo[t]) = <<"lock", m>>
    <2>1. PICK t \in S : \E u \in S : WaitsFor(t, u)
      BY <1>0
    <2> QED
      BY <2>1 DEF WaitsFor
  <1> QED
    BY <1>3, <1>4, RankType DEF Below

\* However many dispatch threads there are and with or without a bucket for the
\* replay: while the buckets never run out of tokens, no threads wait for one
\* another in a circle.  (When they run out, tbf_fetch_token counts the wait
\* under the bucket's lock, and the run lock_circle shows the circle.)
THEOREM LocksOrdered == ~Throttled => (Spec => []NoCircle)
  <1> SUFFICES ASSUME ~Throttled PROVE Spec => []NoCircle
    OBVIOUS
  <1>1. Init => LocksIInv
    BY LocksInductive
  <1>2. LocksIInv /\ [Next]_lkvars => LocksIInv'
    BY LocksInductive
  <1>3. LocksIInv => NoCircle
    BY OrderForbidsCircles
  <1> QED
    BY <1>1, <1>2, <1>3, PTL DEF Spec

=============================================================================
