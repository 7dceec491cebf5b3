------------------------- MODULE CacheWriterProofs -------------------------
(***************************************************************************)
(* Theorems about CacheWriter for any frames and any number of crashes.    *)
(***************************************************************************)
EXTENDS CacheWriter, TLAPS

USE CacheAssumption

LEMMA AppendRange ==
  ASSUME NEW s \in Seq(Frames), NEW f \in Frames
  PROVE  /\ Append(s, f) \in Seq(Frames)
         /\ \A g \in Range(s) : g \in Range(Append(s, f))
         /\ f \in Range(Append(s, f))
  <1>1. /\ Append(s, f) \in Seq(Frames) /\ Len(Append(s, f)) = Len(s) + 1
        /\ \A i \in 1..Len(s) : Append(s, f)[i] = s[i]
        /\ Append(s, f)[Len(s) + 1] = f
    OBVIOUS
  <1>2. DOMAIN s = 1..Len(s) /\ DOMAIN Append(s, f) = 1..(Len(s) + 1)
    BY <1>1
  <1>3. ASSUME NEW g \in Range(s) PROVE g \in Range(Append(s, f))
    <2>1. PICK i \in 1..Len(s) : s[i] = g
      BY <1>2 DEF Range
    <2> QED
      BY <1>1, <1>2, <2>1 DEF Range
  <1>4. f \in Range(Append(s, f))
    BY <1>1, <1>2 DEF Range
  <1> QED
    BY <1>1, <1>3, <1>4

\* A write within or at the end of the file changes one place.
LEMMA WriteAtPlace ==
  ASSUME NEW s \in Seq(Frames), NEW i \in 0..Len(s), NEW f \in Frames
  PROVE  /\ WriteAt(s, i, f) \in Seq(Frames)
         /\ Len(WriteAt(s, i, f)) = IF i < Len(s) THEN Len(s) ELSE Len(s) + 1
         /\ WriteAt(s, i, f)[i + 1] = f
         /\ \A j \in 1..Len(s) : j # i + 1 => WriteAt(s, i, f)[j] = s[j]
  <1>1. CASE i < Len(s)
    BY <1>1 DEF WriteAt
  <1>2. CASE i = Len(s)
    BY <1>2 DEF WriteAt
  <1> QED
    BY <1>1, <1>2

-----------------------------------------------------------------------------
\* A replay runs only in an open cache, at the read cursor; appends go behind
\* it; and the cursor on disk is not ahead of it.
CursorsAgree ==
  /\ replay # "off" => open /\ offset = readCursor
  /\ open => readCursor <= offset
  /\ open /\ DefaultPath /\ saved >= 0 => saved <= readCursor

\* What lies before a cursor has been sent.
SentBefore ==
  /\ \A i \in 1..readCursor : open => file[i] \in Range(delivered)
  /\ \A i \in 1..saved : DefaultPath => file[i] \in Range(delivered)

\* The inductive invariant of SkippedWereSent.
CacheIInv == TypeOK /\ CursorsAgree /\ SentBefore

LEMMA InitCache == Init => CacheIInv
  <1> SUFFICES ASSUME Init PROVE CacheIInv
    OBVIOUS
  <1>1. file \in Seq(Frames) /\ delivered \in Seq(Frames) /\ Len(file) = 0
    <2>1. file = << >> /\ delivered = << >>
      BY DEF Init
    <2>2. << >> \in Seq(Frames) /\ Len(<< >>) = 0
      OBVIOUS
    <2> QED
      BY <2>1, <2>2
  <1>2. TypeOK
    <2>1. /\ saved = NoCursor /\ offset = 0 /\ readCursor = 0 /\ writeCursor = 0
          /\ replay = "off" /\ faults = 0
      BY DEF Init
    <2>2. open \in BOOLEAN /\ appended \subseteq Frames
      BY DEF Init
    <2>3. offset \in 0..Len(file) /\ readCursor \in 0..writeCursor /\ writeCursor \in Nat
      BY <1>1, <2>1
    <2>4. faults \in 0..MaxFaults
      BY <2>1, CacheAssumption
    <2> QED
      BY <1>1, <2>1, <2>2, <2>3, <2>4 DEF TypeOK
  <1>3. CursorsAgree
    <2>1. ~open /\ replay = "off"
      BY DEF Init
    <2> QED
      BY <2>1 DEF CursorsAgree
  <1>4. SentBefore
    <2>1. 1..readCursor = {} /\ 1..saved = {}
      BY DEF Init, NoCursor
    <2> QED
      BY <2>1 DEF SentBefore
  <1> QED
    BY <1>2, <1>3, <1>4 DEF CacheIInv

\* The cursor that open finds.
LEMMA LoadedCursor ==
  ASSUME TypeOK
  PROVE  /\ LoadCursor \in 0..Len(file)
         /\ LoadCursor = 0 \/ (DefaultPath /\ LoadCursor = saved)
         /\ DefaultPath /\ saved >= 0 => LoadCursor = saved
  BY DEF TypeOK, LoadCursor, NoCursor, Torn

LEMMA OpenKeeps ==
  ASSUME CacheIInv, CacheOpen
  PROVE  CacheIInv'
  <1> USE DEF CacheIInv, CacheOpen, disk
  <1>1. /\ LoadCursor \in 0..Len(file)
        /\ LoadCursor = 0 \/ (DefaultPath /\ LoadCursor = saved)
        /\ DefaultPath /\ saved >= 0 => LoadCursor = saved
    BY LoadedCursor
  <1>2. TypeOK'
    BY <1>1 DEF TypeOK
  <1>3. CursorsAgree'
    BY <1>1 DEF TypeOK, CursorsAgree
  <1>4. SentBefore'
    BY <1>1 DEF SentBefore, CursorsAgree
  <1> QED
    BY <1>2, <1>3, <1>4

LEMMA AppendKeeps ==
  ASSUME CacheIInv, NEW f \in Frames, CacheAppend(f)
  PROVE  CacheIInv'
  <1> USE DEF CacheIInv
  <1>1. /\ file \in Seq(Frames) /\ offset \in 0..Len(file) /\ readCursor <= offset
        /\ readCursor \in Nat /\ saved \in Int
        /\ DefaultPath /\ saved >= 0 => saved <= readCursor
    BY DEF TypeOK, CursorsAgree, CacheAppend, NoCursor, Torn
  <1>2. /\ file' \in Seq(Frames) /\ Len(file) <= Len(file') /\ offset' \in 0..Len(file')
        /\ \A j \in 1..offset : file'[j] = file[j]
    <2>1. file' = WriteAt(file, offset, f) /\ offset' = offset + 1
      BY DEF CacheAppend
    <2>2. /\ file' \in Seq(Frames)
          /\ Len(file') = IF offset < Len(file) THEN Len(file) ELSE Len(file) + 1
          /\ \A j \in 1..Len(file) : j # offset + 1 => file'[j] = file[j]
      BY <1>1, <2>1, WriteAtPlace
    <2>3. Len(file) \in Nat /\ offset \in Nat /\ offset <= Len(file)
      BY <1>1
    <2>4. Len(file) <= Len(file') /\ offset' \in 0..Len(file')
      BY <2>1, <2>2, <2>3
    <2>5. ASSUME NEW j \in 1..offset PROVE file'[j] = file[j]
      <3>1. j \in 1..Len(file) /\ j # offset + 1
        BY <2>3
      <3> QED
        BY <2>2, <3>1
    <2> QED
      BY <2>2, <2>4, <2>5
  <1>3. TypeOK'
    BY <1>1, <1>2 DEF TypeOK, CacheAppend
  <1>4. CursorsAgree'
    <2>1. /\ offset' = offset + 1 /\ readCursor' = readCursor /\ saved' = saved
          /\ replay' = "off"
      BY DEF CacheAppend
    <2>2. offset' \in Int /\ readCursor' <= offset'
      BY <1>1, <2>1
    <2>3. DefaultPath /\ saved' >= 0 => saved' <= readCursor'
      BY <1>1, <2>1
    <2> QED
      BY <2>1, <2>2, <2>3 DEF CursorsAgree
  <1>5. SentBefore'
    BY <1>1, <1>2 DEF SentBefore, CacheAppend, TypeOK, NoCursor, Torn
  <1> QED
    BY <1>3, <1>4, <1>5

LEMMA SendKeeps ==
  ASSUME CacheIInv, ReplaySend
  PROVE  CacheIInv'
  <1> USE DEF CacheIInv
  <1>1. /\ offset = readCursor /\ open /\ offset < Len(file) /\ offset \in Nat
        /\ file \in Seq(Frames) /\ delivered \in Seq(Frames)
    BY DEF TypeOK, CursorsAgree, ReplaySend
  <1>2. /\ delivered' \in Seq(Frames) /\ file[offset + 1] \in Range(delivered')
        /\ \A g \in Range(delivered) : g \in Range(delivered')
    BY <1>1, AppendRange DEF ReplaySend
  <1>3. TypeOK'
    BY <1>1, <1>2 DEF TypeOK, ReplaySend, disk
  <1>4. CursorsAgree'
    BY <1>1 DEF CursorsAgree, ReplaySend, disk, TypeOK, NoCursor, Torn
  <1>5. SentBefore'
    BY <1>1, <1>2 DEF SentBefore, ReplaySend, disk
  <1> QED
    BY <1>3, <1>4, <1>5

LEMMA OthersKeep ==
  ASSUME CacheIInv,
         \/ ReplayStart \/ ReplayEnd \/ ReplayFail \/ SaveTruncate \/ SaveWrite
         \/ SaveFails \/ CacheClose \/ Crash \/ UNCHANGED cvars
  PROVE  CacheIInv'
  <1> USE DEF CacheIInv, TypeOK, CursorsAgree, SentBefore, NoCursor, Torn, disk, cursors
  <1>1. CASE ReplayStart
    BY <1>1 DEF ReplayStart
  <1>2. CASE ReplayEnd \/ ReplayFail
    BY <1>2 DEF ReplayEnd, ReplayFail
  <1>3. CASE SaveTruncate
    BY <1>3 DEF SaveTruncate
  <1>4. CASE SaveWrite
    <2>1. open /\ offset = readCursor
      BY <1>4 DEF SaveWrite
    <2>2. readCursor \in 0..Len(file) /\ saved' = readCursor /\ replay' = "reading"
      BY <1>4, <2>1 DEF SaveWrite
    <2>3. UNCHANGED <<file, open, cursors, appended, delivered, faults>>
      BY <1>4 DEF SaveWrite
    <2>4. TypeOK'
      BY <2>2, <2>3
    <2>5. CursorsAgree'
      BY <2>1, <2>2, <2>3
    <2>6. SentBefore'
      BY <2>1, <2>2, <2>3
    <2> QED
      BY <2>4, <2>5, <2>6
  <1>5. CASE SaveFails
    BY <1>5 DEF SaveFails
  <1>6. CASE CacheClose \/ Crash
    <2>1. /\ open' = FALSE /\ replay' = "off" /\ faults' \in 0..MaxFaults
          /\ UNCHANGED <<disk, cursors, appended, delivered>>
      <3>1. CASE CacheClose
        BY <3>1 DEF CacheClose
      <3>2. CASE Crash
        BY <3>2 DEF Crash
      <3> QED
        BY <1>6, <3>1, <3>2
    <2>2. TypeOK'
      BY <2>1
    <2>3. CursorsAgree'
      BY <2>1
    <2>4. SentBefore'
      BY <2>1
    <2> QED
      BY <2>2, <2>3, <2>4
  <1>7. CASE UNCHANGED cvars
    BY <1>7 DEF cvars
  <1> QED
    BY <1>1, <1>2, <1>3, <1>4, <1>5, <1>6, <1>7

LEMMA CacheInvariant == Spec => []CacheIInv
  <1>1. CacheIInv /\ [Next]_cvars => CacheIInv'
    BY OpenKeeps, AppendKeeps, SendKeeps, OthersKeep DEF Next, CacheReplay
  <1> QED
    BY <1>1, InitCache, PTL DEF Spec

\* Cursors and offset stay within what they point into, over crashes, failed
\* saves and overwriting appends.
THEOREM CacheTyping == Spec => []TypeOK
  <1>1. CacheIInv => TypeOK
    BY DEF CacheIInv
  <1> QED
    BY <1>1, CacheInvariant, PTL

\* Whenever the process dies, what the next one skips has been sent
\* (cache_writer.c:142-146).
THEOREM SkippedSent == Spec => []SkippedWereSent
  <1>1. ASSUME CacheIInv PROVE SkippedWereSent
    <2>1. CASE LoadCursor = 0
      BY <2>1 DEF SkippedWereSent
    <2>2. CASE DefaultPath /\ LoadCursor = saved
      BY <1>1, <2>2 DEF CacheIInv, SentBefore, SkippedWereSent
    <2> QED
      BY <1>1, <2>1, <2>2, LoadedCursor DEF CacheIInv
  <1> QED
    BY <1>1, CacheInvariant, PTL

-----------------------------------------------------------------------------
\* A frame is in the file once.
FileOnce ==
  /\ \A i \in 1..Len(file) : file[i] \in appended
  /\ \A i, j \in 1..Len(file) : file[i] = file[j] => i = j

\* Without a fault, what was sent is the file up to the read cursor, and but
\* for a save that is going on the cursor on disk says the same.
SentIsPrefix ==
  faults = 0 =>
    /\ Len(delivered) <= Len(file)
    /\ \A i \in 1..Len(delivered) : delivered[i] = file[i]
    /\ open => readCursor = Len(delivered)
    /\ replay \in {"off", "reading"} => LoadCursor = Len(delivered)

RepeatIInv == CacheIInv /\ FileOnce /\ SentIsPrefix

LEMMA InitRepeat == Init => RepeatIInv
  <1> SUFFICES ASSUME Init PROVE RepeatIInv
    OBVIOUS
  <1>1. Len(file) = 0 /\ Len(delivered) = 0
    <2>1. file = << >> /\ delivered = << >> /\ Len(<< >>) = 0
      BY DEF Init
    <2> QED
      BY <2>1
  <1>2. FileOnce
    BY <1>1 DEF FileOnce
  <1>3. readCursor = 0 /\ LoadCursor = 0
    BY DEF Init, LoadCursor, NoCursor
  <1> QED
    BY <1>1, <1>2, <1>3, InitCache DEF RepeatIInv, SentIsPrefix

LEMMA AppendRepeat ==
  ASSUME RepeatIInv, NEW f \in Frames, CacheAppend(f)
  PROVE  FileOnce' /\ SentIsPrefix'
  <1> DEFINE n == Len(file)
  <1>1. /\ file \in Seq(Frames) /\ delivered \in Seq(Frames) /\ readCursor \in Nat
        /\ n \in Nat /\ offset \in 0..n /\ readCursor <= offset
    <2>1. open
      BY DEF CacheAppend
    <2> QED
      BY <2>1 DEF RepeatIInv, CacheIInv, TypeOK, CursorsAgree
  <1>2. /\ file' = WriteAt(file, offset, f) /\ appended' = appended \cup {f}
        /\ UNCHANGED <<saved, readCursor, delivered, faults, replay>>
        /\ open /\ replay = "off" /\ f \notin appended
    BY DEF CacheAppend
  <1>3. /\ Len(file') = IF offset < n THEN n ELSE n + 1
        /\ file'[offset + 1] = f
        /\ \A j \in 1..n : j # offset + 1 => file'[j] = file[j]
    BY <1>1, <1>2, WriteAtPlace
  <1>4. \A j \in 1..Len(file') : j = offset + 1 \/ (j \in 1..n /\ file'[j] = file[j])
    BY <1>1, <1>3
  <1>5. FileOnce'
    <2>1. \A j \in 1..n : file[j] \in appended /\ file[j] # f
      BY <1>2 DEF FileOnce, RepeatIInv
    <2>2. \A j \in 1..Len(file') : file'[j] \in appended'
      BY <1>2, <1>3, <1>4, <2>1
    <2>3. ASSUME NEW i \in 1..Len(file'), NEW j \in 1..Len(file'), file'[i] = file'[j]
          PROVE  i = j
      <3>1. CASE i = offset + 1
        BY <1>3, <1>4, <2>1, <2>3, <3>1
      <3>2. CASE j = offset + 1
        BY <1>3, <1>4, <2>1, <2>3, <3>2
      <3>3. CASE i # offset + 1 /\ j # offset + 1
        BY <1>4, <2>3, <3>3 DEF FileOnce, RepeatIInv
      <3> QED
        BY <3>1, <3>2, <3>3
    <2> QED
      BY <2>2, <2>3 DEF FileOnce
  <1>6. SentIsPrefix'
    <2> SUFFICES ASSUME faults' = 0 PROVE SentIsPrefix'
      BY DEF SentIsPrefix
    <2>1. /\ Len(delivered) <= n /\ readCursor = Len(delivered)
          /\ LoadCursor = Len(delivered)
          /\ \A i \in 1..Len(delivered) : delivered[i] = file[i]
      BY <1>2 DEF RepeatIInv, SentIsPrefix
    <2>2. LoadCursor' = LoadCursor
      BY <1>2 DEF LoadCursor
    <2>3. Len(delivered) \in Nat
      BY <1>1
    <2>4. Len(delivered) <= Len(file')
      BY <1>1, <1>3, <2>1, <2>3
    <2>5. ASSUME NEW i \in 1..Len(delivered) PROVE delivered[i] = file'[i]
      <3>1. i \in 1..n /\ i # offset + 1
        BY <1>1, <2>1, <2>3
      <3> QED
        BY <1>3, <2>1, <3>1
    <2> QED
      BY <1>2, <2>1, <2>2, <2>4, <2>5 DEF SentIsPrefix
  <1> QED
    BY <1>5, <1>6

LEMMA SendRepeat ==
  ASSUME RepeatIInv, ReplaySend
  PROVE  FileOnce' /\ SentIsPrefix'
  <1>1. /\ open /\ replay = "reading" /\ offset = readCursor /\ offset < Len(file)
        /\ file \in Seq(Frames) /\ delivered \in Seq(Frames) /\ offset \in Nat
    BY DEF RepeatIInv, CacheIInv, TypeOK, CursorsAgree, ReplaySend
  <1>2. /\ delivered' = Append(delivered, file[offset + 1])
        /\ readCursor' = readCursor + 1 /\ replay' = "saving"
        /\ UNCHANGED <<file, appended, faults>>
    BY DEF ReplaySend, disk
  <1>3. FileOnce'
    BY <1>2 DEF RepeatIInv, FileOnce
  <1>4. ASSUME faults' = 0 PROVE SentIsPrefix'
    <2>1. /\ readCursor = Len(delivered)
          /\ \A i \in 1..Len(delivered) : delivered[i] = file[i]
      BY <1>1, <1>2, <1>4 DEF RepeatIInv, SentIsPrefix
    <2>2. file[offset + 1] \in Frames
      BY <1>1
    <2>3. /\ Len(delivered') = Len(delivered) + 1
          /\ \A i \in 1..Len(delivered) : delivered'[i] = delivered[i]
          /\ delivered'[Len(delivered) + 1] = file[offset + 1]
      BY <1>1, <1>2, <2>2
    <2>4. Len(delivered) = offset
      BY <1>1, <2>1
    <2>5. Len(delivered') <= Len(file) /\ readCursor' = Len(delivered')
      BY <1>1, <1>2, <2>1, <2>3
    <2>6. ASSUME NEW i \in 1..Len(delivered') PROVE delivered'[i] = file[i]
      BY <1>1, <2>1, <2>3, <2>4
    <2>7. replay' \notin {"off", "reading"}
      BY <1>2
    <2> QED
      BY <1>2, <2>5, <2>6, <2>7 DEF SentIsPrefix
  <1> QED
    BY <1>3, <1>4 DEF SentIsPrefix

LEMMA QuietRepeat ==
  ASSUME RepeatIInv, UNCHANGED <<file, appended, delivered>>,
         faults' = 0 => faults = 0,
         faults' = 0 /\ open' => readCursor' = Len(delivered),
         faults' = 0 /\ replay' \in {"off", "reading"} => LoadCursor' = Len(delivered)
  PROVE  FileOnce' /\ SentIsPrefix'
  BY DEF RepeatIInv, FileOnce, SentIsPrefix

LEMMA OthersRepeat ==
  ASSUME RepeatIInv, DefaultPath,
         \/ CacheOpen \/ ReplayStart \/ ReplayEnd \/ ReplayFail \/ SaveTruncate
         \/ SaveWrite \/ SaveFails \/ CacheClose \/ Crash \/ UNCHANGED cvars
  PROVE  FileOnce' /\ SentIsPrefix'
  <1>1. /\ UNCHANGED <<file, appended, delivered>> /\ faults \in Nat
        /\ readCursor \in Nat
    BY DEF RepeatIInv, CacheIInv, TypeOK, CacheOpen, ReplayStart, ReplayEnd, ReplayFail,
           SaveTruncate, SaveWrite, SaveFails, CacheClose, Crash, cvars, disk
  <1>2. CASE CacheOpen
    <2>1. /\ replay' = replay /\ saved' = saved /\ faults' = faults
          /\ readCursor' = LoadCursor
      BY <1>2 DEF CacheOpen, disk
    <2>2. replay = "off"
      BY <1>2 DEF CacheOpen, RepeatIInv, CacheIInv, CursorsAgree
    <2>3. LoadCursor' = LoadCursor
      BY <2>1 DEF LoadCursor
    <2>4. faults' = 0 => LoadCursor = Len(delivered)
      BY <2>1, <2>2 DEF RepeatIInv, SentIsPrefix
    <2> QED
      BY <1>1, <2>1, <2>3, <2>4, QuietRepeat
  <1>3. CASE ReplayStart \/ ReplayEnd \/ ReplayFail \/ CacheClose
    <2>1. /\ replay \in {"off", "reading"} /\ (open' => open)
          /\ UNCHANGED <<saved, readCursor, faults>>
      BY <1>3 DEF ReplayStart, ReplayEnd, ReplayFail, CacheClose, disk, cursors
    <2>2. LoadCursor' = LoadCursor
      BY <2>1 DEF LoadCursor
    <2>3. ASSUME faults = 0 PROVE LoadCursor = Len(delivered)
      <3>1. replay \in {"off", "reading"} => LoadCursor = Len(delivered)
        BY <2>3 DEF RepeatIInv, SentIsPrefix
      <3> QED
        BY <2>1, <3>1, Zenon
    <2>4. faults = 0 /\ open => readCursor = Len(delivered)
      BY DEF RepeatIInv, SentIsPrefix
    <2>5. faults' = 0 => LoadCursor' = Len(delivered)
      BY <2>1, <2>2, <2>3
    <2>6. faults' = 0 /\ open' => readCursor' = Len(delivered)
      <3>1. faults' = faults /\ readCursor' = readCursor /\ (open' => open)
        BY <2>1
      <3> QED
        BY <2>4, <3>1, Zenon
    <2> QED
      BY <1>1, <2>1, <2>5, <2>6, QuietRepeat
  <1>4. CASE SaveTruncate
    <2>1. replay' = "writing" /\ UNCHANGED <<open, readCursor, faults>>
      BY <1>4 DEF SaveTruncate, cursors
    <2>2. faults = 0 /\ open => readCursor = Len(delivered)
      BY DEF RepeatIInv, SentIsPrefix
    <2>3. replay' \notin {"off", "reading"}
      BY <2>1
    <2> QED
      BY <1>1, <2>1, <2>2, <2>3, QuietRepeat
  <1>5. CASE SaveWrite
    <2>1. saved' = readCursor /\ UNCHANGED <<open, readCursor, faults>> /\ open
      BY <1>5 DEF SaveWrite, cursors, RepeatIInv, CacheIInv, CursorsAgree
    <2>2. faults = 0 => readCursor = Len(delivered)
      BY <2>1 DEF RepeatIInv, SentIsPrefix
    <2>3. LoadCursor' = readCursor
      BY <1>1, <2>1 DEF LoadCursor
    <2> QED
      BY <1>1, <2>1, <2>2, <2>3, QuietRepeat
  <1>6. CASE SaveFails \/ Crash
    <2>1. faults' = faults + 1
      BY <1>6 DEF SaveFails, Crash
    <2>2. faults' # 0
      BY <1>1, <2>1
    <2> QED
      BY <1>1, <2>2, QuietRepeat
  <1>7. CASE UNCHANGED cvars
    BY <1>7 DEF cvars, disk, cursors, RepeatIInv, FileOnce, SentIsPrefix, LoadCursor
  <1> QED
    BY <1>2, <1>3, <1>4, <1>5, <1>6, <1>7

\* Where the cursor is saved beside the file it belongs to, no frame goes out
\* twice for as long as no process dies and every save succeeds, over any number
\* of interrupted replays and restarts ("no repetition", cache_writer.c:2).
THEOREM NeverTwice ==
  ASSUME DefaultPath
  PROVE  Spec => []NoRepeatWithoutFault
  <1>1. RepeatIInv /\ [Next]_cvars => RepeatIInv'
    <2> SUFFICES ASSUME RepeatIInv, [Next]_cvars PROVE RepeatIInv'
      OBVIOUS
    <2>1. CacheIInv'
      BY OpenKeeps, AppendKeeps, SendKeeps, OthersKeep DEF RepeatIInv, Next, CacheReplay
    <2>2. FileOnce' /\ SentIsPrefix'
      BY AppendRepeat, SendRepeat, OthersRepeat DEF Next, CacheReplay
    <2> QED
      BY <2>1, <2>2 DEF RepeatIInv
  <1>2. RepeatIInv => NoRepeatWithoutFault
    <2> SUFFICES ASSUME RepeatIInv, faults = 0 PROVE IsInjective(delivered)
      BY DEF NoRepeatWithoutFault
    <2>1. /\ delivered \in Seq(Frames) /\ file \in Seq(Frames)
          /\ Len(delivered) <= Len(file)
          /\ \A i \in 1..Len(delivered) : delivered[i] = file[i]
      BY DEF RepeatIInv, CacheIInv, TypeOK, SentIsPrefix
    <2>2. DOMAIN delivered = 1..Len(delivered) /\ 1..Len(delivered) \subseteq 1..Len(file)
      BY <2>1
    <2> QED
      BY <2>1, <2>2 DEF IsInjective, RepeatIInv, FileOnce
  <1> QED
    BY <1>1, <1>2, InitRepeat, PTL DEF Spec

=============================================================================
