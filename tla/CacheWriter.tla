---------------------------- MODULE CacheWriter ----------------------------
(***************************************************************************)
(* The store-and-forward cache of egress/cache_writer.c: a file of frames  *)
(* with a write cursor (its end), a read cursor (what was replayed), and a *)
(* copy of the read cursor in a second file, so that a restart goes on     *)
(* where the last process stopped.                                         *)
(*                                                                         *)
(* Offsets are counted in frames.  The file and the cursor file survive a  *)
(* crash of the process.  cache_lock makes an append one step and keeps    *)
(* appends out of a replay; a replay is one step per frame and per write   *)
(* of the cursor, because the process can die between them.                *)
(***************************************************************************)
EXTENDS Integers, Sequences, SequencesExt

CONSTANTS
  Frames,       \* the frames that are cached, each of them once
  RetryBucket,  \* g_retry_bucket != NULL
  DefaultPath,  \* the cache is at ./cache.dat, where save_cursor writes
  MaxFaults     \* bound on crashes and failed saves

NoCursor == -1  \* there is no cursor file
Torn     == -2  \* fopen truncated it and nothing was written yet

ASSUME CacheAssumption ==
  /\ RetryBucket \in BOOLEAN
  /\ DefaultPath \in BOOLEAN
  /\ MaxFaults \in Nat

VARIABLES
  file,         \* the contents of the cache file
  saved,        \* the contents of the cursor file
  open,         \* cache_fd >= 0
  offset,       \* file offset of cache_fd, which read and write share
  readCursor,
  writeCursor,
  replay,       \* where cache_replay_start is
  appended,     \* history: frames cache_writer_append returned IOT_OK for
  delivered,    \* history: frames sent by replays, in order
  faults        \* history: crashes and failed saves

disk == <<file, saved>>
cursors == <<offset, readCursor, writeCursor>>
cvars == <<disk, open, cursors, replay, appended, delivered, faults>>

TypeOK ==
  /\ file \in Seq(Frames)
  /\ saved \in {NoCursor, Torn} \cup 0..Len(file)
  /\ open \in BOOLEAN
  /\ offset \in 0..Len(file)
  /\ readCursor \in 0..writeCursor
  /\ writeCursor \in Nat
  /\ replay \in {"off", "reading", "saving", "writing"}
  /\ appended \subseteq Frames
  /\ delivered \in Seq(Frames)
  /\ faults \in 0..MaxFaults

Init ==
  /\ file = << >>
  /\ saved = NoCursor
  /\ open = FALSE
  /\ offset = 0
  /\ readCursor = 0
  /\ writeCursor = 0
  /\ replay = "off"
  /\ appended = {}
  /\ delivered = << >>
  /\ faults = 0

-----------------------------------------------------------------------------
\* load_cursor looks beside the cache file, save_cursor writes beside
\* ./cache.dat.  A missing or short cursor file means 0.
LoadCursor == IF DefaultPath /\ saved \in Nat THEN saved ELSE 0

\* write() at the offset: the file is not opened with O_APPEND.
WriteAt(s, i, f) ==
  IF i < Len(s) THEN [s EXCEPT ![i + 1] = f] ELSE Append(s, f)

\* Bug: the write cursor starts at 0, as if the file were new.
CacheOpenForgets ==
  /\ ~open
  /\ open' = TRUE
  /\ offset' = Len(file)
  /\ writeCursor' = 0
  /\ readCursor' = LoadCursor
  /\ UNCHANGED <<disk, replay, appended, delivered, faults>>

CacheOpen ==
  /\ ~open
  /\ open' = TRUE
  /\ offset' = Len(file)
  /\ writeCursor' = Len(file)
  /\ readCursor' = LoadCursor
  /\ UNCHANGED <<disk, replay, appended, delivered, faults>>

CacheAppend(f) ==
  /\ open
  /\ replay = "off"
  /\ f \notin appended
  /\ file' = WriteAt(file, offset, f)
  /\ offset' = offset + 1
  /\ writeCursor' = writeCursor + 1
  /\ appended' = appended \cup {f}
  /\ UNCHANGED <<saved, open, readCursor, replay, delivered, faults>>

\* Bug: lseek to the start of the file.
ReplayStartRewinds ==
  /\ open
  /\ replay = "off"
  /\ readCursor < writeCursor
  /\ offset' = 0
  /\ replay' = "reading"
  /\ UNCHANGED <<disk, open, readCursor, writeCursor, appended, delivered, faults>>

\* cache_replay_start: nothing pending returns at once, otherwise lseek.
ReplayStart ==
  /\ open
  /\ replay = "off"
  /\ readCursor < writeCursor
  /\ offset' = readCursor
  /\ replay' = "reading"
  /\ UNCHANGED <<disk, open, readCursor, writeCursor, appended, delivered, faults>>

\* Bug: only the cursors end the loop, a short read does not.
ReplayEndByCursor ==
  /\ replay = "reading"
  /\ readCursor >= writeCursor
  /\ replay' = "off"
  /\ UNCHANGED <<disk, open, cursors, appended, delivered, faults>>

\* while (read_cursor < write_cursor) ends, or the read comes back short.
ReplayEnd ==
  /\ replay = "reading"
  /\ readCursor >= writeCursor \/ offset >= Len(file)
  /\ replay' = "off"
  /\ UNCHANGED <<disk, open, cursors, appended, delivered, faults>>

\* The next frame is read and sent: the cursor passes it ...
ReplaySend ==
  /\ replay = "reading"
  /\ readCursor < writeCursor
  /\ offset < Len(file)
  /\ RetryBucket
  /\ delivered' = Append(delivered, file[offset + 1])
  /\ offset' = offset + 1
  /\ readCursor' = readCursor + 1
  /\ replay' = "saving"
  /\ UNCHANGED <<disk, open, writeCursor, appended, faults>>

\* Bug: the cursor passes a frame whether it was sent or not.
ReplayFailAdvances ==
  /\ replay = "reading"
  /\ readCursor < writeCursor
  /\ offset < Len(file)
  /\ offset' = offset + 1
  /\ readCursor' = readCursor + 1
  /\ replay' = "saving"
  /\ UNCHANGED <<disk, open, writeCursor, appended, delivered, faults>>

\* ... or read and not sent: the cursor stays, the offset does not.
ReplayFail ==
  /\ replay = "reading"
  /\ readCursor < writeCursor
  /\ offset < Len(file)
  /\ offset' = offset + 1
  /\ replay' = "off"
  /\ UNCHANGED <<disk, open, readCursor, writeCursor, appended, delivered, faults>>

\* save_cursor: fopen(..., "wb") truncates, then the cursor is written.
SaveTruncate ==
  /\ replay = "saving"
  /\ saved' = Torn
  /\ replay' = "writing"
  /\ UNCHANGED <<file, open, cursors, appended, delivered, faults>>

SaveWrite ==
  /\ replay = "writing"
  /\ saved' = readCursor
  /\ replay' = "reading"
  /\ UNCHANGED <<file, open, cursors, appended, delivered, faults>>

\* fopen or fwrite fails: nobody looks at the result of save_cursor.
SaveFails ==
  /\ replay \in {"saving", "writing"}
  /\ faults < MaxFaults
  /\ faults' = faults + 1
  /\ replay' = "reading"
  /\ UNCHANGED <<disk, open, cursors, appended, delivered>>

CacheClose ==
  /\ open
  /\ replay = "off"
  /\ open' = FALSE
  /\ UNCHANGED <<disk, cursors, replay, appended, delivered, faults>>

Crash ==
  /\ open
  /\ faults < MaxFaults
  /\ faults' = faults + 1
  /\ open' = FALSE
  /\ replay' = "off"
  /\ UNCHANGED <<disk, cursors, appended, delivered>>

-----------------------------------------------------------------------------
CacheReplay ==
  \/ ReplayEnd \/ ReplaySend \/ ReplayFail
  \/ SaveTruncate \/ SaveWrite \/ SaveFails

Next ==
  \/ CacheOpen
  \/ \E f \in Frames : CacheAppend(f)
  \/ ReplayStart
  \/ CacheReplay
  \/ CacheClose
  \/ Crash

Spec == Init /\ [][Next]_cvars

\* A replay that started goes on.
FairSpec == Spec /\ WF_cvars(CacheReplay)

-----------------------------------------------------------------------------
(* Properties.                                                              *)

\* What a restart would skip has been sent: the cursor on disk never gets
\* ahead of the frames, whenever the process dies, and appends after a failed
\* replay never touch what lies before it.
SkippedWereSent ==
  \A i \in 1..LoadCursor : file[i] \in Range(delivered)

\* As long as no process died and no cursor was lost, no frame goes out twice,
\* over any number of interrupted replays and regular restarts.
NoRepeatWithoutFault == faults = 0 => IsInjective(delivered)

\* A replay ends, and releases the lock the workers' appends wait for, also
\* when the cursors promise more than the file holds.
ReplayEnds == (replay # "off") ~> (replay = "off")

\* What was appended was replayed or still is to be: "no repetition, no loss"
\* (cache_writer.c:2).
NothingLost ==
  open => \A f \in appended :
            \/ f \in Range(delivered)
            \/ \E i \in (readCursor + 1)..Len(file) : file[i] = f

=============================================================================
