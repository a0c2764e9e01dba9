----------------------------- MODULE RouterStream -----------------------------
(***************************************************************************)
(* The router stream with its directory (src/src/router/stream.rs): the    *)
(* disk thread writes the records of StreamLog to segments and saves the   *)
(* cursors in state.json; a restart recovers from what it finds there.     *)
(*                                                                         *)
(* The disk thread works outside the lock: placing a record, opening a new *)
(* segment for it and writing it are steps of their own, and so are        *)
(* trimming, saving the state and deleting segments.  The senders and a    *)
(* crash may come between any two of them.                                 *)
(*                                                                         *)
(* A segment is named by its first seq.  Its size limit is abstracted:     *)
(* any segment with a record may be full.  The Vec of segments is in the   *)
(* order of their names, as the directory is at a restart: it is so while  *)
(* SegmentsInOrder holds.  state.json is rewritten by temp file and rename *)
(* without an fsync, so a power cut may leave an unreadable one (an older  *)
(* one comes with the older directory of an earlier power cut: the file    *)
(* system journals its names in order).                                    *)
(***************************************************************************)
EXTENDS StreamLog

CONSTANTS
    MaxRestarts,        \* bound: restarts of the router
    MaxDiskErrors,      \* bound: writes, syncs and saves that fail
    PowerCuts           \* whether a restart may follow a power cut

ASSUME DiskAssumption ==
    /\ MaxRestarts \in Nat /\ MaxDiskErrors \in Nat
    /\ PowerCuts \in BOOLEAN

VARIABLES
    has_disk,           \* Disk is Some: the directory could be used at the start
    disk,               \* what decodes from the segment files: seq -> [rec, epoch, segment, synced]
    segments,           \* Disk.segments: first seq (the file's name) -> last_seq
    torn,               \* segments that end in a partial write
    current,            \* the segment open for appending, or 0
    last_written_seq,
    dirty,
    fsynced_seq,
    state,              \* state.json as the file system shows it, or NoState
    durable_state,      \* state.json as a power cut would leave it
    last_saved,         \* the state this process saved last, or NoState
    epoch,
    epochs,             \* history: how many epochs were drawn
    disk_pc,            \* where the disk thread is in its loop
    work,               \* the disk thread's locals across an unlock
    errors,
    restarts,
    written,            \* history: records whose write succeeded and no power cut took away
    orderly             \* history: no restart came back to a next seq below a segment's name

segVars == <<disk, segments, torn, current>>
stateVars == <<state, durable_state, last_saved>>
diskVars == <<has_disk, segVars, last_written_seq, dirty, fsynced_seq, stateVars,
              epoch, epochs, disk_pc, work, errors, restarts, written, orderly>>
vars == <<logVars, diskVars>>

NoState == [epoch |-> 0]

NoWork == [seq |-> 0]

DiskError == errors < MaxDiskErrors /\ errors' = errors + 1

----------------------------------------------------------------------------
(* take_incoming: under the lock, then Disk::append outside it. *)

PlaceRecord(subject, size) ==
    /\ disk_pc = "idle"
    /\ TakeIncoming(subject, size)
    /\ IF has_disk /\ next_seq' # next_seq
       THEN /\ disk_pc' = "write"
            /\ work' = [seq |-> next_seq, rec |-> records'[next_seq]]
       ELSE UNCHANGED <<disk_pc, work>>
    /\ UNCHANGED <<has_disk, segVars, last_written_seq, dirty, fsynced_seq, stateVars,
                   epoch, epochs, errors, restarts, written, orderly>>

SyncSegment(segment) ==
    [q \in DOMAIN disk |-> IF disk[q].segment = segment THEN [disk[q] EXCEPT !.synced = TRUE]
                                                        ELSE disk[q]]

\* A record written behind a tear does not decode.
WriteTo(onDisk, segment) ==
    IF segment \in torn THEN onDisk
    ELSE [q \in DOMAIN onDisk \cup {work.seq} |->
            IF q = work.seq THEN [rec |-> work.rec, epoch |-> epoch, segment |-> segment, synced |-> FALSE]
                            ELSE onDisk[q]]

WithSegment(segment) ==
    [f \in DOMAIN segments \cup {segment} |-> IF f = segment THEN work.seq ELSE segments[f]]

\* A new segment is due when none is open or the open one is full, never an empty one.
MayRoll == current = 0 \/ \E q \in DOMAIN disk : disk[q].segment = current

\* The full segment is synced and the next one created, empty still.
Roll ==
    /\ disk_pc = "write"
    /\ MayRoll
    /\ disk' = SyncSegment(current)
    /\ segments' = WithSegment(work.seq)
    /\ current' = work.seq
    /\ disk_pc' = "append"
    /\ UNCHANGED <<logVars, has_disk, torn, last_written_seq, dirty, fsynced_seq, stateVars,
                   epoch, epochs, work, errors, restarts, written, orderly>>

AppendEnds ==
    /\ disk_pc' = "idle"
    /\ work' = NoWork
    /\ UNCHANGED <<logVars, has_disk, fsynced_seq, stateVars, epoch, epochs, restarts, orderly>>

\* The sync of the full segment, or the creation of the next one, fails.
RollFails(synced) ==
    /\ disk_pc = "write"
    /\ MayRoll
    /\ synced => current # 0
    /\ disk' = IF synced THEN SyncSegment(current) ELSE disk
    /\ current' = 0
    /\ DiskError
    /\ UNCHANGED <<segments, torn, last_written_seq, dirty, written>>
    /\ AppendEnds

Appending == disk_pc = "append" \/ (disk_pc = "write" /\ current # 0)

WriteRecord ==
    /\ Appending
    /\ disk' = WriteTo(disk, current)
    /\ segments' = WithSegment(current)
    /\ last_written_seq' = work.seq
    /\ dirty' = TRUE
    /\ written' = written \cup {[epoch |-> epoch, seq |-> work.seq, rec |-> work.rec]}
    /\ UNCHANGED <<torn, current, errors>>
    /\ AppendEnds

\* Mutant: the torn segment stays open.
StillOpen == current

\* The write itself fails and may leave a tear; the next record starts a new segment.
AfterFailedWrite == 0

WriteFails ==
    /\ Appending
    /\ torn' = torn \cup {current}
    /\ current' = AfterFailedWrite
    /\ DiskError
    /\ UNCHANGED <<disk, segments, last_written_seq, dirty, written>>
    /\ AppendEnds

----------------------------------------------------------------------------
(* The fsync and the housekeeping of run_disk. *)

Fsync ==
    /\ disk_pc = "idle" /\ has_disk /\ dirty
    /\ disk' = SyncSegment(current)
    /\ dirty' = FALSE
    /\ fsynced_seq' = last_written_seq
    /\ UNCHANGED <<logVars, has_disk, segments, torn, current, last_written_seq, stateVars,
                   epoch, epochs, disk_pc, work, errors, restarts, written, orderly>>

FsyncFails ==
    /\ disk_pc = "idle" /\ has_disk /\ dirty /\ current # 0
    /\ DiskError
    /\ UNCHANGED <<logVars, has_disk, segVars, last_written_seq, dirty, fsynced_seq, stateVars,
                   epoch, epochs, disk_pc, work, restarts, written, orderly>>

SavedCursor(s) == Min({cursor[s], fsynced_seq})

\* Under the lock: trim, and copy what will be saved.
HousekeepingTrim ==
    /\ disk_pc = "idle"
    /\ Trim
    /\ IF has_disk
       THEN /\ disk_pc' = "save"
            /\ work' = [keep_from |-> Min(DOMAIN records' \cup {next_seq}),
                        nothing_left |-> DOMAIN records' = {},
                        state |-> [epoch |-> epoch, next_seq |-> next_seq,
                                   cursors |-> [s \in Sinks |-> SavedCursor(s)]]]
       ELSE UNCHANGED <<disk_pc, work>>
    /\ UNCHANGED <<has_disk, segVars, last_written_seq, dirty, fsynced_seq, stateVars,
                   epoch, epochs, errors, restarts, written, orderly>>

\* Nothing is written when nothing changed since this process saved last.
SaveState ==
    /\ disk_pc = "save"
    /\ IF last_saved = work.state
       THEN UNCHANGED <<state, durable_state>>
       ELSE /\ state' = work.state
            /\ durable_state' \in IF PowerCuts THEN {work.state, NoState} ELSE {work.state}
    /\ last_saved' = work.state
    /\ disk_pc' = "trim"
    /\ UNCHANGED <<logVars, has_disk, segVars, last_written_seq, dirty, fsynced_seq, epoch, epochs,
                   work, errors, restarts, written, orderly>>

\* Mutant: the segments go even when the state was not saved.
DeletesAllUnsaved(saved) == work.nothing_left

DeletesAll(saved) == work.nothing_left /\ saved

SaveStateFails ==
    /\ disk_pc = "save"
    /\ last_saved # work.state
    /\ DiskError
    /\ disk_pc' = "trim"
    /\ work' = [work EXCEPT !.nothing_left = DeletesAll(FALSE)]
    /\ UNCHANGED <<logVars, has_disk, segVars, last_written_seq, dirty, fsynced_seq, stateVars,
                   epoch, epochs, restarts, written, orderly>>

\* Mutant: off by one.
DeletableTooFar(keep_from) ==
    {f \in DOMAIN segments :
        /\ \E g \in DOMAIN segments : g > f
        /\ \A g \in DOMAIN segments : g <= f => segments[g] <= keep_from}

\* The leading segments whose records are all below keep_from; never the newest.
Deletable(keep_from) ==
    {f \in DOMAIN segments :
        /\ \E g \in DOMAIN segments : g > f
        /\ \A g \in DOMAIN segments : g <= f => segments[g] < keep_from}

\* Mutant: the newest segment is never deleted.
DeletedLeading == Deletable(work.keep_from)

Deleted == IF work.nothing_left THEN DOMAIN segments ELSE Deletable(work.keep_from)

DiskTrim ==
    /\ disk_pc = "trim"
    /\ disk' = Only(disk, {q \in DOMAIN disk : disk[q].segment \notin Deleted})
    /\ segments' = Only(segments, DOMAIN segments \ Deleted)
    /\ torn' = torn \ Deleted
    /\ current' = IF work.nothing_left THEN 0 ELSE current
    /\ dirty' = (dirty /\ ~work.nothing_left)
    /\ disk_pc' = "idle"
    /\ work' = NoWork
    /\ UNCHANGED <<logVars, has_disk, last_written_seq, fsynced_seq, stateVars,
                   epoch, epochs, errors, restarts, written, orderly>>

----------------------------------------------------------------------------
(* A restart: recover and open. *)

\* What a power cut may take away: of each segment, an end that was not synced.
LosablePrefixes ==
    {out \in SUBSET {q \in DOMAIN disk : ~disk[q].synced} :
        \A p \in out, q \in DOMAIN disk :
            q > p /\ disk[q].segment = disk[p].segment => q \in out}

LastOnDisk(d) == Max({0} \cup DOMAIN d)

\* Mutant: recovery reuses the last seq on disk.
NextSeqOffByOne(d, st) ==
    Max({1, LastOnDisk(d)} \cup (IF st = NoState THEN {} ELSE {st.next_seq}))

RecoveredNextSeq(d, st) ==
    Max({1, LastOnDisk(d) + 1} \cup (IF st = NoState THEN {} ELSE {st.next_seq}))

RecoveredCursor(d, st, s) == IF st = NoState THEN 0 ELSE Min({st.cursors[s], LastOnDisk(d)})

SegmentEnd(d, f) == Max({f} \cup {q \in DOMAIN d : d[q].segment = f})

\* The log `open` starts with, before its trim: found records, next seq and cursors.
Opened(found, next, cur) ==
    LET mine(s) == {q \in DOMAIN found : s \in SinksFor(found[q].subject) /\ q > cur[s]}
        done(q) == \A s \in SinksFor(found[q].subject) : cur[s] >= q \/ found[q].id \in aged
        out == {q \in DOMAIN found : \A p \in DOMAIN found : p <= q => done(p)}
        isUsage(q) == found[q].subject = "storage.usage"
    IN  /\ records' = Only(found, DOMAIN found \ out)
        /\ turn_bytes' = Bytes(TurnsOf(Only(found, DOMAIN found \ out)))
        /\ node_bytes' = Bytes(NodesOf(Only(found, DOMAIN found \ out)))
        /\ next_seq' = next
        /\ cursor' = cur
        /\ in_flight_up_to' = [s \in Sinks |-> 0]
        /\ delivered' = [s \in Sinks |-> 0]
        /\ expired' = [s \in Sinks |-> Cardinality(mine(s) \cap out)]
        /\ oversize' = [s \in Sinks |-> 0]
        /\ usage_lost' = Cardinality({q \in mine("SY.storage") \cap out : isUsage(q)})
        /\ batch' = [s \in Sinks |-> NoBatch]
        /\ lost' = [s \in Sinks |-> lost[s] \cup {found[q].id : q \in mine(s) \cap out}]
        /\ owed' = [s \in Sinks |-> Cardinality(mine(s))]
        /\ usage' = [owed |-> Cardinality({q \in mine("SY.storage") : isUsage(q)}), taken |-> 0]
        /\ UNCHANGED <<aged, offered, taken>>

\* "Only this thread writes, so the disk keeps the seq order": no segment is named
\* above the next seq, so the names sort the files as their records' seqs do.  It
\* fails when a restart comes back to a next seq below an empty segment's name.
SegmentsInOrder == has_disk => \A f \in DOMAIN segments : f <= next_seq

MayStop == restarts < MaxRestarts

Started ==
    /\ dirty' = FALSE
    /\ disk_pc' = "idle"
    /\ work' = NoWork
    /\ restarts' = restarts + 1
    /\ fsynced_seq' = next_seq' - 1
    /\ last_saved' = NoState
    /\ orderly' = (orderly /\ SegmentsInOrder')
    /\ UNCHANGED durable_state

\* The process stops (and the power may fail), and `open` finds d and st.
RestartFrom(out, st) ==
    LET d == Only(disk, DOMAIN disk \ out)
        newest == Max({0} \cup DOMAIN segments)
    IN  /\ Opened([q \in DOMAIN d |-> d[q].rec], RecoveredNextSeq(d, st),
                  [s \in Sinks |-> RecoveredCursor(d, st, s)])
        /\ disk' = d
        /\ segments' = [f \in DOMAIN segments |-> SegmentEnd(d, f)]
        /\ torn' = (torn \cup {disk[q].segment : q \in out}) \ {newest}
        /\ current' = newest
        /\ last_written_seq' = LastOnDisk(d)
        /\ has_disk' = TRUE
        /\ state' = st
        /\ epoch' = IF st = NoState THEN epochs + 1 ELSE st.epoch
        /\ epochs' = IF st = NoState THEN epochs + 1 ELSE epochs
        /\ written' = written \ {[epoch |-> disk[q].epoch, seq |-> q, rec |-> disk[q].rec] : q \in out}
        /\ UNCHANGED errors
        /\ Started

Restart == MayStop /\ RestartFrom({}, state)

RestartAfterPowerCut ==
    /\ PowerCuts
    /\ MayStop
    /\ \E out \in LosablePrefixes : RestartFrom(out, durable_state)

\* `recover` fails: the stream keeps its records in memory only.
RestartWithoutDisk ==
    /\ MayStop
    /\ DiskError
    /\ Opened(NoRecords, 1, [s \in Sinks |-> 0])
    /\ has_disk' = FALSE
    /\ epoch' = epochs + 1
    /\ epochs' = epochs + 1
    /\ last_written_seq' = 0
    /\ UNCHANGED <<segVars, state, written>>
    /\ Started

----------------------------------------------------------------------------

LogStep ==
    /\ \/ \E s \in Sinks : SinkStep(s)
       \/ \E q \in DOMAIN records : Age(q)
    /\ UNCHANGED diskVars

Init ==
    /\ LogInit
    /\ has_disk = TRUE
    /\ disk = NoRecords
    /\ segments = NoRecords
    /\ torn = {}
    /\ current = 0
    /\ last_written_seq = 0
    /\ dirty = FALSE
    /\ fsynced_seq = 0
    /\ state = NoState
    /\ durable_state = NoState
    /\ last_saved = NoState
    /\ epoch = 1
    /\ epochs = 1
    /\ disk_pc = "idle"
    /\ work = NoWork
    /\ errors = 0
    /\ restarts = 0
    /\ written = {}
    /\ orderly = TRUE

AppendStep ==
    \/ Roll
    \/ \E synced \in BOOLEAN : RollFails(synced)
    \/ WriteRecord
    \/ WriteFails

DiskStep ==
    \/ \E subject \in Appended, size \in Sizes : PlaceRecord(subject, size)
    \/ AppendStep
    \/ Fsync
    \/ FsyncFails
    \/ HousekeepingTrim
    \/ SaveState
    \/ SaveStateFails
    \/ DiskTrim

AnyRestart == Restart \/ RestartAfterPowerCut \/ RestartWithoutDisk

Next == LogStep \/ DiskStep \/ AnyRestart

Spec == Init /\ [][Next]_vars

\* The disk thread's loop never blocks: it waits for a record at most 250 ms and
\* each of its steps ends.  A sender's call ends within STREAM_ACK_TIMEOUT_SECS
\* and the sender plans again at least once a second; the clock moves.  No sink
\* is assumed to answer.
Fairness ==
    /\ WF_vars(AppendStep)
    /\ WF_vars(Fsync \/ FsyncFails)
    /\ WF_vars(HousekeepingTrim)
    /\ WF_vars(SaveState \/ SaveStateFails)
    /\ WF_vars(DiskTrim)
    /\ \A s \in Sinks : /\ WF_vars(PlanBatch(s) /\ UNCHANGED diskVars)
                        /\ WF_vars(BatchResolved(s) /\ UNCHANGED diskVars)
    /\ WF_vars((\E q \in DOMAIN records : Age(q)) /\ UNCHANGED diskVars)

FairSpec == Spec /\ Fairness

----------------------------------------------------------------------------
(* Properties. *)

OnDisk(w) == \E q \in DOMAIN disk : disk[q].rec = w.rec

Typed ==
    /\ LogTypeOK
    /\ has_disk \in BOOLEAN
    /\ DOMAIN disk \subseteq Nat \ {0}
    /\ \A q \in DOMAIN disk :
          disk[q] \in [rec : Records, epoch : Nat, segment : DOMAIN segments, synced : BOOLEAN]
    /\ DOMAIN segments \subseteq Nat \ {0}
    /\ \A f \in DOMAIN segments : segments[f] \in Nat
    /\ torn \subseteq DOMAIN segments
    /\ current \in DOMAIN segments \cup {0}
    /\ last_written_seq \in Nat /\ fsynced_seq \in Nat
    /\ dirty \in BOOLEAN
    /\ epoch \in 1..epochs
    /\ disk_pc \in {"idle", "write", "append", "save", "trim"}

\* The type invariant of the disk thread: as long as the segments stay in order, the
\* open one and the torn ones are among them, and so is the one of each record.
TypeOK == orderly => Typed

\* A router crash loses nothing written, and a power cut nothing but an end of a
\* segment that was not synced: whatever stops where, as long as the segments stay
\* in order, a record whose write succeeded was taken by its sink, was counted lost
\* for it, or still waits for it in the log (in the files, while the stream runs
\* without them).
NothingWrittenLost ==
    orderly => \A w \in written : \A s \in SinksFor(w.rec.subject) :
        \/ w.rec.id \in taken[s] \cup lost[s]
        \/ \E q \in Mine(s) : records[q] = w.rec
        \/ ~has_disk /\ OnDisk(w)

\* "a stream whose seq restarts is never mistaken for a repeat": within an epoch the
\* seq of a written record is never given to another written one.
SeqsGivenOnce ==
    \A v, w \in written : v.epoch = w.epoch /\ v.seq = w.seq => v = w

\* It is so as long as the segments stay in order: deleting segments, saving the
\* state and recovering keep next_seq ahead of what was written.
WrittenSeqsUnique == orderly => SeqsGivenOnce

\* What the log still owes and wrote successfully stays readable on disk while the
\* segments stay in order: none is deleted too early and no record is written
\* behind a tear.
DiskCovers ==
    orderly /\ has_disk => \A w \in written : \A q \in DOMAIN records :
        records[q] = w.rec => q \in DOMAIN disk /\ disk[q].rec = w.rec

\* "an fsync runs every STREAM_FSYNC_INTERVAL_MS, so a power cut loses at most
\* that long": what fsynced_seq covers is synced.  It fails after a restart, which
\* sets fsynced_seq past records that were never synced.
FsyncedSurvivesPowerCut ==
    \A q \in DOMAIN disk : q <= fsynced_seq => disk[q].synced

\* "a record stays on disk only until its sinks took it": once the log is empty
\* the disk thread deletes every segment, unless new records come first.
SegmentsReclaimed ==
    (has_disk /\ DOMAIN records = {})
        ~> (DOMAIN segments = {} \/ DOMAIN records # {} \/ ~has_disk)

================================================================================
