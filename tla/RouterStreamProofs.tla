--------------------------- MODULE RouterStreamProofs ---------------------------
(***************************************************************************)
(* The stream with its directory loses nothing it wrote, for every number  *)
(* of records, restarts and failures, wherever the disk thread is cut      *)
(* short: proofs about RouterStream.                                       *)
(*                                                                         *)
(* They hold while no start came back to a next seq below the name of a    *)
(* segment (orderly); the theorems after them say what breaks that: a      *)
(* segment left empty, and of crashes alone none.  The last ones are about *)
(* StreamCognition: what the stream counts as delivered to SY.cognition,   *)
(* SY.cognition accepted, unless a start took it back to a seq of its      *)
(* epoch that may have been sent (rewound).                                *)
(***************************************************************************)
EXTENDS StreamCognition, StreamLogProofs

----------------------------------------------------------------------------
(* The inductive invariant. *)

States == [epoch : 1..epochs, next_seq : Nat \ {0}, cursors : [Sinks -> Nat]]

\* The types, with those of the disk thread's locals, and a bound on the names.
DiskTypes ==
    /\ Typed
    /\ epochs \in Nat
    /\ disk_pc \in {"write", "append"} => work \in [seq : Nat \ {0}, rec : Records]
    /\ disk_pc \in {"save", "trim"} =>
          work \in [keep_from : Nat, nothing_left : BOOLEAN, state : States]
    /\ \E n \in Nat : DOMAIN disk \subseteq 0..n /\ DOMAIN segments \subseteq 0..n

\* state.json: its cursors are behind its next seq, a power cut leaves the same or
\* nothing, and what this process saved last is what is there.
StateOK ==
    /\ state # NoState => /\ state \in States
                          /\ \A s \in Sinks : state.cursors[s] < state.next_seq
    /\ durable_state \in {state, NoState}
    /\ last_saved # NoState => last_saved = state
    /\ has_disk /\ state # NoState => state.epoch = epoch /\ state.next_seq <= next_seq

\* The disk thread's locals are still true of the state they were copied from.
WorkOK ==
    /\ ~has_disk => disk_pc = "idle"
    /\ disk_pc = "append" => current = work.seq
    /\ disk_pc \in {"write", "append"} =>
          /\ work.seq \in DOMAIN records /\ work.rec = records[work.seq]
          /\ next_seq = work.seq + 1
          /\ \A q \in DOMAIN disk : q < work.seq
          /\ \A f \in torn : f < work.seq
          /\ \A f \in DOMAIN segments : f <= work.seq
          /\ \A w \in written : w.epoch = epoch => w.seq < work.seq
          /\ state # NoState => state.next_seq <= work.seq
    /\ disk_pc \in {"save", "trim"} =>
          /\ \A q \in DOMAIN records : work.keep_from <= q
          /\ work.nothing_left => DOMAIN records = {}
          /\ work.state.epoch = epoch /\ work.state.next_seq = next_seq
          /\ \A s \in Sinks : work.state.cursors[s] <= cursor[s]
    /\ disk_pc = "trim" /\ work.nothing_left => state = work.state

\* The files are in the order of their records: a segment's records are at most its
\* last_seq and below the next segment's name, and the open one is the newest.
FilesOK ==
    /\ \A q \in DOMAIN disk : q <= segments[disk[q].segment]
    /\ \A q \in DOMAIN disk : \A f \in DOMAIN segments : f > disk[q].segment => q < f
    /\ current # 0 => current \notin torn /\ \A f \in DOMAIN segments : f <= current
    /\ has_disk => /\ \A q \in DOMAIN disk : q < next_seq
                   /\ \A f \in torn : f < next_seq

\* Records are told apart by their ids, in the log and in the files.
IdsApart ==
    /\ \A q \in DOMAIN records : records[q].id <= offered
    /\ \A p, q \in DOMAIN records : records[p].id = records[q].id => p = q
    /\ \A q \in DOMAIN disk : disk[q].rec.id <= offered
    /\ \A p, q \in DOMAIN disk : disk[p].rec.id = disk[q].rec.id => p = q
    /\ \A p \in DOMAIN disk, q \in DOMAIN records : disk[p].rec.id = records[q].id => p = q
    /\ \A w \in written : w.rec.id <= offered

\* Every sink of the record took it or was told it lost it.
Settled(r) == \A s \in SinksFor(r.subject) : r.id \in taken[s] \cup lost[s]

\* A record in the files is in the log, or it is settled: nobody reads it again.
DiskSettled ==
    has_disk => \A q \in DOMAIN disk :
        (q \in DOMAIN records /\ records[q] = disk[q].rec) \/ Settled(disk[q].rec)

\* The saved cursors claim no record in the files that is not settled.
StateHonest ==
    state # NoState => \A q \in DOMAIN disk : \A s \in SinksFor(disk[q].rec.subject) :
        q <= state.cursors[s] => disk[q].rec.id \in taken[s] \cup lost[s]

\* The written record is still in the files.
Kept(w) == w.seq \in DOMAIN disk /\ disk[w.seq].rec = w.rec /\ disk[w.seq].epoch = w.epoch

\* What was written is in the files or settled, and the next seq is ahead of it: by
\* the files, by the saved state, or by the name of a later segment.
WrittenOK ==
    /\ written \subseteq [epoch : 1..epochs, seq : Nat, rec : Records]
    /\ \A w \in written : Kept(w) \/ Settled(w.rec)
    /\ \A w \in written : \A p \in DOMAIN disk : disk[p].rec.id = w.rec.id => Kept(w)
    /\ has_disk => \A w \in written : \A q \in DOMAIN records : records[q].id = w.rec.id => Kept(w)
    /\ has_disk => \A w \in written : w.epoch = epoch => w.seq < next_seq
    /\ state # NoState => \A w \in written : w.epoch = state.epoch =>
          Kept(w) \/ w.seq < state.next_seq \/ \E f \in DOMAIN segments : w.seq < f
    /\ SeqsGivenOnce

\* Inductive while the segments are in order.
StreamInv ==
    /\ LogInv
    /\ DiskTypes
    /\ StateOK
    /\ WorkOK
    /\ FilesOK
    /\ IdsApart
    /\ DiskSettled
    /\ StateHonest
    /\ WrittenOK

----------------------------------------------------------------------------
(* What a step of the log does, as seen from the disk. *)

\* Records leave the log settled, at most one is placed, and cursors and
\* histories only grow.
LogMove ==
    /\ \A q \in DOMAIN records' :
          \/ q \in DOMAIN records /\ records'[q] = records[q]
          \/ q = next_seq /\ records'[q].id = offered + 1
             /\ next_seq' = next_seq + 1 /\ offered' = offered + 1
    /\ \A q \in DOMAIN records \ DOMAIN records' :
          \A s \in SinksFor(records[q].subject) : records[q].id \in taken'[s] \cup lost'[s]
    /\ \A s \in Sinks : taken[s] \subseteq taken'[s] /\ lost[s] \subseteq lost'[s]
                        /\ cursor[s] <= cursor'[s]
    /\ next_seq' \in {next_seq, next_seq + 1}
    /\ offered' \in {offered, offered + 1}

\* A sink of a record is a sink of the stream.
LEMMA SinksOfRecord ==
    ASSUME NEW r \in Records
    PROVE  SinksFor(r.subject) \subseteq Sinks
BY SinksForType DEF Records

\* The trims: records that are done are settled when they leave.
LEMMA DoneSettled ==
    ASSUME LogInv, NEW out \in SUBSET DOMAIN records, \A q \in out : RecordDone(q),
           lost' = LostWith(out), taken' = taken,
           NEW q \in out, NEW s \in SinksFor(records[q].subject)
    PROVE  records[q].id \in taken'[s] \cup lost'[s]
<1>1. s \in Sinks
  BY SinksOfRecord DEF LogInv, LogTypeOK
<1>2. lost'[s] = lost[s] \cup {records[p].id : p \in MissedBy(s, out)}
  BY <1>1 DEF LostWith
<1>3. CASE cursor[s] >= q
  <2>1. records[q].id \in taken[s] \cup lost[s]
    BY <1>1, <1>3 DEF LogInv, CursorHonest, LogTypeOK
  <2> QED BY <1>2, <2>1
<1>4. CASE ~(cursor[s] >= q)
  <2>1. q \in MissedBy(s, out)
    BY <1>1, <1>4 DEF MissedBy, LogInv, LogTypeOK
  <2> QED BY <1>2, <2>1
<1> QED BY <1>3, <1>4

\* take_incoming moves the log.
LEMMA TakeMoves ==
    ASSUME LogInv, NEW subject \in Subjects, NEW size \in Sizes, TakeIncoming(subject, size)
    PROVE  /\ LogMove
           /\ next_seq' # next_seq => next_seq \in DOMAIN records'
                                      /\ records'[next_seq].id = offered + 1
           /\ cursor' = cursor
<1> DEFINE out == MakeRoom(subject, size)
           ok  == Fits(TurnBytesWithout(out), NodeBytesWithout(out), subject, size)
           new == [id |-> offered + 1, subject |-> subject, size |-> size]
<1>1. LogTypeOK /\ next_seq \in Nat /\ offered \in Nat /\ cursor \in [Sinks -> Nat]
  BY DEF LogInv, LogTypeOK
<1>2. out \in SUBSET DOMAIN records /\ \A q \in out : RecordDone(q)
  <2>1. \A q \in Leaving : q \in DOMAIN records /\ RecordDone(q)
    BY <1>1 DEF Leaving, LogTypeOK
  <2> QED BY <2>1 DEF MakeRoom
<1>3. /\ records' = IF ok THEN [q \in (DOMAIN records \ out) \cup {next_seq} |->
                                   IF q = next_seq THEN new ELSE records[q]]
                           ELSE Only(records, DOMAIN records \ out)
      /\ next_seq' = SeqAfter(ok)
      /\ offered' = offered + 1
      /\ lost' = LostWith(out)
      /\ UNCHANGED <<cursor, taken>>
  BY Zenon DEF TakeIncoming
<1>4. new.id = offered + 1
  OBVIOUS
<1> HIDE DEF out, ok, new
<1>5. /\ DOMAIN records' = (DOMAIN records \ out) \cup (IF ok THEN {next_seq} ELSE {})
      /\ \A q \in DOMAIN records \ out : records'[q] = records[q]
      /\ ok => records'[next_seq].id = offered + 1
  BY <1>1, <1>3, <1>4 DEF Only, LogTypeOK
<1>6. next_seq' = IF ok THEN next_seq + 1 ELSE next_seq
  BY <1>3 DEF SeqAfter
<1>7. \A q \in DOMAIN records' :
          \/ q \in DOMAIN records /\ records'[q] = records[q]
          \/ q = next_seq /\ records'[q].id = offered + 1
             /\ next_seq' = next_seq + 1 /\ offered' = offered + 1
  BY <1>3, <1>5, <1>6
<1>8. ASSUME NEW q \in DOMAIN records \ DOMAIN records', NEW s \in SinksFor(records[q].subject)
      PROVE  records[q].id \in taken'[s] \cup lost'[s]
  <2>1. q \in out
    BY <1>5
  <2> QED BY <1>2, <1>3, <2>1, DoneSettled
<1>9. \A s \in Sinks : taken[s] \subseteq taken'[s] /\ lost[s] \subseteq lost'[s]
                       /\ cursor[s] <= cursor'[s]
  BY <1>1, <1>3 DEF LostWith
<1>10. next_seq' \in {next_seq, next_seq + 1} /\ offered' \in {offered, offered + 1}
  BY <1>1, <1>3, <1>6
<1> QED
  BY <1>1, <1>3, <1>5, <1>6, <1>7, <1>8, <1>9, <1>10 DEF LogMove

\* The trim moves the log.
LEMMA TrimMoves ==
    ASSUME LogInv, Trim
    PROVE  LogMove /\ cursor' = cursor /\ next_seq' = next_seq
<1>1. LogTypeOK /\ next_seq \in Nat /\ offered \in Nat /\ cursor \in [Sinks -> Nat]
  BY DEF LogInv, LogTypeOK
<1>2. Leaving \in SUBSET DOMAIN records /\ \A q \in Leaving : RecordDone(q)
  BY <1>1 DEF Leaving, LogTypeOK
<1>3. /\ records' = Only(records, DOMAIN records \ Leaving)
      /\ lost' = LostWith(Leaving)
      /\ UNCHANGED <<cursor, taken, next_seq, offered>>
  BY DEF Trim
<1>4. /\ DOMAIN records' = DOMAIN records \ Leaving
      /\ \A q \in DOMAIN records \ Leaving : records'[q] = records[q]
  BY <1>3 DEF Only
<1>5. ASSUME NEW q \in DOMAIN records \ DOMAIN records', NEW s \in SinksFor(records[q].subject)
      PROVE  records[q].id \in taken'[s] \cup lost'[s]
  <2>1. q \in Leaving
    BY <1>4
  <2> QED BY <1>2, <1>3, <2>1, DoneSettled
<1>6. \A s \in Sinks : taken[s] \subseteq taken'[s] /\ lost[s] \subseteq lost'[s]
                       /\ cursor[s] <= cursor'[s]
  BY <1>1, <1>3 DEF LostWith
<1>7. \A q \in DOMAIN records' : q \in DOMAIN records /\ records'[q] = records[q]
  BY <1>4
<1>8. next_seq' = next_seq /\ offered' = offered /\ cursor' = cursor /\ offered' \in {offered, offered + 1}
  BY <1>1, <1>3
<1> QED
  BY <1>5, <1>6, <1>7, <1>8 DEF LogMove

\* The senders and the clock move the log, and leave its records alone.
LEMMA SenderMoves ==
    ASSUME LogInv, LogStep
    PROVE  LogMove /\ UNCHANGED <<records, next_seq, offered, diskVars>>
<1>1. LogTypeOK /\ HistoryTypeOK /\ next_seq \in Nat /\ offered \in Nat /\ cursor \in [Sinks -> Nat]
  BY DEF LogInv, LogTypeOK
<1>2. ASSUME UNCHANGED <<records, next_seq, offered>>,
             \A s \in Sinks : taken[s] \subseteq taken'[s] /\ lost[s] \subseteq lost'[s]
                              /\ cursor[s] <= cursor'[s]
      PROVE  LogMove
  BY <1>1, <1>2 DEF LogMove
<1>3. ASSUME NEW s \in Sinks, PlanBatch(s) PROVE LogMove /\ UNCHANGED <<records, next_seq, offered>>
  <2>1. /\ UNCHANGED <<records, next_seq, offered, taken>>
        /\ lost' = [lost EXCEPT ![s] = @ \cup {records[q].id : q \in Passed(s) \cap Mine(s)}]
    BY <1>3 DEF PlanBatch
  <2>2. \A t \in Sinks : lost[t] \subseteq lost'[t]
    BY <1>1, <2>1 DEF HistoryTypeOK
  <2>3. cursor[s] <= cursor'[s] /\ \A t \in Sinks : t # s => cursor'[t] = cursor[t]
    BY <1>3, PlanMoves
  <2> QED BY <1>1, <1>2, <2>1, <2>2, <2>3
<1>4. ASSUME NEW s \in Sinks, NEW up_to \in 1..batch[s].last_seq, BatchAcked(s, up_to)
      PROVE  LogMove /\ UNCHANGED <<records, next_seq, offered>>
  <2>1. up_to \in Nat
    BY <1>1, <1>4 DEF BatchAcked, LogInv, BatchExact, LogTypeOK
  <2>2. /\ UNCHANGED <<records, next_seq, offered, lost>>
        /\ taken' = [taken EXCEPT ![s] = @ \cup
              {batch[s].records[q].id : q \in {p \in DOMAIN batch[s].records : p <= up_to}}]
    BY <1>4 DEF BatchAcked
  <2>3. \A t \in Sinks : taken[t] \subseteq taken'[t]
    BY <1>1, <2>2 DEF HistoryTypeOK
  <2>4. /\ AckCursor(s, up_to) \in Nat /\ cursor[s] < AckCursor(s, up_to)
        /\ cursor'[s] = AckCursor(s, up_to)
        /\ \A t \in Sinks : t # s => cursor'[t] = cursor[t]
    BY <1>4, <2>1, AckMoves
  <2>5. \A t \in Sinks : cursor[t] <= cursor'[t]
    BY <1>1, <2>4
  <2> QED BY <1>2, <2>2, <2>3, <2>5
<1>5. ASSUME UNCHANGED <<records, next_seq, offered, cursor, taken, lost>> PROVE LogMove
  BY <1>1, <1>2, <1>5
<1>6. ASSUME NEW s \in Sinks, SinkStep(s) PROVE LogMove /\ UNCHANGED <<records, next_seq, offered>>
  <2>1. CASE BatchFailed(s)
    BY <1>5, <2>1 DEF BatchFailed, historyVars
  <2> QED BY <1>3, <1>4, <1>6, <2>1 DEF SinkStep, BatchResolved
<1>7. ASSUME NEW q \in DOMAIN records, Age(q)
      PROVE  LogMove /\ UNCHANGED <<records, next_seq, offered>>
  BY <1>5, <1>7 DEF Age, sharedVars, historyVars
<1> QED
  BY <1>6, <1>7 DEF LogStep

----------------------------------------------------------------------------
(* A step of the log leaves the files and the saved state true. *)

\* The files and state.json, as the steps of the log leave them.
filesVars == <<has_disk, segVars, last_written_seq, dirty, fsynced_seq, stateVars,
               epoch, epochs, written>>

\* What is settled stays settled.
LEMMA SettledStays ==
    ASSUME LogMove, NEW r \in Records, Settled(r)
    PROVE  Settled(r)'
<1>1. \A s \in SinksFor(r.subject) : s \in Sinks
  BY SinksOfRecord
<1>2. \A s \in SinksFor(r.subject) : taken[s] \subseteq taken'[s] /\ lost[s] \subseteq lost'[s]
  BY <1>1 DEF LogMove
<1> QED BY <1>2 DEF Settled

\* The records stay told apart: a new one takes the next id.
LEMMA MoveIds ==
    ASSUME StreamInv, LogMove, UNCHANGED filesVars
    PROVE  IdsApart'
<1>1. /\ UNCHANGED <<disk, written>>
      /\ offered \in Nat /\ offered <= offered'
      /\ next_seq \notin DOMAIN records
      /\ offered' \in Nat
  <2>1. UNCHANGED <<disk, written>>
    BY DEF filesVars, segVars
  <2>2. offered \in Nat /\ next_seq \in Nat /\ DOMAIN records \subseteq 1..(next_seq - 1)
    BY DEF StreamInv, LogInv, LogTypeOK
  <2> QED BY <2>1, <2>2 DEF LogMove
<1>2. \A q \in DOMAIN records : records[q].id \in Nat
  BY DEF StreamInv, LogInv, LogTypeOK, Records
<1>3. \A q \in DOMAIN disk : disk[q].rec.id \in Nat
  BY DEF StreamInv, DiskTypes, Typed, Records
<1>4. \A w \in written : w.rec.id \in Nat
  BY DEF StreamInv, WrittenOK, Records
<1>5. \A q \in DOMAIN records' :
         \/ q \in DOMAIN records /\ records'[q] = records[q]
         \/ q = next_seq /\ records'[q].id = offered + 1 /\ offered' = offered + 1
  BY DEF LogMove
<1>6. IdsApart
  BY DEF StreamInv
<1>7. \A q \in DOMAIN records' : records'[q].id <= offered'
  BY <1>1, <1>2, <1>5, <1>6 DEF IdsApart
<1>8. \A p, q \in DOMAIN records' : records'[p].id = records'[q].id => p = q
  BY <1>1, <1>2, <1>5, <1>6 DEF IdsApart
<1>9. \A p \in DOMAIN disk, q \in DOMAIN records' : disk[p].rec.id = records'[q].id => p = q
  BY <1>1, <1>3, <1>5, <1>6 DEF IdsApart
<1>10. /\ \A q \in DOMAIN disk : disk[q].rec.id <= offered'
       /\ \A w \in written : w.rec.id <= offered'
  BY <1>1, <1>3, <1>4, <1>6 DEF IdsApart
<1>11. \A p, q \in DOMAIN disk : disk[p].rec.id = disk[q].rec.id => p = q
  BY <1>6 DEF IdsApart
<1> QED BY <1>1, <1>7, <1>8, <1>9, <1>10, <1>11 DEF IdsApart

\* What the files hold is still in the log, or left it settled.
LEMMA MoveSettled ==
    ASSUME StreamInv, LogMove, UNCHANGED filesVars
    PROVE  DiskSettled' /\ StateHonest'
<1>1. UNCHANGED <<has_disk, disk, state>>
  BY DEF filesVars, segVars, stateVars
<1>2. \A q \in DOMAIN disk : disk[q].rec \in Records
  BY DEF StreamInv, DiskTypes, Typed
<1>3. next_seq \notin DOMAIN records
  BY DEF StreamInv, LogInv, LogTypeOK
<1>4. ASSUME NEW q \in DOMAIN disk, has_disk
      PROVE  (q \in DOMAIN records' /\ records'[q] = disk[q].rec) \/ Settled(disk[q].rec)'
  <2>1. CASE q \in DOMAIN records /\ records[q] = disk[q].rec
    <3>1. CASE q \in DOMAIN records'
      <4>1. records'[q] = records[q]
        BY <1>3, <2>1, <3>1 DEF LogMove
      <4> QED BY <2>1, <3>1, <4>1
    <3>2. CASE q \notin DOMAIN records'
      <4>1. \A s \in SinksFor(disk[q].rec.subject) : disk[q].rec.id \in taken'[s] \cup lost'[s]
        BY <2>1, <3>2 DEF LogMove
      <4> QED BY <1>1, <4>1 DEF Settled
    <3> QED BY <3>1, <3>2
  <2>2. CASE Settled(disk[q].rec)
    <3>1. PICK r \in Records : r = disk[q].rec
      BY <1>2
    <3>2. Settled(r)'
      BY <2>2, <3>1, SettledStays
    <3> QED BY <1>1, <3>1, <3>2 DEF Settled
  <2> QED BY <1>4, <2>1, <2>2 DEF StreamInv, DiskSettled
<1>5. DiskSettled'
  BY <1>1, <1>4 DEF DiskSettled, Settled
<1>6. ASSUME state # NoState, NEW q \in DOMAIN disk, NEW s \in SinksFor(disk[q].rec.subject),
             q <= state.cursors[s]
      PROVE  disk[q].rec.id \in taken'[s] \cup lost'[s]
  <2>1. s \in Sinks
    BY <1>2, SinksOfRecord
  <2>2. disk[q].rec.id \in taken[s] \cup lost[s]
    BY <1>6 DEF StreamInv, StateHonest
  <2> QED BY <2>1, <2>2 DEF LogMove
<1>7. StateHonest'
  BY <1>1, <1>6 DEF StateHonest
<1> QED BY <1>5, <1>7

\* What was written stays in the files or settled, and behind the next seq.
LEMMA MoveWritten ==
    ASSUME StreamInv, LogMove, UNCHANGED filesVars
    PROVE  WrittenOK'
<1>1. UNCHANGED <<has_disk, disk, segments, state, epoch, epochs, written>>
  BY DEF filesVars, segVars, stateVars
<1>2. /\ written \subseteq [epoch : 1..epochs, seq : Nat, rec : Records]
      /\ next_seq \in Nat /\ offered \in Nat
      /\ WrittenOK
  BY DEF StreamInv, WrittenOK, LogInv, LogTypeOK
<1>3. \A w \in written : Kept(w)' <=> Kept(w)
  BY <1>1 DEF Kept
<1>4. ASSUME NEW w \in written PROVE Kept(w)' \/ Settled(w.rec)'
  <2>1. CASE Settled(w.rec)
    <3>1. PICK r \in Records : r = w.rec
      BY <1>2
    <3>2. Settled(r)'
      BY <2>1, <3>1, SettledStays
    <3> QED BY <3>1, <3>2 DEF Settled
  <2> QED BY <1>2, <1>3, <2>1 DEF WrittenOK
<1>5. ASSUME has_disk, NEW w \in written, NEW q \in DOMAIN records', records'[q].id = w.rec.id
      PROVE  Kept(w)'
  <2>1. w.rec.id \in Nat /\ w.rec.id <= offered
    BY <1>2 DEF Records, StreamInv, IdsApart
  <2>2. q \in DOMAIN records /\ records'[q] = records[q]
    BY <1>2, <1>5, <2>1 DEF LogMove
  <2> QED BY <1>2, <1>3, <1>5, <2>2 DEF WrittenOK
<1>6. has_disk => \A w \in written : w.epoch = epoch => w.seq < next_seq'
  <2>1. next_seq' \in {next_seq, next_seq + 1}
    BY DEF LogMove
  <2> QED BY <1>2, <2>1 DEF WrittenOK
<1>7. \A w \in written : \A p \in DOMAIN disk : disk[p].rec.id = w.rec.id => Kept(w)'
  BY <1>2, <1>3 DEF WrittenOK
<1>8. state # NoState => \A w \in written : w.epoch = state.epoch =>
          Kept(w)' \/ w.seq < state.next_seq \/ \E f \in DOMAIN segments : w.seq < f
  BY <1>2, <1>3 DEF WrittenOK
<1>9. SeqsGivenOnce'
  BY <1>1, <1>2 DEF WrittenOK, SeqsGivenOnce
<1> QED BY <1>1, <1>2, <1>4, <1>5, <1>6, <1>7, <1>8, <1>9 DEF WrittenOK

\* The files and state.json stay in order.
LEMMA MoveFiles ==
    ASSUME StreamInv, LogMove, UNCHANGED filesVars
    PROVE  StateOK' /\ FilesOK'
<1>1. UNCHANGED <<has_disk, disk, segments, torn, current, state, durable_state, last_saved,
                  epoch, epochs>>
  BY DEF filesVars, segVars, stateVars
<1>2. /\ next_seq \in Nat /\ next_seq' \in Nat /\ next_seq <= next_seq'
      /\ DOMAIN disk \subseteq Nat /\ DOMAIN segments \subseteq Nat /\ torn \subseteq DOMAIN segments
  BY DEF StreamInv, LogInv, LogTypeOK, LogMove, DiskTypes, Typed
<1>3. States' = States
  BY <1>1 DEF States
<1>4. state # NoState => state.next_seq \in Nat
  BY DEF StreamInv, StateOK, States
<1>5. has_disk /\ state # NoState => state.epoch = epoch /\ state.next_seq <= next_seq'
  BY <1>2, <1>4 DEF StreamInv, StateOK
<1>6. StateOK'
  BY <1>1, <1>3, <1>5 DEF StreamInv, StateOK
<1>7. has_disk => /\ \A q \in DOMAIN disk : q < next_seq'
                  /\ \A f \in torn : f < next_seq'
  BY <1>2 DEF StreamInv, FilesOK
<1>8. FilesOK'
  BY <1>1, <1>7 DEF StreamInv, FilesOK
<1> QED BY <1>6, <1>8

\* The types of the files and of state.json.
LEMMA MoveTypes ==
    ASSUME StreamInv, LogInv', UNCHANGED filesVars,
           disk_pc' \in {"idle", "write", "append", "save", "trim"},
           disk_pc' \in {"write", "append"} => work' \in [seq : Nat \ {0}, rec : Records],
           disk_pc' \in {"save", "trim"} =>
              work' \in [keep_from : Nat, nothing_left : BOOLEAN, state : States]
    PROVE  DiskTypes'
<1>1. UNCHANGED <<has_disk, disk, segments, torn, current, last_written_seq, fsynced_seq, dirty,
                  epoch, epochs>>
  BY DEF filesVars, segVars, stateVars
<1>2. States' = States
  BY <1>1 DEF States
<1>3. Typed'
  <2>1. Typed
    BY DEF StreamInv, DiskTypes
  <2> QED BY <1>1, <2>1 DEF Typed, LogInv
<1> QED BY <1>1, <1>2, <1>3 DEF StreamInv, DiskTypes

\* The senders and the clock keep the invariant.
LEMMA LogStepInv ==
    ASSUME StreamInv, LogStep
    PROVE  StreamInv'
<1>1. LogMove /\ UNCHANGED <<records, next_seq, offered, diskVars>>
  BY SenderMoves DEF StreamInv
<1>2. UNCHANGED filesVars /\ UNCHANGED <<disk_pc, work>>
  BY <1>1 DEF diskVars, filesVars
<1>3. LogInv'
  BY SinkStepInv, AgeInv DEF StreamInv, LogStep
<1>4. DiskTypes'
  <2>1. DiskTypes
    BY DEF StreamInv
  <2> QED BY <1>2, <1>3, <2>1, MoveTypes DEF DiskTypes, Typed
<1>5. WorkOK'
  <2>1. UNCHANGED <<records, next_seq, has_disk, disk, segments, torn, current, state, epoch, written, disk_pc, work>>
    BY <1>1, <1>2 DEF filesVars, segVars, stateVars
  <2>2. ASSUME disk_pc \in {"save", "trim"}, NEW s \in Sinks
        PROVE  work.state.cursors[s] <= cursor'[s]
    <3>1. work.state.cursors[s] \in Nat /\ work.state.cursors[s] <= cursor[s]
      BY <2>2 DEF StreamInv, DiskTypes, WorkOK, States
    <3>2. cursor[s] \in Nat /\ cursor'[s] \in Nat /\ cursor[s] <= cursor'[s]
      BY <1>1, <1>3 DEF StreamInv, LogMove, LogInv, LogTypeOK
    <3> QED BY <3>1, <3>2
  <2> QED BY <2>1, <2>2 DEF StreamInv, WorkOK
<1> QED
  BY <1>1, <1>2, <1>3, <1>4, <1>5, MoveIds, MoveSettled, MoveWritten, MoveFiles DEF StreamInv

\* Placing a record: what the disk thread is about to write is the newest of the log.
LEMMA PlaceRecordInv ==
    ASSUME StreamInv, SegmentsInOrder, NEW subject \in Subjects, NEW size \in Sizes,
           PlaceRecord(subject, size)
    PROVE  StreamInv'
<1>1. TakeIncoming(subject, size) /\ UNCHANGED filesVars /\ disk_pc = "idle"
  BY DEF PlaceRecord, filesVars
<1>2. /\ LogMove
      /\ next_seq' # next_seq => next_seq \in DOMAIN records' /\ records'[next_seq].id = offered + 1
      /\ LogInv'
  BY <1>1, TakeMoves, TakeIncomingInv DEF StreamInv
<1>3. UNCHANGED <<has_disk, disk, segments, torn, state, epoch, written>>
  BY <1>1 DEF filesVars, segVars, stateVars
<1>4. next_seq \in Nat \ {0}
  BY DEF StreamInv, LogInv, LogTypeOK
<1>5. CASE has_disk /\ next_seq' # next_seq
  <2>1. disk_pc' = "write" /\ work' = [seq |-> next_seq, rec |-> records'[next_seq]]
    BY <1>5 DEF PlaceRecord
  <2>2. next_seq \in DOMAIN records' /\ next_seq' = next_seq + 1 /\ records'[next_seq] \in Records
    BY <1>2, <1>4, <1>5 DEF LogMove, LogInv, LogTypeOK
  <2>3. work' \in [seq : Nat \ {0}, rec : Records] /\ work'.seq = next_seq
        /\ work'.rec = records'[next_seq]
    BY <1>4, <2>1, <2>2
  <2>4. DiskTypes'
    BY <1>1, <1>2, <2>1, <2>3, MoveTypes
  <2>5. /\ \A q \in DOMAIN disk : q < next_seq
        /\ \A f \in torn : f < next_seq
        /\ \A f \in DOMAIN segments : f <= next_seq
        /\ \A w \in written : w.epoch = epoch => w.seq < next_seq
        /\ state # NoState => state.next_seq <= next_seq
    BY <1>5 DEF StreamInv, FilesOK, SegmentsInOrder, WrittenOK, StateOK
  <2>6. WorkOK'
    BY <1>3, <1>5, <2>1, <2>2, <2>3, <2>5 DEF WorkOK
  <2> QED
    BY <1>1, <1>2, <2>4, <2>6, MoveIds, MoveSettled, MoveWritten, MoveFiles DEF StreamInv
<1>6. CASE ~(has_disk /\ next_seq' # next_seq)
  <2>1. UNCHANGED <<disk_pc, work>>
    BY <1>6 DEF PlaceRecord
  <2>2. DiskTypes'
    BY <1>1, <1>2, <2>1, MoveTypes
  <2>3. WorkOK'
    BY <1>1, <2>1 DEF WorkOK
  <2> QED
    BY <1>1, <1>2, <2>2, <2>3, MoveIds, MoveSettled, MoveWritten, MoveFiles DEF StreamInv
<1> QED BY <1>5, <1>6

\* The least of naturals, as FiniteSetsExt computes it.
LEMMA MinIsLeast ==
    ASSUME NEW S \in SUBSET Nat, S # {}
    PROVE  Min(S) \in S /\ \A x \in S : Min(S) <= x
<1>1. \E m \in S : \A y \in S : m <= y
  BY LeastNatural
<1> QED BY <1>1 DEF Min

\* The trim of the housekeeping: what it copies is true of the log it leaves.
LEMMA HousekeepingTrimInv ==
    ASSUME StreamInv, HousekeepingTrim
    PROVE  StreamInv'
<1>1. Trim /\ UNCHANGED filesVars /\ disk_pc = "idle"
  BY DEF HousekeepingTrim, filesVars
<1>2. LogMove /\ cursor' = cursor /\ next_seq' = next_seq /\ LogInv'
  BY <1>1, TrimMoves, TrimInv DEF StreamInv
<1>3. UNCHANGED <<has_disk, disk, segments, torn, state, epoch, epochs, written>>
  BY <1>1 DEF filesVars, segVars, stateVars
<1>4. next_seq \in Nat \ {0} /\ epoch \in 1..epochs /\ fsynced_seq \in Nat /\ cursor \in [Sinks -> Nat]
  BY DEF StreamInv, LogInv, LogTypeOK, DiskTypes, Typed
<1>5. CASE has_disk
  <2> DEFINE keep == Min(DOMAIN records' \cup {next_seq})
             st   == [epoch |-> epoch, next_seq |-> next_seq,
                      cursors |-> [s \in Sinks |-> SavedCursor(s)]]
  <2>1. disk_pc' = "save" /\ work' = [keep_from |-> keep, nothing_left |-> (DOMAIN records' = {}), state |-> st]
    BY <1>5 DEF HousekeepingTrim
  <2>2. keep \in Nat /\ \A q \in DOMAIN records' : keep <= q
    <3>1. DOMAIN records' \cup {next_seq} \in SUBSET Nat
      BY <1>2, <1>4 DEF LogInv, LogTypeOK
    <3> QED BY <3>1, MinIsLeast
  <2>3. \A s \in Sinks : SavedCursor(s) \in Nat /\ SavedCursor(s) <= cursor[s]
    <3>1. ASSUME NEW s \in Sinks PROVE SavedCursor(s) \in Nat /\ SavedCursor(s) <= cursor[s]
      <4>1. {cursor[s], fsynced_seq} \in SUBSET Nat
        BY <1>4
      <4> QED BY <4>1, MinIsLeast DEF SavedCursor
    <3> QED BY <3>1
  <2>4. /\ st \in States
        /\ st.epoch = epoch /\ st.next_seq = next_seq
        /\ \A s \in Sinks : st.cursors[s] <= cursor[s]
    BY <1>4, <2>3 DEF States
  <2> HIDE DEF keep, st
  <2>5. /\ work' \in [keep_from : Nat, nothing_left : BOOLEAN, state : States]
        /\ work'.keep_from = keep /\ work'.state = st
        /\ work'.nothing_left => DOMAIN records' = {}
    BY <2>1, <2>2, <2>4
  <2>6. DiskTypes'
    BY <1>1, <1>2, <2>1, <2>5, MoveTypes
  <2>7. WorkOK'
    BY <1>2, <1>3, <1>5, <2>1, <2>2, <2>4, <2>5 DEF WorkOK
  <2> QED
    BY <1>1, <1>2, <2>6, <2>7, MoveIds, MoveSettled, MoveWritten, MoveFiles DEF StreamInv
<1>6. CASE ~has_disk
  <2>1. UNCHANGED <<disk_pc, work>>
    BY <1>6 DEF HousekeepingTrim
  <2>2. DiskTypes'
    BY <1>1, <1>2, <2>1, MoveTypes
  <2>3. WorkOK'
    BY <1>1, <2>1 DEF WorkOK
  <2> QED
    BY <1>1, <1>2, <2>2, <2>3, MoveIds, MoveSettled, MoveWritten, MoveFiles DEF StreamInv
<1> QED BY <1>5, <1>6

----------------------------------------------------------------------------
(* The disk thread outside the lock: writes that fail, and syncs. *)

\* The files hold the same records, in the same segments; only their syncs differ.
SameFiles ==
    /\ DOMAIN disk' = DOMAIN disk
    /\ \A q \in DOMAIN disk :
          /\ disk'[q].rec = disk[q].rec /\ disk'[q].epoch = disk[q].epoch
          /\ disk'[q].segment = disk[q].segment /\ disk'[q].synced \in BOOLEAN
          /\ disk'[q] = [rec |-> disk'[q].rec, epoch |-> disk'[q].epoch,
                         segment |-> disk'[q].segment, synced |-> disk'[q].synced]

\* A sync changes nothing but what a power cut may take.
LEMMA SyncSame ==
    ASSUME Typed, NEW segment, disk' \in {disk, SyncSegment(segment)}
    PROVE  SameFiles
<1>1. \A q \in DOMAIN disk :
         disk[q] \in [rec : Records, epoch : Nat, segment : DOMAIN segments, synced : BOOLEAN]
  BY DEF Typed
<1>2. CASE disk' = disk
  BY <1>1, <1>2 DEF SameFiles
<1>3. CASE disk' = SyncSegment(segment)
  <2>1. DOMAIN disk' = DOMAIN disk
    BY <1>3 DEF SyncSegment
  <2>2. ASSUME NEW q \in DOMAIN disk
        PROVE  /\ disk'[q].rec = disk[q].rec /\ disk'[q].epoch = disk[q].epoch
               /\ disk'[q].segment = disk[q].segment /\ disk'[q].synced \in BOOLEAN
               /\ disk'[q] = [rec |-> disk'[q].rec, epoch |-> disk'[q].epoch,
                              segment |-> disk'[q].segment, synced |-> disk'[q].synced]
    <3>1. disk'[q] \in {disk[q], [disk[q] EXCEPT !.synced = TRUE]}
      BY <1>3 DEF SyncSegment
    <3> QED BY <1>1, <3>1
  <2> QED BY <2>1, <2>2 DEF SameFiles
<1> QED BY <1>2, <1>3

\* While the files hold the same records, so do the claims about them.
LEMMA SameFilesKeep ==
    ASSUME StreamInv, SameFiles, DOMAIN segments \subseteq DOMAIN segments',
           UNCHANGED <<logVars, has_disk, state, epoch, epochs, written>>
    PROVE  LogInv' /\ IdsApart' /\ DiskSettled' /\ StateHonest' /\ WrittenOK'
<1>1. LogInv'
  BY LogFrame DEF StreamInv
<1>2. UNCHANGED <<records, next_seq, offered, taken, lost, has_disk, state, epoch, epochs, written>>
  BY DEF logVars, sharedVars, historyVars
<1>3. IdsApart'
  BY <1>2 DEF StreamInv, IdsApart, SameFiles
<1>4. \A r : Settled(r)' <=> Settled(r)
  BY <1>2 DEF Settled
<1>5. DiskSettled'
  BY <1>2, <1>4 DEF StreamInv, DiskSettled, SameFiles
<1>6. StateHonest'
  BY <1>2 DEF StreamInv, StateHonest, SameFiles
<1>7. \A w : Kept(w)' <=> Kept(w)
  BY <1>2 DEF Kept, SameFiles
<1>8. WrittenOK'
  <2>1. WrittenOK
    BY DEF StreamInv
  <2>2. SeqsGivenOnce'
    BY <1>2, <2>1 DEF WrittenOK, SeqsGivenOnce
  <2> QED BY <1>2, <1>4, <1>7, <2>1, <2>2 DEF WrittenOK, SameFiles
<1> QED BY <1>1, <1>3, <1>5, <1>6, <1>8

\* Nor does state.json change.
LEMMA SameState ==
    ASSUME StreamInv, UNCHANGED <<logVars, has_disk, stateVars, epoch, epochs>>
    PROVE  StateOK' /\ States' = States
<1>1. UNCHANGED <<next_seq, has_disk, state, durable_state, last_saved, epoch, epochs>>
  BY DEF logVars, sharedVars, stateVars
<1>2. States' = States
  BY <1>1 DEF States
<1> QED BY <1>1, <1>2 DEF StreamInv, StateOK

\* The types of the files after a step of the disk thread.
LEMMA SameFilesTypes ==
    ASSUME StreamInv, SameFiles, LogTypeOK',
           DOMAIN segments \subseteq DOMAIN segments', DOMAIN segments' \subseteq Nat \ {0},
           \A f \in DOMAIN segments' : segments'[f] \in Nat,
           NEW n \in Nat, DOMAIN segments' \subseteq DOMAIN segments \cup {n},
           torn' \subseteq DOMAIN segments', current' \in DOMAIN segments' \cup {0},
           last_written_seq' \in Nat, fsynced_seq' \in Nat, dirty' \in BOOLEAN,
           UNCHANGED <<has_disk, epoch, epochs>>,
           disk_pc' \in {"idle", "append", "save", "trim"},
           disk_pc' = "append" => work' \in [seq : Nat \ {0}, rec : Records],
           disk_pc' \in {"save", "trim"} =>
              work' \in [keep_from : Nat, nothing_left : BOOLEAN, state : States]
    PROVE  DiskTypes'
<1>1. Typed
  BY DEF StreamInv, DiskTypes
<1>2. \A q \in DOMAIN disk' :
          disk'[q] \in [rec : Records, epoch : Nat, segment : DOMAIN segments', synced : BOOLEAN]
  <2>1. \A q \in DOMAIN disk : /\ disk[q].rec \in Records /\ disk[q].epoch \in Nat
                               /\ disk[q].segment \in DOMAIN segments'
    BY <1>1 DEF Typed
  <2> QED BY <2>1 DEF SameFiles
<1>3. Typed'
  BY <1>1, <1>2 DEF Typed, SameFiles
<1>4. \E m \in Nat : DOMAIN disk' \subseteq 0..m /\ DOMAIN segments' \subseteq 0..m
  <2>1. PICK m \in Nat : DOMAIN disk \subseteq 0..m /\ DOMAIN segments \subseteq 0..m
    BY DEF StreamInv, DiskTypes
  <2>2. 0..m \subseteq 0..(m + n) /\ n \in 0..(m + n) /\ m + n \in Nat
    OBVIOUS
  <2> QED BY <2>1, <2>2 DEF SameFiles
<1>5. States' = States
  BY DEF States
<1> QED BY <1>3, <1>4, <1>5 DEF StreamInv, DiskTypes

\* A failed write leaves the files as they were, with a tear that the next record
\* will not be written behind.
LEMMA WriteFailsInv ==
    ASSUME StreamInv, WriteFails
    PROVE  StreamInv'
<1>1. /\ disk_pc \in {"write", "append"}
      /\ disk_pc = "write" => current # 0
      /\ disk' = disk /\ segments' = segments
      /\ torn' = torn \cup {current}
      /\ current' = 0
      /\ disk_pc' = "idle"
      /\ UNCHANGED <<logVars, has_disk, last_written_seq, dirty, fsynced_seq, stateVars, epoch, epochs, written>>
  BY DEF WriteFails, Appending, AppendEnds, AfterFailedWrite
<1>2. /\ Typed /\ FilesOK /\ work.seq \in Nat \ {0} /\ next_seq = work.seq + 1
      /\ \A f \in torn : f < work.seq
      /\ \A f \in DOMAIN segments : f <= work.seq
      /\ disk_pc = "append" => current = work.seq
  BY <1>1 DEF StreamInv, DiskTypes, WorkOK
<1>3. SameFiles
  BY <1>1, <1>2, SyncSame
<1>4. current \in DOMAIN segments /\ current \in Nat /\ current <= work.seq
  BY <1>1, <1>2 DEF Typed
<1>5. UNCHANGED next_seq
  BY <1>1 DEF logVars, sharedVars
<1>6. LogInv' /\ IdsApart' /\ DiskSettled' /\ StateHonest' /\ WrittenOK'
  BY <1>1, <1>3, SameFilesKeep DEF stateVars
<1>7. StateOK'
  BY <1>1, SameState
<1>8. DiskTypes'
  <2>1. /\ DOMAIN segments' \subseteq Nat \ {0}
        /\ DOMAIN segments' \subseteq DOMAIN segments \cup {0}
        /\ torn' \subseteq DOMAIN segments'
        /\ \A f \in DOMAIN segments' : segments'[f] \in Nat
    BY <1>1, <1>2, <1>4 DEF Typed
  <2>2. /\ last_written_seq' \in Nat /\ fsynced_seq' \in Nat /\ dirty' \in BOOLEAN
        /\ current' \in DOMAIN segments' \cup {0} /\ LogTypeOK'
        /\ disk_pc' \in {"idle", "append", "save", "trim"}
        /\ disk_pc' # "append" /\ disk_pc' \notin {"save", "trim"}
    BY <1>1, <1>2, <1>6 DEF Typed, LogInv
  <2> QED BY <1>1, <1>3, <2>1, <2>2, SameFilesTypes
<1>9. WorkOK'
  BY <1>1 DEF WorkOK
<1>10. FilesOK'
  <2>1. \A f \in torn' : f < next_seq'
    BY <1>1, <1>2, <1>4, <1>5 DEF Typed
  <2> QED BY <1>1, <1>2, <1>5, <2>1 DEF FilesOK
<1> QED BY <1>6, <1>7, <1>8, <1>9, <1>10 DEF StreamInv

\* A new segment is the newest, and nothing is in it yet.
LEMMA RollInv ==
    ASSUME StreamInv, Roll
    PROVE  StreamInv'
<1>1. /\ disk_pc = "write"
      /\ disk' \in {disk, SyncSegment(current)}
      /\ segments' = WithSegment(work.seq)
      /\ current' = work.seq
      /\ disk_pc' = "append"
      /\ UNCHANGED <<logVars, has_disk, torn, last_written_seq, dirty, fsynced_seq, stateVars, epoch,
                     epochs, work, written>>
  BY DEF Roll
<1>2. /\ Typed /\ FilesOK /\ work.seq \in Nat \ {0} /\ next_seq = work.seq + 1
      /\ work \in [seq : Nat \ {0}, rec : Records]
      /\ has_disk
      /\ \A q \in DOMAIN disk : q < work.seq
      /\ \A f \in torn : f < work.seq
      /\ \A f \in DOMAIN segments : f <= work.seq
  BY <1>1 DEF StreamInv, DiskTypes, WorkOK
<1>3. SameFiles
  BY <1>1, <1>2, SyncSame
<1>4. UNCHANGED <<next_seq, records, state>>
  BY <1>1 DEF logVars, sharedVars, stateVars
<1>5. /\ DOMAIN segments' = DOMAIN segments \cup {work.seq}
      /\ \A f \in DOMAIN segments' : segments'[f] = IF f = work.seq THEN work.seq ELSE segments[f]
  BY <1>1 DEF WithSegment
<1>6. LogInv' /\ IdsApart' /\ DiskSettled' /\ StateHonest' /\ WrittenOK'
  BY <1>1, <1>3, <1>5, SameFilesKeep DEF stateVars
<1>7. StateOK'
  BY <1>1, SameState
<1>8. DiskTypes'
  <2>1. /\ DOMAIN segments \subseteq DOMAIN segments' /\ DOMAIN segments' \subseteq Nat \ {0}
        /\ DOMAIN segments' \subseteq DOMAIN segments \cup {work.seq}
        /\ torn' \subseteq DOMAIN segments'
        /\ \A f \in DOMAIN segments' : segments'[f] \in Nat
    BY <1>1, <1>2, <1>5 DEF Typed
  <2>2. /\ last_written_seq' \in Nat /\ fsynced_seq' \in Nat /\ dirty' \in BOOLEAN
        /\ current' \in DOMAIN segments' \cup {0} /\ LogTypeOK'
        /\ disk_pc' \in {"idle", "append", "save", "trim"}
        /\ work' \in [seq : Nat \ {0}, rec : Records] /\ disk_pc' \notin {"save", "trim"}
    BY <1>1, <1>2, <1>5, <1>6 DEF Typed, LogInv
  <2>3. work.seq \in Nat
    BY <1>2
  <2> QED BY <1>1, <1>3, <2>1, <2>2, <2>3, SameFilesTypes
<1>9. WorkOK'
  <2>1. \A f \in DOMAIN segments' : f <= work.seq
    BY <1>2, <1>5
  <2> QED BY <1>1, <1>3, <1>4, <2>1 DEF StreamInv, WorkOK, SameFiles
<1>10. FilesOK'
  <2>1. DOMAIN disk' = DOMAIN disk /\ \A q \in DOMAIN disk : disk'[q].segment = disk[q].segment
        /\ disk[q].segment \in DOMAIN segments
    BY <1>2, <1>3 DEF SameFiles, Typed
  <2>2. \A q \in DOMAIN disk : q <= segments'[disk[q].segment]
    BY <1>2, <1>5, <2>1 DEF FilesOK, Typed
  <2>3. \A q \in DOMAIN disk : \A f \in DOMAIN segments' : f > disk[q].segment => q < f
    BY <1>2, <1>5 DEF FilesOK, Typed
  <2>4. current' \notin torn' /\ \A f \in DOMAIN segments' : f <= current'
    BY <1>1, <1>2, <1>5 DEF Typed
  <2>5. (\A q \in DOMAIN disk : q < next_seq') /\ \A f \in torn' : f < next_seq'
    BY <1>1, <1>2, <1>4 DEF Typed
  <2> QED BY <1>1, <2>1, <2>2, <2>3, <2>4, <2>5 DEF FilesOK
<1> QED BY <1>6, <1>7, <1>8, <1>9, <1>10 DEF StreamInv

\* Steps of the disk thread that leave the segments alone, and close one at most.
LEMMA SyncInv ==
    ASSUME StreamInv, disk' \in {disk, SyncSegment(current)}, current' \in {current, 0},
           UNCHANGED <<logVars, has_disk, segments, torn, last_written_seq, stateVars,
                       epoch, epochs, written>>,
           dirty' \in BOOLEAN, fsynced_seq' \in Nat,
           disk_pc' = "idle"
    PROVE  StreamInv'
<1>1. Typed /\ FilesOK
  BY DEF StreamInv, DiskTypes
<1>2. SameFiles
  BY <1>1, SyncSame
<1>3. LogInv' /\ IdsApart' /\ DiskSettled' /\ StateHonest' /\ WrittenOK'
  BY <1>2, SameFilesKeep DEF stateVars
<1>4. StateOK'
  BY SameState
<1>5. DiskTypes'
  <2>1. /\ last_written_seq' \in Nat /\ current' \in DOMAIN segments' \cup {0} /\ LogTypeOK'
        /\ disk_pc' \in {"idle", "append", "save", "trim"}
        /\ disk_pc' # "append" /\ disk_pc' \notin {"save", "trim"}
        /\ DOMAIN segments' \subseteq Nat \ {0} /\ torn' \subseteq DOMAIN segments'
        /\ \A f \in DOMAIN segments' : segments'[f] \in Nat
    BY <1>1, <1>3 DEF Typed, LogInv
  <2>2. 0 \in Nat /\ DOMAIN segments \subseteq DOMAIN segments'
        /\ DOMAIN segments' \subseteq DOMAIN segments \cup {0}
    OBVIOUS
  <2> QED BY <1>2, <2>1, <2>2, SameFilesTypes
<1>6. WorkOK'
  BY DEF WorkOK
<1>7. FilesOK'
  <2>1. UNCHANGED next_seq
    BY DEF logVars, sharedVars
  <2> QED BY <1>1, <1>2, <2>1 DEF FilesOK, SameFiles
<1> QED BY <1>3, <1>4, <1>5, <1>6, <1>7 DEF StreamInv

\* A roll that fails, a sync and a sync that fails.
LEMMA SyncsInv ==
    ASSUME StreamInv,
           \/ \E synced \in BOOLEAN : RollFails(synced)
           \/ Fsync
           \/ FsyncFails
    PROVE  StreamInv'
<1>1. last_written_seq \in Nat /\ fsynced_seq \in Nat /\ dirty \in BOOLEAN
  BY DEF StreamInv, DiskTypes, Typed
<1>2. ASSUME NEW synced \in BOOLEAN, RollFails(synced) PROVE StreamInv'
  <2>1. /\ disk' \in {disk, SyncSegment(current)} /\ current' = 0
        /\ UNCHANGED <<logVars, has_disk, segments, torn, last_written_seq, stateVars, epoch, epochs,
                       written, dirty, fsynced_seq>>
        /\ disk_pc' = "idle"
    BY <1>2 DEF RollFails, AppendEnds
  <2> QED BY <1>1, <2>1, SyncInv
<1>3. CASE Fsync
  BY <1>1, <1>3, SyncInv DEF Fsync
<1>4. CASE FsyncFails
  <2>1. /\ UNCHANGED <<logVars, has_disk, disk, current, segments, torn, last_written_seq, stateVars,
                       epoch, epochs, written, dirty, fsynced_seq>>
        /\ disk_pc' = "idle"
    BY <1>4 DEF FsyncFails, segVars
  <2> QED BY <1>1, <2>1, SyncInv
<1> QED BY <1>2, <1>3, <1>4

----------------------------------------------------------------------------
(* The write that succeeds, the save and the trim of the directory. *)

\* What WriteRecord does to the files: the record is added, readable, to the newest
\* segment, and nothing else moves.
LEMMA WriteMoves ==
    ASSUME StreamInv, WriteRecord
    PROVE  /\ current \in DOMAIN segments /\ current \in Nat \ {0}
           /\ current \notin torn /\ current <= work.seq
           /\ DOMAIN disk' = DOMAIN disk \cup {work.seq}
           /\ disk'[work.seq] = [rec |-> work.rec, epoch |-> epoch, segment |-> current,
                                 synced |-> FALSE]
           /\ \A q \in DOMAIN disk : disk'[q] = disk[q]
           /\ DOMAIN segments' = DOMAIN segments
           /\ segments'[current] = work.seq
           /\ \A f \in DOMAIN segments : f # current => segments'[f] = segments[f]
           /\ current' = current
<1>1. /\ disk_pc \in {"write", "append"} /\ (disk_pc = "write" => current # 0)
      /\ disk' = WriteTo(disk, current)
      /\ segments' = WithSegment(current)
      /\ current' = current
  BY DEF WriteRecord, Appending
<1>2. /\ Typed /\ FilesOK /\ work.seq \in Nat \ {0}
      /\ \A q \in DOMAIN disk : q < work.seq
      /\ \A f \in DOMAIN segments : f <= work.seq
      /\ disk_pc = "append" => current = work.seq
  BY <1>1 DEF StreamInv, DiskTypes, WorkOK
<1>3. /\ current \in DOMAIN segments /\ current \in Nat \ {0}
      /\ current \notin torn /\ current <= work.seq
  BY <1>1, <1>2 DEF Typed, FilesOK
<1>4. /\ DOMAIN disk' = DOMAIN disk \cup {work.seq}
      /\ disk'[work.seq] = [rec |-> work.rec, epoch |-> epoch, segment |-> current, synced |-> FALSE]
      /\ \A q \in DOMAIN disk : disk'[q] = disk[q]
  BY <1>1, <1>2, <1>3 DEF WriteTo, Typed
<1>5. /\ DOMAIN segments' = DOMAIN segments
      /\ segments'[current] = work.seq
      /\ \A f \in DOMAIN segments : f # current => segments'[f] = segments[f]
  BY <1>1, <1>3 DEF WithSegment
<1> QED BY <1>1, <1>3, <1>4, <1>5

\* The write keeps the invariant.
LEMMA WriteRecordInv ==
    ASSUME StreamInv, WriteRecord
    PROVE  StreamInv'
<1>0. PICK new : new = [epoch |-> epoch, seq |-> work.seq, rec |-> work.rec]
  OBVIOUS
<1>1. /\ disk_pc \in {"write", "append"} /\ disk_pc' = "idle"
      /\ last_written_seq' = work.seq /\ dirty' = TRUE
      /\ written' = written \cup {new}
      /\ UNCHANGED <<torn, logVars, has_disk, fsynced_seq, stateVars, epoch, epochs>>
  BY <1>0 DEF WriteRecord, Appending, AppendEnds
<1>2. PICK segment \in Nat \ {0} :
         /\ segment \notin torn /\ segment = current
         /\ segment \in DOMAIN segments /\ segment <= work.seq
         /\ DOMAIN disk' = DOMAIN disk \cup {work.seq}
         /\ disk'[work.seq] = [rec |-> work.rec, epoch |-> epoch, segment |-> segment,
                               synced |-> FALSE]
         /\ \A q \in DOMAIN disk :
               /\ disk'[q].rec = disk[q].rec /\ disk'[q].epoch = disk[q].epoch
               /\ disk'[q].segment = disk[q].segment
               /\ disk'[q] \in [rec : Records, epoch : Nat, segment : DOMAIN segments,
                                synced : BOOLEAN]
         /\ DOMAIN segments' = DOMAIN segments
         /\ segments'[segment] = work.seq
         /\ \A f \in DOMAIN segments : f # segment => segments'[f] = segments[f]
         /\ current' = segment
  <2>1. Typed
    BY DEF StreamInv, DiskTypes
  <2> QED BY <2>1, WriteMoves DEF Typed
<1>3. /\ Typed /\ has_disk /\ FilesOK /\ IdsApart /\ WrittenOK /\ StateOK
      /\ work.seq \in Nat \ {0} /\ next_seq = work.seq + 1 /\ work.rec \in Records
      /\ work.seq \in DOMAIN records /\ work.rec = records[work.seq]
      /\ \A q \in DOMAIN disk : q < work.seq
      /\ \A f \in torn : f < work.seq
      /\ \A f \in DOMAIN segments : f <= work.seq
      /\ \A w \in written : w.epoch = epoch => w.seq < work.seq
      /\ state # NoState => state.next_seq <= work.seq
  BY <1>1 DEF StreamInv, DiskTypes, WorkOK
<1>4. UNCHANGED <<records, next_seq, offered, taken, lost, state>>
  BY <1>1 DEF logVars, sharedVars, historyVars, stateVars
<1>5. disk'[work.seq].rec = work.rec /\ disk'[work.seq].segment = segment
      /\ disk'[work.seq].epoch = epoch /\ work.seq \notin DOMAIN disk
  BY <1>2, <1>3
<1>6. LogInv'
  BY <1>1, LogFrame DEF StreamInv
<1>7. StateOK' /\ States' = States
  BY <1>1, SameState
<1>8. DiskTypes'
  <2>1. \A q \in DOMAIN disk' :
            disk'[q] \in [rec : Records, epoch : Nat, segment : DOMAIN segments', synced : BOOLEAN]
    <3>1. epoch \in Nat
      BY <1>3 DEF Typed, StreamInv, DiskTypes
    <3>2. disk'[work.seq] \in [rec : Records, epoch : Nat, segment : DOMAIN segments', synced : BOOLEAN]
      BY <1>2, <1>3, <3>1
    <3>3. \A q \in DOMAIN disk :
            disk'[q] \in [rec : Records, epoch : Nat, segment : DOMAIN segments', synced : BOOLEAN]
      BY <1>2
    <3> QED BY <1>2, <3>2, <3>3
  <2>2. \A f \in DOMAIN segments' : segments'[f] \in Nat
    BY <1>2, <1>3 DEF Typed
  <2>3. Typed'
    BY <1>1, <1>2, <1>3, <1>6, <2>1, <2>2 DEF Typed, LogInv
  <2>4. \E m \in Nat : DOMAIN disk' \subseteq 0..m /\ DOMAIN segments' \subseteq 0..m
    <3>1. PICK m \in Nat : DOMAIN disk \subseteq 0..m /\ DOMAIN segments \subseteq 0..m
      BY DEF StreamInv, DiskTypes
    <3>2. /\ 0..m \subseteq 0..(m + work.seq) /\ m + work.seq \in Nat
          /\ work.seq \in 0..(m + work.seq) /\ segment \in 0..(m + work.seq)
      BY <1>2, <1>3
    <3> QED BY <1>2, <3>1, <3>2
  <2> QED BY <1>1, <2>3, <2>4 DEF StreamInv, DiskTypes
<1>9. WorkOK'
  BY <1>1 DEF WorkOK
<1>10. FilesOK'
  <2>1. \A q \in DOMAIN disk' : q <= segments'[disk'[q].segment]
    <3>1. ASSUME NEW q \in DOMAIN disk PROVE q <= segments'[disk'[q].segment]
      <4>1. disk[q].segment \in DOMAIN segments /\ q <= segments[disk[q].segment]
        BY <1>3 DEF Typed, FilesOK
      <4>2. CASE disk[q].segment = segment
        <5>1. q < work.seq /\ q \in Nat
          BY <1>3 DEF Typed
        <5> QED BY <1>2, <1>3, <4>2, <5>1
      <4>3. CASE disk[q].segment # segment
        BY <1>2, <4>1, <4>3
      <4> QED BY <4>2, <4>3
    <3> QED BY <1>2, <1>3, <1>5, <3>1
  <2>2. \A f \in DOMAIN segments' : f <= segment
    BY <1>2, <1>3 DEF FilesOK, Typed
  <2>3. \A q \in DOMAIN disk' : \A f \in DOMAIN segments' : f > disk'[q].segment => q < f
    <3>1. ASSUME NEW q \in DOMAIN disk, NEW f \in DOMAIN segments', f > disk'[q].segment
          PROVE  q < f
      BY <1>2, <1>3, <3>1 DEF FilesOK
    <3>2. ASSUME NEW f \in DOMAIN segments' PROVE ~(f > disk'[work.seq].segment)
      <4>1. f \in Nat /\ f <= segment
        BY <1>2, <1>3, <2>2 DEF Typed
      <4> QED BY <1>2, <1>5, <4>1
    <3> QED BY <1>2, <3>1, <3>2
  <2>4. /\ \A q \in DOMAIN disk' : q < next_seq'
        /\ \A f \in torn' : f < next_seq'
    BY <1>1, <1>2, <1>3, <1>4 DEF Typed
  <2> QED BY <1>1, <1>2, <2>1, <2>2, <2>3, <2>4 DEF FilesOK
<1>11. IdsApart'
  <2>1. \A q \in DOMAIN disk' : disk'[q].rec.id <= offered
    BY <1>2, <1>3, <1>5 DEF IdsApart
  <2>2. \A p, q \in DOMAIN disk' : disk'[p].rec.id = disk'[q].rec.id => p = q
    BY <1>2, <1>3, <1>5 DEF IdsApart
  <2>3. \A p \in DOMAIN disk', q \in DOMAIN records : disk'[p].rec.id = records[q].id => p = q
    BY <1>2, <1>3, <1>5 DEF IdsApart
  <2>4. \A w \in written' : w.rec.id <= offered
    BY <1>0, <1>1, <1>3 DEF IdsApart
  <2> QED BY <1>3, <1>4, <2>1, <2>2, <2>3, <2>4 DEF IdsApart
<1>12. DiskSettled'
  <2>1. \A r : Settled(r)' <=> Settled(r)
    BY <1>4 DEF Settled
  <2>2. ASSUME NEW q \in DOMAIN disk'
        PROVE  (q \in DOMAIN records /\ records[q] = disk'[q].rec) \/ Settled(disk'[q].rec)
    <3>1. CASE q = work.seq
      BY <1>3, <1>5, <3>1
    <3>2. CASE q \in DOMAIN disk
      BY <1>2, <1>3, <3>2 DEF StreamInv, DiskSettled
    <3> QED BY <1>2, <3>1, <3>2
  <2> QED BY <1>4, <2>1, <2>2 DEF DiskSettled
<1>13. StateHonest'
  <2>1. ASSUME state # NoState, NEW s \in SinksFor(work.rec.subject) PROVE ~(work.seq <= state.cursors[s])
    <3>1. s \in Sinks
      BY <1>3, SinksOfRecord
    <3>2. state.cursors[s] < state.next_seq /\ state.cursors[s] \in Nat /\ state.next_seq \in Nat
      BY <1>3, <2>1, <3>1 DEF StateOK, States
    <3> QED BY <1>3, <2>1, <3>2
  <2>2. ASSUME state # NoState, NEW q \in DOMAIN disk', NEW s \in SinksFor(disk'[q].rec.subject),
               q <= state.cursors[s]
        PROVE  disk'[q].rec.id \in taken[s] \cup lost[s]
    <3>1. CASE q = work.seq
      BY <1>5, <2>1, <2>2, <3>1
    <3>2. CASE q \in DOMAIN disk
      BY <1>2, <2>2, <3>2 DEF StreamInv, StateHonest
    <3> QED BY <1>2, <3>1, <3>2
  <2> QED BY <1>4, <2>2 DEF StateHonest
<1>14. WrittenOK'
  <2>1. \A w \in written : Kept(w) => Kept(w)'
    BY <1>2 DEF Kept
  <2>2. /\ new \in written' /\ new.seq = work.seq /\ new.epoch = epoch /\ new.rec = work.rec
        /\ new \in [epoch : 1..epochs, seq : Nat, rec : Records]
    BY <1>0, <1>1, <1>3 DEF Typed
  <2>3. Kept(new)'
    BY <1>2, <1>5, <2>2 DEF Kept
  <2>4. \A r : Settled(r)' <=> Settled(r)
    BY <1>4 DEF Settled
  <2>5. written' \subseteq [epoch : 1..epochs', seq : Nat, rec : Records]
    BY <1>1, <1>3, <2>2 DEF WrittenOK
  <2>6. \A w \in written' : Kept(w)' \/ Settled(w.rec)'
    BY <1>1, <1>3, <2>1, <2>3, <2>4 DEF WrittenOK
  <2>7. ASSUME NEW w \in written', NEW p \in DOMAIN disk', disk'[p].rec.id = w.rec.id
        PROVE  Kept(w)'
    <3>1. CASE w = new
      BY <2>3, <3>1
    <3>2. CASE w \in written /\ p \in DOMAIN disk
      BY <1>2, <1>3, <2>1, <2>7, <3>2 DEF WrittenOK
    <3>3. CASE w \in written /\ p = work.seq
      BY <1>3, <1>5, <2>1, <2>7, <3>3 DEF WrittenOK
    <3> QED BY <1>1, <1>2, <3>1, <3>2, <3>3
  <2>8. \A w \in written' : \A q \in DOMAIN records : records[q].id = w.rec.id => Kept(w)'
    BY <1>1, <1>3, <2>1, <2>3 DEF WrittenOK
  <2>9. \A w \in written' : w.epoch = epoch => w.seq < next_seq
    BY <1>1, <1>3, <2>2 DEF WrittenOK
  <2>10. state # NoState => \A w \in written' : w.epoch = state.epoch =>
            Kept(w)' \/ w.seq < state.next_seq \/ \E f \in DOMAIN segments' : w.seq < f
    BY <1>1, <1>2, <1>3, <2>1, <2>3 DEF WrittenOK
  <2>11. SeqsGivenOnce'
    <3>1. \A v, w \in written : v.epoch = w.epoch /\ v.seq = w.seq => v = w
      BY <1>3 DEF WrittenOK, SeqsGivenOnce
    <3>2. \A w \in written : ~(w.epoch = new.epoch /\ w.seq = new.seq)
      <4>1. \A w \in written : w.seq \in Nat
        BY <1>3 DEF WrittenOK
      <4> QED BY <1>3, <2>2, <4>1
    <3>3. \A v, w \in written' : v.epoch = w.epoch /\ v.seq = w.seq => v = w
      BY <1>1, <3>1, <3>2
    <3> QED BY <3>3 DEF SeqsGivenOnce
  <2> QED BY <1>1, <1>4, <2>5, <2>6, <2>7, <2>8, <2>9, <2>10, <2>11 DEF WrittenOK
<1> QED BY <1>6, <1>7, <1>8, <1>9, <1>10, <1>11, <1>12, <1>13, <1>14 DEF StreamInv

\* A state is not the absence of one.
LEMMA StatesAreStates ==
    ASSUME NEW st \in States
    PROVE  st # NoState
<1>1. st.epoch \in 1..epochs /\ NoState.epoch = 0
  BY DEF States, NoState
<1> QED BY <1>1

\* The save: the cursors it writes claim nothing that is not settled.
LEMMA SaveStateInv ==
    ASSUME StreamInv, SaveState
    PROVE  StreamInv'
<1>1. /\ disk_pc = "save" /\ disk_pc' = "trim"
      /\ UNCHANGED <<logVars, has_disk, disk, segments, torn, current, last_written_seq, dirty, fsynced_seq,
                     epoch, epochs, work, written>>
      /\ last_saved' = work.state
  BY DEF SaveState, segVars
<1>2. /\ Typed /\ has_disk /\ StateOK /\ WrittenOK /\ LogInv
      /\ work \in [keep_from : Nat, nothing_left : BOOLEAN, state : States]
      /\ \A q \in DOMAIN records : work.keep_from <= q
      /\ work.nothing_left => DOMAIN records = {}
      /\ work.state.epoch = epoch /\ work.state.next_seq = next_seq
      /\ \A s \in Sinks : work.state.cursors[s] <= cursor[s]
  BY <1>1 DEF StreamInv, DiskTypes, WorkOK
<1>3. work.state \in States /\ work.state # NoState
  BY <1>2, StatesAreStates
<1>4. state' = work.state /\ durable_state' \in {state', NoState}
  <2>1. CASE last_saved = work.state
    BY <1>2, <1>3, <2>1 DEF SaveState, StateOK
  <2>2. CASE last_saved # work.state
    BY <2>2 DEF SaveState
  <2> QED BY <2>1, <2>2
<1>5. UNCHANGED <<records, next_seq, offered, taken, lost, cursor>>
  BY <1>1 DEF logVars, sharedVars, historyVars
<1>6. LogInv'
  BY <1>1, LogFrame DEF StreamInv
<1>7. States' = States
  BY <1>1 DEF States
<1>8. \A s \in Sinks : work.state.cursors[s] < next_seq
  BY <1>2, <1>3 DEF LogInv, LogTypeOK, CursorsBehind, States
<1>9. StateOK'
  <2>1. next_seq \in Nat
    BY <1>2 DEF LogInv, LogTypeOK
  <2> QED BY <1>1, <1>2, <1>3, <1>4, <1>5, <1>7, <1>8, <2>1 DEF StateOK
<1>10. DiskTypes'
  BY <1>1, <1>2, <1>6, <1>7 DEF StreamInv, DiskTypes, Typed, LogInv
<1>11. WorkOK'
  BY <1>1, <1>2, <1>4, <1>5 DEF WorkOK
<1>12. FilesOK' /\ IdsApart'
  BY <1>1, <1>5 DEF StreamInv, FilesOK, IdsApart
<1>13. DiskSettled'
  <2>1. \A r : Settled(r)' <=> Settled(r)
    BY <1>5 DEF Settled
  <2> QED BY <1>1, <1>5, <2>1 DEF StreamInv, DiskSettled
<1>14. StateHonest'
  <2>1. ASSUME NEW q \in DOMAIN disk, NEW s \in SinksFor(disk[q].rec.subject),
               q <= work.state.cursors[s]
        PROVE  disk[q].rec.id \in taken[s] \cup lost[s]
    <3>1. disk[q].rec \in Records /\ q \in Nat
      BY <1>2 DEF Typed
    <3>2. s \in Sinks
      BY <3>1, SinksOfRecord
    <3>3. q <= cursor[s]
      BY <1>2, <1>3, <2>1, <3>1, <3>2 DEF LogInv, LogTypeOK, States
    <3>4. (q \in DOMAIN records /\ records[q] = disk[q].rec) \/ Settled(disk[q].rec)
      BY <1>2 DEF StreamInv, DiskSettled
    <3> QED BY <1>2, <3>2, <3>3, <3>4 DEF LogInv, CursorHonest, Settled
  <2> QED BY <1>1, <1>4, <1>5, <2>1 DEF StateHonest
<1>15. WrittenOK'
  <2>1. \A w : (Kept(w)' <=> Kept(w)) /\ (Settled(w)' <=> Settled(w))
    BY <1>1, <1>5 DEF Kept, Settled
  <2>2. \A w \in written : w.epoch = epoch => w.seq < next_seq
    BY <1>2 DEF WrittenOK
  <2>3. SeqsGivenOnce'
    BY <1>1, <1>2 DEF WrittenOK, SeqsGivenOnce
  <2> QED BY <1>1, <1>2, <1>4, <1>5, <2>1, <2>2, <2>3 DEF WrittenOK
<1> QED BY <1>6, <1>9, <1>10, <1>11, <1>12, <1>13, <1>14, <1>15 DEF StreamInv

\* A save that fails: the newest segment will stay.
LEMMA SaveStateFailsInv ==
    ASSUME StreamInv, SaveStateFails
    PROVE  StreamInv'
<1>1. /\ disk_pc = "save" /\ disk_pc' = "trim"
      /\ work' = [work EXCEPT !.nothing_left = FALSE]
      /\ UNCHANGED <<logVars, has_disk, disk, segments, torn, current, last_written_seq, dirty, fsynced_seq,
                     stateVars, epoch, epochs, written>>
  BY DEF SaveStateFails, segVars, DeletesAll
<1>2. /\ Typed /\ has_disk
      /\ work \in [keep_from : Nat, nothing_left : BOOLEAN, state : States]
      /\ \A q \in DOMAIN records : work.keep_from <= q
      /\ work.state.epoch = epoch /\ work.state.next_seq = next_seq
      /\ \A s \in Sinks : work.state.cursors[s] <= cursor[s]
  BY <1>1 DEF StreamInv, DiskTypes, WorkOK
<1>3. UNCHANGED <<records, next_seq, offered, taken, lost, cursor, state>>
  BY <1>1 DEF logVars, sharedVars, historyVars, stateVars
<1>4. /\ work' \in [keep_from : Nat, nothing_left : BOOLEAN, state : States]
      /\ work'.keep_from = work.keep_from /\ work'.state = work.state /\ ~work'.nothing_left
  BY <1>1, <1>2
<1>5. LogMove
  BY <1>3 DEF LogMove, StreamInv, LogInv, LogTypeOK
<1>6. UNCHANGED filesVars
  BY <1>1 DEF filesVars, segVars
<1>7. LogInv'
  BY <1>1, LogFrame DEF StreamInv
<1>8. DiskTypes'
  BY <1>1, <1>4, <1>6, <1>7, MoveTypes
<1>9. WorkOK'
  BY <1>1, <1>2, <1>3, <1>4 DEF WorkOK
<1> QED BY <1>5, <1>6, <1>7, <1>8, <1>9, MoveIds, MoveSettled, MoveWritten, MoveFiles DEF StreamInv

\* What the trim of the directory deletes: never the newest segment unless all go,
\* and no record the log still holds.
LEMMA DeletedSettled ==
    ASSUME StreamInv, disk_pc = "trim"
    PROVE  /\ Deleted \subseteq DOMAIN segments
           /\ work.nothing_left => Deleted = DOMAIN segments
           /\ ~work.nothing_left => \A f \in Deleted : \E g \in DOMAIN segments \ Deleted :
                                       /\ f < g
                                       /\ \A h \in DOMAIN segments : h <= g
           /\ \A q \in DOMAIN disk : disk[q].segment \in Deleted =>
                 q \notin DOMAIN records /\ Settled(disk[q].rec)
<1>1. /\ Typed /\ FilesOK /\ has_disk
      /\ work.keep_from \in Nat /\ work.nothing_left \in BOOLEAN
      /\ \A q \in DOMAIN records : work.keep_from <= q
      /\ work.nothing_left => DOMAIN records = {}
  BY DEF StreamInv, DiskTypes, WorkOK
<1>2. Deleted \subseteq DOMAIN segments
  BY DEF Deleted, Deletable
<1>3. work.nothing_left => Deleted = DOMAIN segments
  BY DEF Deleted
<1>4. ASSUME ~work.nothing_left, NEW f \in Deleted
      PROVE  \E g \in DOMAIN segments \ Deleted : f < g /\ \A h \in DOMAIN segments : h <= g
  <2>1. PICK n \in Nat : DOMAIN segments \subseteq 0..n
    BY DEF StreamInv, DiskTypes
  <2>2. f \in DOMAIN segments /\ DOMAIN segments \subseteq Nat
    BY <1>1, <1>2 DEF Typed
  <2>3. PICK g \in DOMAIN segments : \A h \in DOMAIN segments : h <= g
    BY <2>1, <2>2, MaxIsGreatest
  <2>4. Deleted = {e \in DOMAIN segments :
                     /\ \E h \in DOMAIN segments : h > e
                     /\ \A h \in DOMAIN segments : h <= e => segments[h] < work.keep_from}
    BY <1>4 DEF Deleted, Deletable
  <2>5. g \notin Deleted
    BY <2>2, <2>3, <2>4
  <2>6. f < g
    BY <2>2, <2>3, <2>5
  <2> QED BY <2>3, <2>5, <2>6
<1>5. ASSUME NEW q \in DOMAIN disk, disk[q].segment \in Deleted
      PROVE  q \notin DOMAIN records /\ Settled(disk[q].rec)
  <2>1. q \notin DOMAIN records
    <3>1. CASE work.nothing_left
      BY <1>1, <3>1
    <3>2. CASE ~work.nothing_left
      <4>1. q \in Nat /\ disk[q].segment \in DOMAIN segments /\ q <= segments[disk[q].segment]
            /\ segments[disk[q].segment] \in Nat /\ disk[q].segment \in Nat
        BY <1>1 DEF Typed, FilesOK
      <4>2. segments[disk[q].segment] < work.keep_from
        BY <1>5, <3>2, <4>1 DEF Deleted, Deletable
      <4> QED BY <1>1, <4>1, <4>2
    <3> QED BY <3>1, <3>2
  <2> QED BY <1>1, <2>1 DEF StreamInv, DiskSettled
<1> QED BY <1>2, <1>3, <1>4, <1>5

\* Trimming the directory keeps the invariant: what goes is settled, and the next
\* seq stays recoverable, from the saved state or from the newest segment's name.
LEMMA DiskTrimInv ==
    ASSUME StreamInv, DiskTrim
    PROVE  StreamInv'
<1>1. /\ disk_pc = "trim" /\ disk_pc' = "idle"
      /\ disk' = Only(disk, {q \in DOMAIN disk : disk[q].segment \notin Deleted})
      /\ segments' = Only(segments, DOMAIN segments \ Deleted)
      /\ torn' = torn \ Deleted
      /\ current' = IF work.nothing_left THEN 0 ELSE current
      /\ dirty' \in BOOLEAN
      /\ UNCHANGED <<logVars, has_disk, last_written_seq, fsynced_seq, stateVars, epoch, epochs, written>>
  BY DEF DiskTrim
<1>2. /\ Typed /\ FilesOK /\ IdsApart /\ WrittenOK /\ has_disk
      /\ work.state.next_seq = next_seq /\ work.state.epoch = epoch
      /\ work.nothing_left \in BOOLEAN
      /\ work.nothing_left => state = work.state
  BY <1>1 DEF StreamInv, DiskTypes, WorkOK
<1>3. /\ Deleted \subseteq DOMAIN segments
      /\ work.nothing_left => Deleted = DOMAIN segments
      /\ ~work.nothing_left => \A f \in Deleted : \E g \in DOMAIN segments \ Deleted :
                                  f < g /\ \A h \in DOMAIN segments : h <= g
      /\ \A q \in DOMAIN disk : disk[q].segment \in Deleted =>
            q \notin DOMAIN records /\ Settled(disk[q].rec)
  BY <1>1, DeletedSettled
<1>4. /\ DOMAIN disk' = {q \in DOMAIN disk : disk[q].segment \notin Deleted}
      /\ \A q \in DOMAIN disk' : disk'[q] = disk[q]
      /\ DOMAIN segments' = DOMAIN segments \ Deleted
      /\ \A f \in DOMAIN segments' : segments'[f] = segments[f]
  BY <1>1 DEF Only
<1>5. UNCHANGED <<records, next_seq, offered, taken, lost, state>>
  BY <1>1 DEF logVars, sharedVars, historyVars, stateVars
<1>6. LogInv'
  BY <1>1, LogFrame DEF StreamInv
<1>7. StateOK' /\ States' = States
  BY <1>1, SameState
<1>8. DiskTypes'
  <2>1. current' \in DOMAIN segments' \cup {0}
    <3>1. CASE work.nothing_left
      BY <1>1, <3>1
    <3>2. CASE ~work.nothing_left /\ current \in Deleted
      <4>1. PICK g \in DOMAIN segments : current < g
        BY <1>3, <3>2
      <4>2. g \in Nat /\ current \in Nat /\ current # 0
        BY <1>2, <1>3, <3>2 DEF Typed
      <4>3. g <= current
        BY <1>2, <4>2 DEF FilesOK
      <4> QED BY <4>1, <4>2, <4>3
    <3>3. CASE ~work.nothing_left /\ current \notin Deleted
      BY <1>1, <1>2, <1>4, <3>3 DEF Typed
    <3> QED BY <1>2, <3>1, <3>2, <3>3
  <2>2. \A q \in DOMAIN disk' :
            disk'[q] \in [rec : Records, epoch : Nat, segment : DOMAIN segments', synced : BOOLEAN]
    <3>1. ASSUME NEW q \in DOMAIN disk'
          PROVE  disk'[q] \in [rec : Records, epoch : Nat, segment : DOMAIN segments', synced : BOOLEAN]
      <4>1. disk[q] \in [rec : Records, epoch : Nat, segment : DOMAIN segments, synced : BOOLEAN]
            /\ disk[q].segment \in DOMAIN segments' /\ disk'[q] = disk[q]
        BY <1>2, <1>4 DEF Typed
      <4> QED BY <4>1
    <3> QED BY <3>1
  <2>3. Typed'
    BY <1>1, <1>2, <1>4, <1>6, <2>1, <2>2 DEF Typed, LogInv
  <2>4. \E n \in Nat : DOMAIN disk' \subseteq 0..n /\ DOMAIN segments' \subseteq 0..n
    BY <1>4 DEF StreamInv, DiskTypes
  <2> QED BY <1>1, <2>3, <2>4 DEF StreamInv, DiskTypes
<1>9. WorkOK'
  BY <1>1 DEF WorkOK
<1>10. FilesOK'
  <2>1. /\ \A q \in DOMAIN disk' : q <= segments'[disk'[q].segment]
    BY <1>2, <1>4 DEF FilesOK, Typed
  <2>2. current' # 0 => current' \notin torn' /\ \A f \in DOMAIN segments' : f <= current'
    BY <1>1, <1>2, <1>4 DEF FilesOK
  <2>3. \A q \in DOMAIN disk' : \A f \in DOMAIN segments' : f > disk'[q].segment => q < f
    BY <1>2, <1>4 DEF FilesOK
  <2>4. (\A q \in DOMAIN disk' : q < next_seq') /\ \A f \in torn' : f < next_seq'
    BY <1>1, <1>2, <1>4, <1>5 DEF FilesOK
  <2> QED BY <2>1, <2>2, <2>3, <2>4 DEF FilesOK
<1>11. IdsApart'
  <2>1. /\ \A q \in DOMAIN disk' : disk'[q].rec.id <= offered
        /\ \A p, q \in DOMAIN disk' : disk'[p].rec.id = disk'[q].rec.id => p = q
    BY <1>2, <1>4 DEF IdsApart
  <2>2. \A p \in DOMAIN disk', q \in DOMAIN records : disk'[p].rec.id = records[q].id => p = q
    BY <1>2, <1>4 DEF IdsApart
  <2> QED BY <1>1, <1>2, <1>5, <2>1, <2>2 DEF IdsApart
<1>12. \A r : Settled(r)' <=> Settled(r)
  BY <1>5 DEF Settled
<1>13. DiskSettled'
  BY <1>1, <1>4, <1>5, <1>12 DEF StreamInv, DiskSettled
<1>14. StateHonest'
  BY <1>4, <1>5 DEF StreamInv, StateHonest
<1>15. WrittenOK'
  <2>1. \A w \in written : Kept(w) => Kept(w)' \/ (w.seq \in DOMAIN disk /\ disk[w.seq].segment \in Deleted)
    BY <1>4 DEF Kept
  <2>2. ASSUME NEW w \in written PROVE Kept(w)' \/ Settled(w.rec)'
    BY <1>2, <1>3, <1>12, <2>1 DEF WrittenOK, Kept
  <2>3. ASSUME NEW w \in written, NEW p \in DOMAIN disk', disk'[p].rec.id = w.rec.id
        PROVE  Kept(w)'
    <3>1. p \in DOMAIN disk /\ disk[p].rec.id = w.rec.id /\ disk[p].segment \notin Deleted
      BY <1>4, <2>3
    <3>2. Kept(w)
      BY <1>2, <3>1 DEF WrittenOK
    <3>3. p = w.seq
      BY <1>2, <3>1, <3>2 DEF IdsApart, Kept
    <3> QED BY <2>1, <3>1, <3>2, <3>3
  <2>4. ASSUME NEW w \in written, NEW q \in DOMAIN records, records[q].id = w.rec.id
        PROVE  Kept(w)'
    <3>1. Kept(w)
      BY <1>2, <2>4 DEF WrittenOK
    <3>2. q = w.seq
      BY <1>2, <2>4, <3>1 DEF IdsApart, Kept
    <3> QED BY <1>3, <2>1, <3>1, <3>2
  <2>5. \A w \in written : w.epoch = epoch => w.seq < next_seq
    BY <1>2 DEF WrittenOK
  <2>6. ASSUME state # NoState, NEW w \in written, w.epoch = state.epoch
        PROVE  Kept(w)' \/ w.seq < state.next_seq \/ \E f \in DOMAIN segments' : w.seq < f
    <3>1. CASE work.nothing_left
      BY <1>2, <2>5, <2>6, <3>1
    <3>2. CASE ~work.nothing_left
      <4>1. ASSUME NEW f \in DOMAIN segments, w.seq < f PROVE \E g \in DOMAIN segments' : w.seq < g
        <5>1. CASE f \in Deleted
          <6>1. PICK g \in DOMAIN segments \ Deleted : f < g
            BY <1>3, <3>2, <5>1
          <6>2. w.seq < g /\ g \in DOMAIN segments'
            BY <1>2, <1>4, <4>1, <6>1 DEF Typed, WrittenOK
          <6> QED BY <6>2
        <5>2. CASE f \notin Deleted
          BY <1>4, <4>1, <5>2
        <5> QED BY <5>1, <5>2
      <4>2. CASE w.seq \in DOMAIN disk /\ disk[w.seq].segment \in Deleted
        <5>1. PICK g \in DOMAIN segments \ Deleted : disk[w.seq].segment < g
          BY <1>3, <3>2, <4>2
        <5>2. disk[w.seq].segment \in Nat /\ g \in Nat
          BY <1>2, <1>3, <4>2 DEF Typed
        <5>3. w.seq < g
          BY <1>2, <4>2, <5>1, <5>2 DEF FilesOK
        <5> QED BY <1>4, <5>3
      <4>3. Kept(w) \/ w.seq < state.next_seq \/ \E f \in DOMAIN segments : w.seq < f
        BY <1>2, <2>6 DEF WrittenOK
      <4> QED BY <2>1, <4>1, <4>2, <4>3
    <3> QED BY <1>2, <3>1, <3>2
  <2>7. SeqsGivenOnce'
    BY <1>1, <1>2 DEF WrittenOK, SeqsGivenOnce
  <2>8. written' \subseteq [epoch : 1..epochs', seq : Nat, rec : Records]
    BY <1>1, <1>2 DEF WrittenOK
  <2> QED BY <1>1, <1>5, <2>2, <2>3, <2>4, <2>5, <2>6, <2>7, <2>8 DEF WrittenOK
<1> QED BY <1>6, <1>7, <1>8, <1>9, <1>10, <1>11, <1>13, <1>14, <1>15 DEF StreamInv

----------------------------------------------------------------------------
(* The restarts. *)

\* The log that `open` starts with keeps the log's invariant, and what its first
\* trim takes away was settled before or is counted lost.
LEMMA OpenedInv ==
    ASSUME LogInv, NEW found, NEW next \in Nat \ {0}, NEW cur \in [Sinks -> Nat],
           DOMAIN found \subseteq 1..(next - 1),
           \A q \in DOMAIN found : found[q] \in Records,
           \A s \in Sinks : cur[s] < next,
           \A q \in DOMAIN found : \A s \in SinksFor(found[q].subject) :
              q <= cur[s] => found[q].id \in taken[s] \cup lost[s],
           Opened(found, next, cur)
    PROVE  /\ LogInv'
           /\ \A q \in DOMAIN records' : q \in DOMAIN found /\ records'[q] = found[q]
           /\ \A q \in DOMAIN found \ DOMAIN records' : \A s \in SinksFor(found[q].subject) :
                 found[q].id \in taken'[s] \cup lost'[s]
           /\ \A s \in Sinks : taken'[s] = taken[s] /\ lost[s] \subseteq lost'[s]
           /\ next_seq' = next /\ offered' = offered
<1> DEFINE mine(s) == {q \in DOMAIN found : s \in SinksFor(found[q].subject) /\ q > cur[s]}
           done(q) == \A s \in SinksFor(found[q].subject) : cur[s] >= q \/ found[q].id \in aged
           out == {q \in DOMAIN found : \A p \in DOMAIN found : p <= q => done(p)}
           isUsage(q) == found[q].subject = "storage.usage"
<1>1. /\ records' = Only(found, DOMAIN found \ out)
      /\ turn_bytes' = Bytes(TurnsOf(Only(found, DOMAIN found \ out)))
      /\ node_bytes' = Bytes(NodesOf(Only(found, DOMAIN found \ out)))
      /\ next_seq' = next
      /\ cursor' = cur
      /\ in_flight_up_to' = [s \in Sinks |-> 0]
      /\ delivered' = [s \in Sinks |-> 0]
      /\ expired' = [s \in Sinks |-> Cardinality(mine(s) \cap out)]
      /\ oversize' = [s \in Sinks |-> 0]
      /\ usage_lost' = Cardinality({q \in mine("SY.storage") \cap out : isUsage(q)})
      /\ batch' = [s \in Sinks |-> NoBatch]
      /\ lost' = [s \in Sinks |-> lost[s] \cup {found[q].id : q \in mine(s) \cap out}]
      /\ owed' = [s \in Sinks |-> Cardinality(mine(s))]
      /\ UNCHANGED <<aged, offered, taken>>
  BY DEF Opened
<1>2. /\ \A q \in out : q \in DOMAIN found /\ \A s \in SinksFor(found[q].subject) :
                            cur[s] >= q \/ found[q].id \in aged
      /\ out \subseteq DOMAIN found
  <2>1. \A q \in DOMAIN found : q \in Nat /\ q <= q
    OBVIOUS
  <2> QED BY <2>1
<1>3. \A s : mine(s) \subseteq DOMAIN found
  OBVIOUS
<1>4. \A q, s : q \in mine(s) <=> q \in DOMAIN found /\ s \in SinksFor(found[q].subject) /\ q > cur[s]
  OBVIOUS
<1>5. {q \in mine("SY.storage") \cap out : isUsage(q)} \subseteq 1..(next - 1)
  BY <1>3
<1> HIDE DEF mine, out, isUsage
<1>6. /\ DOMAIN records' = DOMAIN found \ out
      /\ \A q \in DOMAIN records' : records'[q] = found[q]
  BY <1>1 DEF Only
<1>7. next - 1 \in Nat /\ DOMAIN records' \subseteq 1..(next - 1)
  BY <1>6
<1>8. \A s : /\ mine(s) \cap out \subseteq mine(s) /\ IsFiniteSet(mine(s))
             /\ Cardinality(mine(s)) \in Nat /\ Cardinality(mine(s) \cap out) \in Nat
             /\ Cardinality(mine(s) \ out) + Cardinality(mine(s) \cap out) = Cardinality(mine(s))
             /\ Cardinality(mine(s) \ out) \in Nat
  <2>1. ASSUME NEW s
        PROVE  /\ mine(s) \cap out \subseteq mine(s) /\ IsFiniteSet(mine(s))
               /\ Cardinality(mine(s)) \in Nat /\ Cardinality(mine(s) \cap out) \in Nat
               /\ Cardinality(mine(s) \ out) + Cardinality(mine(s) \cap out) = Cardinality(mine(s))
               /\ Cardinality(mine(s) \ out) \in Nat
    <3>1. mine(s) \in SUBSET (1..(next - 1)) /\ next - 1 \in Nat
      BY <1>3, <1>7
    <3>2. IsFiniteSet(mine(s)) /\ Cardinality(mine(s)) \in Nat
      BY <3>1, SeqsFinite
    <3>3. mine(s) \ (mine(s) \cap out) = mine(s) \ out /\ mine(s) \cap out \in SUBSET mine(s)
      OBVIOUS
    <3>4. /\ Cardinality(mine(s) \ (mine(s) \cap out)) + Cardinality(mine(s) \cap out) = Cardinality(mine(s))
          /\ Cardinality(mine(s) \ (mine(s) \cap out)) \in Nat
          /\ Cardinality(mine(s) \cap out) \in Nat
      BY <3>2, <3>3, CardinalityWithout
    <3> QED BY <3>2, <3>3, <3>4
  <2> QED BY <2>1
<1>9. LogTypeOK'
  <2>1. \A q \in DOMAIN records' : records'[q] \in Records
    BY <1>6
  <2>2. turn_bytes' \in Nat /\ node_bytes' \in Nat
    <3>1. /\ DOMAIN TurnsOf(Only(found, DOMAIN found \ out)) \in SUBSET (1..(next - 1))
          /\ DOMAIN NodesOf(Only(found, DOMAIN found \ out)) \in SUBSET (1..(next - 1))
      BY <1>7 DEF TurnsOf, NodesOf, Only
    <3>2. /\ IsFiniteSet(DOMAIN TurnsOf(Only(found, DOMAIN found \ out)))
          /\ IsFiniteSet(DOMAIN NodesOf(Only(found, DOMAIN found \ out)))
      BY <1>7, <3>1, SeqsFinite
    <3> QED BY <1>1, <3>2, BytesType
  <2>3. usage_lost' \in Nat
    BY <1>1, <1>5, <1>7, SeqsFinite
  <2>4. /\ in_flight_up_to' \in [Sinks -> Nat] /\ delivered' \in [Sinks -> Nat]
        /\ expired' \in [Sinks -> Nat] /\ oversize' \in [Sinks -> Nat] /\ cursor' \in [Sinks -> Nat]
    BY <1>1, <1>8
  <2>5. aged' \subseteq Nat /\ offered' \in Nat /\ next_seq' \in Nat \ {0}
        /\ DOMAIN records' \subseteq 1..(next_seq' - 1)
    BY <1>1, <1>7 DEF LogInv, LogTypeOK
  <2> QED BY <2>1, <2>2, <2>3, <2>4, <2>5 DEF LogTypeOK
<1>10. HistoryTypeOK'
  BY <1>1, <1>8 DEF LogInv, HistoryTypeOK
<1>11. CursorsBehind'
  BY <1>1 DEF CursorsBehind
<1>12. \A s \in Sinks : ~Waiting(s)'
  BY <1>1 DEF Waiting
<1>13. InFlightKept' /\ BatchExact'
  BY <1>1, <1>12 DEF InFlightKept, BatchExact
<1>14. \A s \in Sinks : taken'[s] = taken[s] /\ lost'[s] = lost[s] \cup {found[q].id : q \in mine(s) \cap out}
  BY <1>1
<1>15. CursorHonest'
  BY <1>1, <1>6, <1>14 DEF CursorHonest
<1>16. Accounted'
  <2>1. ASSUME NEW s \in Sinks PROVE Mine(s)' = mine(s) \ out
    BY <1>1, <1>4, <1>6 DEF Mine, Later
  <2>2. ASSUME NEW s \in Sinks
        PROVE  delivered'[s] + expired'[s] + oversize'[s] + Cardinality(Mine(s)') = owed'[s]
    <3>1. /\ delivered'[s] = 0 /\ expired'[s] = Cardinality(mine(s) \cap out)
          /\ oversize'[s] = 0 /\ owed'[s] = Cardinality(mine(s))
      BY <1>1
    <3>2. Cardinality(Mine(s)') = Cardinality(mine(s) \ out)
      BY <2>1
    <3>3. PICK a \in Nat, b \in Nat : a = Cardinality(mine(s) \cap out) /\ b = Cardinality(mine(s) \ out)
                                    /\ b + a = Cardinality(mine(s))
      BY <1>8
    <3>4. delivered'[s] + expired'[s] + oversize'[s] + Cardinality(Mine(s)') = 0 + a + 0 + b
      BY <3>1, <3>2, <3>3
    <3> QED BY <3>1, <3>3, <3>4
  <2> QED BY <2>2 DEF Accounted
<1>17. LogInv'
  BY <1>9, <1>10, <1>11, <1>13, <1>15, <1>16 DEF LogInv
<1>18. ASSUME NEW q \in DOMAIN found \ DOMAIN records', NEW s \in SinksFor(found[q].subject)
       PROVE  found[q].id \in taken'[s] \cup lost'[s]
  <2>1. s \in Sinks /\ q \in out /\ q \in Nat /\ cur[s] \in Nat
    BY <1>6, SinksOfRecord
  <2>2. CASE q <= cur[s]
    BY <1>14, <2>1, <2>2
  <2>3. CASE ~(q <= cur[s])
    <3>1. q \in mine(s) \cap out
      BY <1>4, <2>1, <2>3
    <3> QED BY <1>14, <2>1, <3>1
  <2> QED BY <2>2, <2>3
<1> QED BY <1>1, <1>6, <1>14, <1>17, <1>18

\* The greatest of naturals that are bounded, with 0.
LEMMA MaxWithZero ==
    ASSUME NEW n \in Nat, NEW S \in SUBSET (0..n)
    PROVE  /\ Max({0} \cup S) \in {0} \cup S /\ Max({0} \cup S) \in 0..n
           /\ \A x \in S : x <= Max({0} \cup S)
<1>1. {0} \cup S \in SUBSET (0..n) /\ {0} \cup S # {}
  OBVIOUS
<1> HIDE DEF Max
<1>2. Max({0} \cup S) \in {0} \cup S /\ \A x \in {0} \cup S : x <= Max({0} \cup S)
  BY <1>1, MaxIsGreatest
<1> QED BY <1>1, <1>2

\* What `recover` computes from the files and state.json: a next seq ahead of both,
\* and cursors behind it that claim nothing state.json does not.
LEMMA RecoveredBounds ==
    ASSUME NEW d, NEW n \in Nat, DOMAIN d \subseteq 0..n,
           NEW st, st # NoState => st.next_seq \in Nat \ {0} /\ st.cursors \in [Sinks -> Nat]
    PROVE  /\ LastOnDisk(d) \in Nat /\ \A q \in DOMAIN d : q <= LastOnDisk(d)
           /\ RecoveredNextSeq(d, st) \in Nat \ {0}
           /\ LastOnDisk(d) < RecoveredNextSeq(d, st)
           /\ st # NoState => st.next_seq <= RecoveredNextSeq(d, st)
           /\ \/ RecoveredNextSeq(d, st) = 1
              \/ RecoveredNextSeq(d, st) - 1 \in DOMAIN d
              \/ st # NoState /\ RecoveredNextSeq(d, st) = st.next_seq
           /\ \A s \in Sinks :
                 /\ RecoveredCursor(d, st, s) \in Nat
                 /\ RecoveredCursor(d, st, s) < RecoveredNextSeq(d, st)
                 /\ IF st = NoState THEN RecoveredCursor(d, st, s) = 0
                                    ELSE RecoveredCursor(d, st, s) <= st.cursors[s]
<1> DEFINE last == LastOnDisk(d)
           named == IF st = NoState THEN {} ELSE {st.next_seq}
           next == RecoveredNextSeq(d, st)
<1>1. last \in 0..n /\ last \in {0} \cup DOMAIN d /\ \A q \in DOMAIN d : q <= last
  BY MaxWithZero DEF LastOnDisk
<1>2. next = Max({1, last + 1} \cup named)
  BY DEF RecoveredNextSeq
<1> HIDE DEF last, next
<1>3. \E m \in Nat : {1, last + 1} \cup named \subseteq 0..m
  <2>1. CASE st = NoState
    <3>1. {1, last + 1} \cup named \subseteq 0..(n + 1)
      BY <1>1, <2>1
    <3> QED BY <3>1
  <2>2. CASE st # NoState
    <3>1. {1, last + 1} \cup named \subseteq 0..(n + 1 + st.next_seq)
      BY <1>1, <2>2
    <3> QED BY <2>2, <3>1
  <2> QED BY <2>1, <2>2
<1>4. /\ named \subseteq Nat \ {0} /\ (st # NoState => st.next_seq \in named)
      /\ \A x \in named : st # NoState /\ x = st.next_seq
  OBVIOUS
<1> HIDE DEF named
<1>5. next \in {1, last + 1} \cup named /\ \A x \in {1, last + 1} \cup named : x <= next
  <2>1. PICK m \in Nat : {1, last + 1} \cup named \subseteq 0..m
    BY <1>3
  <2>2. {1, last + 1} \cup named # {}
    OBVIOUS
  <2> QED BY <1>2, <2>1, <2>2, MaxIsGreatest
<1>6. /\ next \in Nat \ {0} /\ last < next
      /\ st # NoState => st.next_seq <= next
      /\ next = 1 \/ next - 1 \in DOMAIN d \/ (st # NoState /\ next = st.next_seq)
  BY <1>1, <1>4, <1>5
<1>7. ASSUME NEW s \in Sinks
      PROVE  /\ RecoveredCursor(d, st, s) \in Nat /\ RecoveredCursor(d, st, s) < next
             /\ IF st = NoState THEN RecoveredCursor(d, st, s) = 0
                                ELSE RecoveredCursor(d, st, s) <= st.cursors[s]
  <2>1. CASE st = NoState
    <3>1. RecoveredCursor(d, st, s) = 0
      BY <2>1 DEF RecoveredCursor
    <3> QED BY <1>6, <2>1, <3>1
  <2>2. CASE st # NoState
    <3>1. RecoveredCursor(d, st, s) = Min({st.cursors[s], last})
      BY <2>2 DEF RecoveredCursor, last
    <3>2. {st.cursors[s], last} \in SUBSET Nat
      BY <1>1, <2>2
    <3>3. /\ Min({st.cursors[s], last}) \in {st.cursors[s], last}
          /\ \A x \in {st.cursors[s], last} : Min({st.cursors[s], last}) <= x
      BY <3>2, MinIsLeast
    <3> QED BY <1>1, <1>6, <2>2, <3>1, <3>2, <3>3
  <2> QED BY <2>1, <2>2
<1> QED BY <1>1, <1>6, <1>7 DEF last, next

\* A restart keeps the invariant, wherever the disk thread was cut short and
\* whatever the power cut took, while no segment is named above the next seq.
LEMMA RestartFromInv ==
    ASSUME StreamInv, NEW out \in SUBSET DOMAIN disk, NEW st \in {state, durable_state},
           RestartFrom(out, st), SegmentsInOrder'
    PROVE  StreamInv'
<1> DEFINE d == Only(disk, DOMAIN disk \ out)
           newest == Max({0} \cup DOMAIN segments)
           found == [q \in DOMAIN d |-> d[q].rec]
           next == RecoveredNextSeq(d, st)
           cur == [s \in Sinks |-> RecoveredCursor(d, st, s)]
           gone == {[epoch |-> disk[q].epoch, seq |-> q, rec |-> disk[q].rec] : q \in out}
<1>1. /\ Opened(found, next, cur)
      /\ disk' = d
      /\ segments' = [f \in DOMAIN segments |-> SegmentEnd(d, f)]
      /\ torn' = (torn \cup {disk[q].segment : q \in out}) \ {newest}
      /\ current' = newest
      /\ last_written_seq' = LastOnDisk(d)
      /\ has_disk' = TRUE
      /\ state' = st
      /\ epoch' = IF st = NoState THEN epochs + 1 ELSE st.epoch
      /\ epochs' = IF st = NoState THEN epochs + 1 ELSE epochs
      /\ written' = written \ gone
      /\ dirty' = FALSE /\ disk_pc' = "idle"
      /\ fsynced_seq' = next_seq' - 1 /\ last_saved' = NoState /\ UNCHANGED durable_state
  BY DEF RestartFrom, Started
<1>2. /\ DOMAIN d = DOMAIN disk \ out
      /\ \A q \in DOMAIN d : d[q] = disk[q]
      /\ DOMAIN found = DOMAIN d
      /\ \A q \in DOMAIN d : found[q] = disk[q].rec
  BY DEF Only
<1>3. \A s \in Sinks : cur[s] = RecoveredCursor(d, st, s)
  OBVIOUS
<1>4. \A q \in out : [epoch |-> disk[q].epoch, seq |-> q, rec |-> disk[q].rec] \in gone
  OBVIOUS
<1> HIDE DEF d, found, next, cur, gone, newest
<1>5. /\ LogInv /\ Typed /\ FilesOK /\ IdsApart /\ StateOK /\ StateHonest /\ WrittenOK
      /\ epochs \in Nat
  BY DEF StreamInv, DiskTypes
<1>6. PICK n \in Nat : DOMAIN disk \subseteq 0..n /\ DOMAIN segments \subseteq 0..n
  BY DEF StreamInv, DiskTypes
<1>7. DOMAIN d \subseteq 0..n
  BY <1>2, <1>6
<1>8. st # NoState => st = state /\ st \in States /\ st.next_seq \in Nat \ {0}
                      /\ st.cursors \in [Sinks -> Nat] /\ st.epoch \in 1..epochs
  BY <1>5 DEF StateOK, States
<1>9. /\ LastOnDisk(d) \in Nat /\ \A q \in DOMAIN d : q <= LastOnDisk(d)
      /\ next \in Nat \ {0}
      /\ LastOnDisk(d) < next
      /\ st # NoState => st.next_seq <= next
      /\ \A s \in Sinks :
            /\ RecoveredCursor(d, st, s) \in Nat
            /\ RecoveredCursor(d, st, s) < next
            /\ IF st = NoState THEN RecoveredCursor(d, st, s) = 0
                               ELSE RecoveredCursor(d, st, s) <= st.cursors[s]
  BY <1>6, <1>7, <1>8, RecoveredBounds DEF next
<1>10. cur \in [Sinks -> Nat] /\ \A s \in Sinks : cur[s] < next
  BY <1>3, <1>9 DEF cur
<1>11. \A q \in DOMAIN d : q \in Nat \ {0} /\ q < next /\ q \in 1..(next - 1)
  BY <1>2, <1>5, <1>9 DEF Typed
<1>12. \A q \in DOMAIN found : found[q] \in Records
  BY <1>2, <1>5 DEF Typed
<1>13. ASSUME NEW q \in DOMAIN found, NEW s \in SinksFor(found[q].subject), q <= cur[s]
       PROVE  found[q].id \in taken[s] \cup lost[s]
  <2>1. s \in Sinks /\ cur[s] \in Nat /\ q \in Nat \ {0}
    BY <1>2, <1>10, <1>11, <1>12, SinksOfRecord
  <2>2. CASE st = NoState
    BY <1>3, <1>9, <1>13, <2>1, <2>2
  <2>3. CASE st # NoState
    <3>1. st = state /\ st.cursors[s] \in Nat /\ cur[s] <= st.cursors[s]
      BY <1>3, <1>8, <1>9, <2>1, <2>3
    <3>2. q <= state.cursors[s] /\ q \in DOMAIN disk /\ found[q] = disk[q].rec
      BY <1>2, <1>13, <2>1, <3>1
    <3> QED BY <1>5, <2>3, <3>1, <3>2 DEF StateHonest
  <2> QED BY <2>2, <2>3
<1>14. /\ LogInv'
       /\ \A q \in DOMAIN records' : q \in DOMAIN found /\ records'[q] = found[q]
       /\ \A q \in DOMAIN found \ DOMAIN records' : \A s \in SinksFor(found[q].subject) :
             found[q].id \in taken'[s] \cup lost'[s]
       /\ \A s \in Sinks : taken'[s] = taken[s] /\ lost[s] \subseteq lost'[s]
       /\ next_seq' = next /\ offered' = offered
  <2>1. DOMAIN found \subseteq 1..(next - 1)
    BY <1>2, <1>11
  <2> QED BY <1>1, <1>5, <1>9, <1>10, <1>12, <1>13, <2>1, OpenedInv
<1>15. /\ newest \in {0} \cup DOMAIN segments /\ newest \in Nat
       /\ \A f \in DOMAIN segments : f <= newest
  BY <1>6, MaxWithZero DEF newest
<1>16. \A q \in DOMAIN disk :
          disk[q] \in [rec : Records, epoch : Nat, segment : DOMAIN segments, synced : BOOLEAN]
  BY <1>5 DEF Typed
<1>17. /\ DOMAIN segments' = DOMAIN segments
       /\ \A f \in DOMAIN segments : segments'[f] \in Nat
       /\ \A q \in DOMAIN d : q <= segments'[d[q].segment]
  <2>1. DOMAIN segments' = DOMAIN segments /\ \A f \in DOMAIN segments : segments'[f] = SegmentEnd(d, f)
    BY <1>1
  <2>2. ASSUME NEW f \in DOMAIN segments
        PROVE  SegmentEnd(d, f) \in Nat /\ \A q \in DOMAIN d : d[q].segment = f => q <= SegmentEnd(d, f)
    <3>1. /\ {f} \cup {q \in DOMAIN d : d[q].segment = f} \in SUBSET (0..n)
          /\ {f} \cup {q \in DOMAIN d : d[q].segment = f} # {}
      BY <1>6, <1>7
    <3>2. /\ SegmentEnd(d, f) \in {f} \cup {q \in DOMAIN d : d[q].segment = f}
          /\ \A x \in {f} \cup {q \in DOMAIN d : d[q].segment = f} : x <= SegmentEnd(d, f)
      BY <3>1, MaxIsGreatest DEF SegmentEnd
    <3> QED BY <3>1, <3>2
  <2>3. \A q \in DOMAIN d : d[q].segment \in DOMAIN segments
    BY <1>2, <1>16
  <2> QED BY <2>1, <2>2, <2>3
<1>18. epoch' \in 1..epochs' /\ epochs' \in Nat /\ epochs <= epochs'
       /\ (st = NoState => epoch' = epochs + 1) /\ (st # NoState => epoch' = st.epoch /\ epochs' = epochs)
  BY <1>1, <1>5, <1>8
<1>19. torn' \subseteq DOMAIN segments
  BY <1>1, <1>5, <1>16 DEF Typed
<1>20. DiskTypes'
  <2>1. \A q \in DOMAIN disk' :
          disk'[q] \in [rec : Records, epoch : Nat, segment : DOMAIN segments', synced : BOOLEAN]
    BY <1>1, <1>2, <1>16, <1>17
  <2>2. fsynced_seq' \in Nat /\ last_written_seq' \in Nat /\ current' \in DOMAIN segments' \cup {0}
    BY <1>1, <1>9, <1>14, <1>15, <1>17
  <2>3. DOMAIN disk' \subseteq Nat \ {0} /\ DOMAIN segments' \subseteq Nat \ {0}
    BY <1>1, <1>2, <1>5, <1>17 DEF Typed
  <2>4. Typed'
    BY <1>1, <1>14, <1>17, <1>18, <1>19, <2>1, <2>2, <2>3 DEF Typed, LogInv
  <2>5. \E m \in Nat : DOMAIN disk' \subseteq 0..m /\ DOMAIN segments' \subseteq 0..m
    BY <1>1, <1>6, <1>7, <1>17
  <2> QED BY <1>1, <1>18, <2>4, <2>5 DEF DiskTypes
<1>21. StateOK'
  <2>1. st # NoState => States' = States
    BY <1>18 DEF States
  <2>2. durable_state' \in {state', NoState}
    BY <1>1, <1>5 DEF StateOK
  <2>3. st # NoState => \A s \in Sinks : st.cursors[s] < st.next_seq
    BY <1>5, <1>8 DEF StateOK
  <2> QED BY <1>1, <1>8, <1>9, <1>14, <1>18, <2>1, <2>2, <2>3 DEF StateOK
<1>22. WorkOK'
  BY <1>1 DEF WorkOK
<1>23. FilesOK'
  <2>1. \A q \in DOMAIN d : \A f \in DOMAIN segments' : f > d[q].segment => q < f
    BY <1>2, <1>5, <1>17 DEF FilesOK
  <2>2. current' \notin torn' /\ \A f \in DOMAIN segments' : f <= current'
    BY <1>1, <1>15, <1>17
  <2>3. \A f \in torn' : f < next_seq'
    <3>1. ASSUME NEW f \in torn' PROVE f < next_seq'
      <4>1. f \in DOMAIN segments /\ f # newest /\ f \in Nat /\ newest \in DOMAIN segments
        BY <1>1, <1>5, <1>15, <1>19 DEF Typed
      <4>2. newest <= next_seq'
        BY <1>1, <1>17, <4>1 DEF SegmentsInOrder
      <4>3. f < newest
        BY <1>15, <4>1
      <4> QED BY <1>9, <1>14, <1>15, <4>1, <4>2, <4>3
    <3> QED BY <3>1
  <2>4. \A q \in DOMAIN d : q < next_seq'
    BY <1>11, <1>14
  <2> QED BY <1>1, <1>17, <2>1, <2>2, <2>3, <2>4 DEF FilesOK
<1>24. IdsApart'
  <2>1. \A q \in DOMAIN records' : q \in DOMAIN disk /\ records'[q] = disk[q].rec
    BY <1>2, <1>14
  <2>2. \A q \in DOMAIN disk' : q \in DOMAIN disk /\ disk'[q] = disk[q]
    BY <1>1, <1>2
  <2>3. /\ \A q \in DOMAIN disk : disk[q].rec.id <= offered
        /\ \A p, q \in DOMAIN disk : disk[p].rec.id = disk[q].rec.id => p = q
        /\ \A w \in written : w.rec.id <= offered
    BY <1>5 DEF IdsApart
  <2>4. \A p \in DOMAIN disk', q \in DOMAIN records' : disk'[p].rec.id = records'[q].id => p = q
    BY <2>1, <2>2, <2>3
  <2>5. \A p, q \in DOMAIN records' : records'[p].id = records'[q].id => p = q
    BY <2>1, <2>3
  <2>6. \A p, q \in DOMAIN disk' : disk'[p].rec.id = disk'[q].rec.id => p = q
    BY <2>2, <2>3
  <2> QED BY <1>1, <1>14, <2>1, <2>2, <2>3, <2>4, <2>5, <2>6 DEF IdsApart
<1>25. DiskSettled'
  <2>1. ASSUME NEW q \in DOMAIN d
        PROVE  \/ q \in DOMAIN records' /\ records'[q] = disk[q].rec
               \/ \A s \in SinksFor(disk[q].rec.subject) : disk[q].rec.id \in taken'[s] \cup lost'[s]
    BY <1>2, <1>14
  <2> QED BY <1>1, <1>2, <2>1 DEF DiskSettled, Settled
<1>26. StateHonest'
  <2>1. ASSUME st # NoState, NEW q \in DOMAIN d, NEW s \in SinksFor(disk[q].rec.subject),
               q <= st.cursors[s]
        PROVE  disk[q].rec.id \in taken'[s] \cup lost'[s]
    <3>1. s \in Sinks
      BY <1>2, <1>16, SinksOfRecord
    <3>2. disk[q].rec.id \in taken[s] \cup lost[s]
      BY <1>2, <1>5, <1>8, <2>1 DEF StateHonest
    <3> QED BY <1>14, <3>1, <3>2
  <2> QED BY <1>1, <1>2, <2>1 DEF StateHonest
<1>27. WrittenOK'
  <2>1. ASSUME NEW w \in written', Kept(w) PROVE Kept(w)' /\ w.seq \in DOMAIN d
    <3>1. w \in written /\ w \notin gone
          /\ w = [epoch |-> w.epoch, seq |-> w.seq, rec |-> w.rec]
      BY <1>1, <1>5 DEF WrittenOK
    <3>2. w.seq \in DOMAIN disk /\ w.seq \notin out
      BY <1>4, <2>1, <3>1 DEF Kept
    <3> QED BY <1>1, <1>2, <2>1, <3>2 DEF Kept
  <2>2. ASSUME NEW w \in written', Settled(w.rec) PROVE Settled(w.rec)'
    <3>1. w.rec \in Records
      BY <1>1, <1>5 DEF WrittenOK
    <3>2. \A s \in SinksFor(w.rec.subject) : s \in Sinks
      BY <3>1, SinksOfRecord
    <3> QED BY <1>14, <2>2, <3>2 DEF Settled
  <2>3. \A w \in written' : Kept(w)' \/ Settled(w.rec)'
    BY <1>1, <1>5, <2>1, <2>2 DEF WrittenOK
  <2>4. written' \subseteq [epoch : 1..epochs', seq : Nat, rec : Records]
    <3>1. 1..epochs \subseteq 1..epochs'
      BY <1>5, <1>18
    <3> QED BY <1>1, <1>5, <3>1 DEF WrittenOK
  <2>5. \A w \in written' : \A p \in DOMAIN disk' : disk'[p].rec.id = w.rec.id => Kept(w)'
    BY <1>1, <1>2, <1>5, <2>1 DEF WrittenOK
  <2>6. \A w \in written' : \A q \in DOMAIN records' : records'[q].id = w.rec.id => Kept(w)'
    BY <1>1, <1>2, <1>5, <1>14, <2>1 DEF WrittenOK
  <2>7. ASSUME st # NoState, NEW w \in written', w.epoch = st.epoch
        PROVE  Kept(w)' \/ w.seq < st.next_seq \/ \E f \in DOMAIN segments' : w.seq < f
    BY <1>1, <1>5, <1>8, <1>17, <2>1, <2>7 DEF WrittenOK
  <2>8. ASSUME NEW w \in written', w.epoch = epoch' PROVE w.seq < next_seq'
    <3>1. w.epoch \in 1..epochs /\ w.seq \in Nat
      BY <1>1, <1>5 DEF WrittenOK
    <3>2. st # NoState /\ w.epoch = st.epoch
      BY <1>5, <1>18, <2>8, <3>1
    <3>3. CASE Kept(w)'
      <4>1. w.seq \in DOMAIN d
        BY <1>1, <3>3 DEF Kept
      <4> QED BY <1>11, <1>14, <4>1
    <3>4. CASE w.seq < st.next_seq
      BY <1>8, <1>9, <1>14, <3>1, <3>2, <3>4
    <3>5. CASE \E f \in DOMAIN segments' : w.seq < f
      <4>1. PICK f \in DOMAIN segments' : w.seq < f
        BY <3>5
      <4>2. f \in Nat /\ f <= next_seq' /\ next_seq' \in Nat
        BY <1>1, <1>5, <1>9, <1>14, <1>17 DEF Typed, SegmentsInOrder
      <4> QED BY <3>1, <4>1, <4>2
    <3> QED BY <2>7, <3>2, <3>3, <3>4, <3>5
  <2>9. SeqsGivenOnce'
    BY <1>1, <1>5 DEF WrittenOK, SeqsGivenOnce
  <2> QED BY <1>1, <2>3, <2>4, <2>5, <2>6, <2>7, <2>8, <2>9 DEF WrittenOK
<1> QED
  BY <1>14, <1>20, <1>21, <1>22, <1>23, <1>24, <1>25, <1>26, <1>27 DEF StreamInv

\* A restart that cannot use the directory leaves the files for a later one.
LEMMA RestartWithoutDiskInv ==
    ASSUME StreamInv, RestartWithoutDisk
    PROVE  StreamInv'
<1>1. /\ Opened(NoRecords, 1, [s \in Sinks |-> 0])
      /\ has_disk' = FALSE /\ epoch' = epochs + 1 /\ epochs' = epochs + 1
      /\ last_written_seq' = 0 /\ dirty' = FALSE /\ disk_pc' = "idle"
      /\ fsynced_seq' = next_seq' - 1 /\ last_saved' = NoState
      /\ UNCHANGED <<disk, segments, torn, current, state, durable_state, written>>
  BY DEF RestartWithoutDisk, Started, segVars
<1>2. /\ LogInv /\ Typed /\ FilesOK /\ IdsApart /\ StateOK /\ StateHonest /\ WrittenOK
      /\ epochs \in Nat
  BY DEF StreamInv, DiskTypes
<1>3. /\ LogInv'
      /\ DOMAIN records' = {}
      /\ \A s \in Sinks : taken'[s] = taken[s] /\ lost[s] \subseteq lost'[s]
      /\ next_seq' = 1 /\ offered' = offered
  <2>1. DOMAIN NoRecords = {}
    BY DEF NoRecords
  <2>2. PICK cur : cur = [s \in Sinks |-> 0]
    OBVIOUS
  <2>3. Opened(NoRecords, 1, cur)
    BY <1>1, <2>2
  <2>4. /\ LogInv'
        /\ \A q \in DOMAIN records' : q \in DOMAIN NoRecords
        /\ \A s \in Sinks : taken'[s] = taken[s] /\ lost[s] \subseteq lost'[s]
        /\ next_seq' = 1 /\ offered' = offered
    <3>1. cur \in [Sinks -> Nat] /\ \A s \in Sinks : cur[s] < 1
      BY <2>2
    <3>2. /\ DOMAIN NoRecords \subseteq 1..(1 - 1) /\ 1 \in Nat \ {0}
          /\ \A q \in DOMAIN NoRecords : FALSE
      BY <2>1
    <3> QED BY <1>2, <2>3, <3>1, <3>2, OpenedInv
  <2> QED BY <2>1, <2>4
<1>4. 1..epochs \subseteq 1..epochs' /\ epoch' \in 1..epochs' /\ epochs' \in Nat
  BY <1>1, <1>2
<1>5. DiskTypes'
  <2>1. Typed'
    <3>1. fsynced_seq' \in Nat /\ last_written_seq' \in Nat /\ LogTypeOK'
      BY <1>1, <1>3 DEF LogInv
    <3>2. /\ DOMAIN disk \subseteq Nat \ {0} /\ DOMAIN segments \subseteq Nat \ {0}
          /\ \A q \in DOMAIN disk :
                disk[q] \in [rec : Records, epoch : Nat, segment : DOMAIN segments, synced : BOOLEAN]
          /\ \A f \in DOMAIN segments : segments[f] \in Nat
          /\ torn \subseteq DOMAIN segments /\ current \in DOMAIN segments \cup {0}
      BY <1>2 DEF Typed
    <3> QED BY <1>1, <1>4, <3>1, <3>2 DEF Typed
  <2> QED BY <1>1, <1>4, <2>1 DEF StreamInv, DiskTypes
<1>6. StateOK'
  <2>1. States \subseteq States'
    BY <1>4 DEF States
  <2> QED BY <1>1, <1>2, <2>1 DEF StateOK
<1>7. WorkOK'
  BY <1>1 DEF WorkOK
<1>8. FilesOK'
  BY <1>1, <1>2 DEF FilesOK
<1>9. IdsApart'
  BY <1>1, <1>2, <1>3 DEF IdsApart
<1>10. DiskSettled'
  BY <1>1 DEF DiskSettled
<1>11. StateHonest'
  <2>1. ASSUME state # NoState, NEW q \in DOMAIN disk, NEW s \in SinksFor(disk[q].rec.subject),
               q <= state.cursors[s]
        PROVE  disk[q].rec.id \in taken'[s] \cup lost'[s]
    <3>1. disk[q].rec \in Records
      BY <1>2 DEF Typed
    <3>2. s \in Sinks
      BY <3>1, SinksOfRecord
    <3>3. disk[q].rec.id \in taken[s] \cup lost[s]
      BY <1>2, <2>1 DEF StateHonest
    <3> QED BY <1>3, <3>2, <3>3
  <2> QED BY <1>1, <2>1 DEF StateHonest
<1>12. WrittenOK'
  <2>1. \A w \in written : Kept(w)' <=> Kept(w)
    BY <1>1 DEF Kept
  <2>2. ASSUME NEW w \in written, Settled(w.rec) PROVE Settled(w.rec)'
    <3>1. w.rec \in Records
      BY <1>2 DEF WrittenOK
    <3>2. \A s \in SinksFor(w.rec.subject) : s \in Sinks
      BY <3>1, SinksOfRecord
    <3> QED BY <1>3, <2>2, <3>2 DEF Settled
  <2>3. written' \subseteq [epoch : 1..epochs', seq : Nat, rec : Records]
    BY <1>1, <1>2, <1>4 DEF WrittenOK
  <2>4. SeqsGivenOnce'
    BY <1>1, <1>2 DEF WrittenOK, SeqsGivenOnce
  <2> QED BY <1>1, <1>2, <2>1, <2>2, <2>3, <2>4 DEF WrittenOK
<1> QED BY <1>3, <1>5, <1>6, <1>7, <1>8, <1>9, <1>10, <1>11, <1>12 DEF StreamInv

----------------------------------------------------------------------------
(* The theorems. *)

\* The router's first start.
LEMMA StreamInit == Init => StreamInv
<1> SUFFICES ASSUME Init PROVE StreamInv
  OBVIOUS
<1>1. LogInv
  BY LogInitInv DEF Init
<1>2. /\ has_disk = TRUE /\ DOMAIN disk = {} /\ DOMAIN segments = {} /\ torn = {} /\ current = 0
      /\ last_written_seq = 0 /\ fsynced_seq = 0 /\ dirty = FALSE
      /\ state = NoState /\ durable_state = NoState /\ last_saved = NoState
      /\ epoch = 1 /\ epochs = 1 /\ disk_pc = "idle" /\ written = {}
  BY DEF Init, NoRecords
<1>3. DOMAIN records = {}
  BY DEF Init, LogInit, NoRecords
<1>4. DiskTypes
  <2>1. Typed
    <3>1. LogTypeOK
      BY <1>1 DEF LogInv
    <3>2. epoch \in 1..epochs /\ last_written_seq \in Nat /\ fsynced_seq \in Nat
      BY <1>2
    <3>3. has_disk \in BOOLEAN /\ dirty \in BOOLEAN
      BY <1>2, Zenon
    <3> QED BY <1>2, <3>1, <3>2, <3>3 DEF Typed
  <2>2. DOMAIN disk \subseteq 0..0 /\ DOMAIN segments \subseteq 0..0
    BY <1>2
  <2> QED BY <1>2, <2>1, <2>2 DEF DiskTypes
<1>5. StateOK /\ WorkOK /\ StateHonest
  BY <1>2 DEF StateOK, WorkOK, StateHonest
<1>6. FilesOK /\ IdsApart /\ DiskSettled
  BY <1>2, <1>3 DEF FilesOK, IdsApart, DiskSettled
<1>7. WrittenOK
  BY <1>2 DEF WrittenOK, SeqsGivenOnce
<1> QED BY <1>1, <1>4, <1>5, <1>6, <1>7 DEF StreamInv

\* Every step keeps the invariant while the segments are in order, a restart too
\* if they are in order after it.
LEMMA StreamStep ==
    ASSUME StreamInv, SegmentsInOrder, [Next]_vars,
           Restart \/ RestartAfterPowerCut => SegmentsInOrder'
    PROVE  StreamInv'
<1>1. CASE UNCHANGED vars
  <2>1. UNCHANGED logVars /\ UNCHANGED diskVars
    BY <1>1 DEF vars
  <2>2. LogInv'
    BY <2>1, LogFrame DEF StreamInv
  <2>3. UNCHANGED filesVars /\ UNCHANGED <<disk_pc, work>>
    BY <2>1 DEF diskVars, filesVars
  <2>4. UNCHANGED <<records, next_seq, offered, taken, lost, cursor>>
    BY <2>1 DEF logVars, sharedVars, historyVars
  <2>5. LogMove
    BY <2>4 DEF LogMove, StreamInv, LogInv, LogTypeOK
  <2>6. DiskTypes'
    <3>1. DiskTypes
      BY DEF StreamInv
    <3> QED BY <2>2, <2>3, <3>1, MoveTypes DEF DiskTypes, Typed
  <2>7. WorkOK'
    BY <2>3, <2>4 DEF StreamInv, WorkOK, filesVars, segVars, stateVars
  <2> QED
    BY <2>2, <2>3, <2>5, <2>6, <2>7, MoveIds, MoveSettled, MoveWritten, MoveFiles DEF StreamInv
<1>2. CASE LogStep
  BY <1>2, LogStepInv
<1>3. ASSUME NEW subject \in Appended, NEW size \in Sizes, PlaceRecord(subject, size) PROVE StreamInv'
  BY <1>3, PlaceRecordInv, ConstantsAssumption
<1>4. CASE WriteRecord
  BY <1>4, WriteRecordInv
<1>5. CASE WriteFails
  BY <1>5, WriteFailsInv
<1>14. CASE Roll
  BY <1>14, RollInv
<1>6. CASE (\E synced \in BOOLEAN : RollFails(synced)) \/ Fsync \/ FsyncFails
  BY <1>6, SyncsInv
<1>7. CASE HousekeepingTrim
  BY <1>7, HousekeepingTrimInv
<1>8. CASE SaveState
  BY <1>8, SaveStateInv
<1>9. CASE SaveStateFails
  BY <1>9, SaveStateFailsInv
<1>10. CASE DiskTrim
  BY <1>10, DiskTrimInv
<1>11. CASE Restart
  <2>1. {} \in SUBSET DOMAIN disk /\ state \in {state, durable_state} /\ RestartFrom({}, state)
    BY <1>11 DEF Restart
  <2> QED BY <1>11, <2>1, RestartFromInv
<1>12. CASE RestartAfterPowerCut
  <2>1. PICK out \in LosablePrefixes : RestartFrom(out, durable_state)
    BY <1>12 DEF RestartAfterPowerCut
  <2>2. out \in SUBSET DOMAIN disk /\ durable_state \in {state, durable_state}
    BY DEF LosablePrefixes
  <2> QED BY <1>12, <2>1, <2>2, RestartFromInv
<1>13. CASE RestartWithoutDisk
  BY <1>13, RestartWithoutDiskInv
<1> QED
  BY <1>1, <1>2, <1>3, <1>4, <1>5, <1>6, <1>7, <1>8, <1>9, <1>10, <1>11, <1>12, <1>13, <1>14
  DEF Next, DiskStep, AppendStep, AnyRestart

\* What the invariant says of the properties.
LEMMA StreamProperties ==
    ASSUME StreamInv
    PROVE  Typed /\ NothingWrittenLost /\ SeqsGivenOnce /\ DiskCovers
<1>1. LogInv /\ Typed /\ WrittenOK /\ IdsApart /\ DiskSettled
  BY DEF StreamInv, DiskTypes
<1>2. NothingWrittenLost
  <2>1. ASSUME NEW w \in written, NEW s \in SinksFor(w.rec.subject), ~(w.rec.id \in taken[s] \cup lost[s])
        PROVE  (\E q \in Mine(s) : records[q] = w.rec) \/ (~has_disk /\ OnDisk(w))
    <3>1. w.rec \in Records /\ s \in Sinks
      BY <1>1, SinksOfRecord DEF WrittenOK
    <3>2. Kept(w)
      BY <1>1, <2>1 DEF WrittenOK, Settled
    <3>3. CASE ~has_disk
      BY <3>2, <3>3 DEF Kept, OnDisk
    <3>4. CASE has_disk
      <4>1. w.seq \in DOMAIN records /\ records[w.seq] = w.rec
        BY <1>1, <2>1, <3>2, <3>4 DEF Kept, DiskSettled, Settled
      <4>2. ~(w.seq <= cursor[s])
        BY <1>1, <2>1, <3>1, <4>1 DEF LogInv, CursorHonest
      <4>3. w.seq \in Nat /\ cursor[s] \in Nat
        BY <1>1, <3>1 DEF WrittenOK, LogInv, LogTypeOK
      <4>4. w.seq \in Mine(s)
        BY <2>1, <4>1, <4>2, <4>3 DEF Mine, Later
      <4> QED BY <4>1, <4>4
    <3> QED BY <3>3, <3>4
  <2> QED BY <2>1 DEF NothingWrittenLost
<1>3. DiskCovers
  <2>1. ASSUME has_disk, NEW w \in written, NEW q \in DOMAIN records, records[q] = w.rec
        PROVE  q \in DOMAIN disk /\ disk[q].rec = w.rec
    <3>1. Kept(w)
      BY <1>1, <2>1 DEF WrittenOK
    <3>2. w.seq = q
      BY <1>1, <2>1, <3>1 DEF Kept, IdsApart
    <3> QED BY <3>1, <3>2 DEF Kept
  <2> QED BY <2>1 DEF DiskCovers
<1> QED BY <1>1, <1>2, <1>3 DEF WrittenOK

\* Only a restart comes back to a next seq below a segment's name.
LEMMA OrderKept ==
    ASSUME StreamInv, SegmentsInOrder, [Next]_vars, orderly'
    PROVE  orderly /\ SegmentsInOrder'
<1>1. /\ Typed /\ WorkOK /\ next_seq \in Nat
  BY DEF StreamInv, DiskTypes, LogInv, LogTypeOK
<1>2. ASSUME UNCHANGED <<has_disk, segments>>, next_seq' \in {next_seq, next_seq + 1}
      PROVE  SegmentsInOrder'
  BY <1>1, <1>2 DEF SegmentsInOrder, Typed
<1>3. ASSUME DOMAIN segments' \subseteq DOMAIN segments, UNCHANGED <<has_disk, next_seq>>
      PROVE  SegmentsInOrder'
  BY <1>3 DEF SegmentsInOrder
<1>4. CASE UNCHANGED vars
  BY <1>3, <1>4 DEF vars, diskVars, segVars, logVars, sharedVars
<1>5. CASE LogStep
  <2>1. UNCHANGED <<next_seq, diskVars>>
    BY <1>5, SenderMoves DEF StreamInv
  <2> QED BY <1>3, <2>1 DEF diskVars, segVars
<1>6. ASSUME NEW subject \in Appended, NEW size \in Sizes, PlaceRecord(subject, size)
      PROVE  orderly /\ SegmentsInOrder'
  <2>1. next_seq' \in {next_seq, next_seq + 1}
    BY <1>6, TakeMoves, ConstantsAssumption DEF PlaceRecord, StreamInv, LogMove
  <2> QED BY <1>2, <1>6, <2>1 DEF PlaceRecord, segVars
<1>7. CASE Roll
  <2>1. /\ DOMAIN segments' = DOMAIN segments \cup {work.seq}
        /\ next_seq = work.seq + 1 /\ work.seq \in Nat
        /\ UNCHANGED <<has_disk, next_seq, orderly>>
    BY <1>1, <1>7 DEF Roll, WithSegment, WorkOK, StreamInv, DiskTypes, logVars, sharedVars
  <2> QED BY <1>1, <2>1 DEF SegmentsInOrder
<1>8. CASE WriteRecord
  <2>1. DOMAIN segments' = DOMAIN segments
    BY <1>8, WriteMoves
  <2> QED BY <1>3, <1>8, <2>1 DEF WriteRecord, AppendEnds, logVars, sharedVars
<1>9. CASE WriteFails
  BY <1>3, <1>9 DEF WriteFails, AppendEnds, logVars, sharedVars
<1>10. ASSUME NEW synced \in BOOLEAN, RollFails(synced) PROVE orderly /\ SegmentsInOrder'
  BY <1>3, <1>10 DEF RollFails, AppendEnds, logVars, sharedVars
<1>11. CASE Fsync
  BY <1>3, <1>11 DEF Fsync, logVars, sharedVars
<1>12. CASE FsyncFails
  BY <1>3, <1>12 DEF FsyncFails, segVars, logVars, sharedVars
<1>13. CASE HousekeepingTrim
  <2>1. next_seq' = next_seq
    BY <1>13, TrimMoves DEF HousekeepingTrim, StreamInv
  <2> QED BY <1>3, <1>13, <2>1 DEF HousekeepingTrim, segVars
<1>14. CASE SaveState
  BY <1>3, <1>14 DEF SaveState, segVars, logVars, sharedVars
<1>15. CASE SaveStateFails
  BY <1>3, <1>15 DEF SaveStateFails, segVars, logVars, sharedVars
<1>16. CASE DiskTrim
  <2>1. DOMAIN segments' \subseteq DOMAIN segments
    BY <1>16 DEF DiskTrim, Only
  <2> QED BY <1>3, <1>16, <2>1 DEF DiskTrim, logVars, sharedVars
<1>17. CASE AnyRestart
  <2>1. orderly' = (orderly /\ SegmentsInOrder')
    BY <1>17 DEF AnyRestart, Restart, RestartAfterPowerCut, RestartWithoutDisk, RestartFrom, Started
  <2> QED BY <2>1
<1> QED
  BY <1>4, <1>5, <1>6, <1>7, <1>8, <1>9, <1>10, <1>11, <1>12, <1>13, <1>14, <1>15, <1>16, <1>17
  DEF Next, DiskStep, AppendStep

\* The invariant of every behaviour, however many restarts and failures.
OrderlyInv == orderly => StreamInv /\ SegmentsInOrder

\* Every step keeps it.
LEMMA OrderlyStep ==
    ASSUME OrderlyInv, [Next]_vars
    PROVE  OrderlyInv'
<1> SUFFICES ASSUME orderly' PROVE StreamInv' /\ SegmentsInOrder'
  BY DEF OrderlyInv
<1>1. orderly
  <2>1. CASE UNCHANGED vars
    BY <2>1 DEF vars, diskVars
  <2>2. CASE AnyRestart
    <3>1. orderly' = (orderly /\ SegmentsInOrder')
      BY <2>2 DEF AnyRestart, Restart, RestartAfterPowerCut, RestartWithoutDisk, RestartFrom, Started
    <3> QED BY <3>1
  <2>3. CASE LogStep
    BY <2>3 DEF LogStep, diskVars
  <2>4. CASE DiskStep
    BY <2>4 DEF DiskStep, AppendStep, PlaceRecord, Roll, RollFails, WriteRecord, WriteFails, AppendEnds,
                Fsync, FsyncFails, HousekeepingTrim, SaveState, SaveStateFails, DiskTrim
  <2> QED BY <2>1, <2>2, <2>3, <2>4 DEF Next
<1>2. StreamInv /\ SegmentsInOrder
  BY <1>1 DEF OrderlyInv
<1>3. SegmentsInOrder'
  BY <1>2, OrderKept
<1> QED BY <1>2, <1>3, StreamStep

\* The disk thread, the senders and the restarts keep the invariant as long as no
\* restart comes back to a next seq below a segment's name; nothing else does.
THEOREM StreamInvariant == Spec => []OrderlyInv
<1>1. Init => OrderlyInv
  BY StreamInit DEF OrderlyInv, Init, SegmentsInOrder, NoRecords
<1>2. OrderlyInv /\ [Next]_vars => OrderlyInv'
  BY OrderlyStep
<1> QED BY <1>1, <1>2, PTL DEF Spec

\* NothingWrittenLost: while the segments stay in order no crash, power cut, failed
\* write, sync, save or open loses a written record.
THEOREM StreamNothingWrittenLost == Spec => []NothingWrittenLost
<1>1. OrderlyInv => NothingWrittenLost
  BY StreamProperties DEF OrderlyInv, NothingWrittenLost
<1> QED BY <1>1, StreamInvariant, PTL

\* WrittenSeqsUnique, likewise: the next seq stays ahead of what was written.
THEOREM StreamSeqsUnique == Spec => []WrittenSeqsUnique
<1>1. OrderlyInv => WrittenSeqsUnique
  BY StreamProperties DEF OrderlyInv, WrittenSeqsUnique
<1> QED BY <1>1, StreamInvariant, PTL

\* DiskCovers, likewise: no segment goes too early, none is written behind a tear.
THEOREM StreamDiskCovers == Spec => []DiskCovers
<1>1. OrderlyInv => DiskCovers
  BY StreamProperties DEF OrderlyInv, DiskCovers
<1> QED BY <1>1, StreamInvariant, PTL

\* TypeOK, likewise: the segment open for appending is one of the Vec's.
THEOREM StreamTypes == Spec => []TypeOK
<1>1. OrderlyInv => TypeOK
  BY StreamProperties DEF OrderlyInv, TypeOK
<1> QED BY <1>1, StreamInvariant, PTL

\* The books and the cursors of the log stay right across the restarts too.
THEOREM StreamLogInvariant == Spec => [](orderly => LogInv)
<1>1. OrderlyInv => (orderly => LogInv)
  BY DEF OrderlyInv, StreamInv
<1> QED BY <1>1, StreamInvariant, PTL

----------------------------------------------------------------------------
(* What keeps the segments in order: first, that none is left empty. *)

\* Every segment holds the record it is named by, or is about to.
Named ==
    \A f \in DOMAIN segments :
        (f \in DOMAIN disk /\ disk[f].segment = f) \/ (disk_pc = "append" /\ f = work.seq)

\* Steps that leave no segment empty: between the creation of a segment and its first
\* write neither does that write fail nor the router stop, and no power cut takes away
\* what was not synced.
NoneLeftEmpty ==
    /\ ~RestartAfterPowerCut
    /\ disk_pc = "append" => ~WriteFails /\ ~AnyRestart

\* Files whose segments and records are the same stay so named.
LEMMA SameNamed ==
    ASSUME Named, SameFiles, DOMAIN segments' = DOMAIN segments, disk_pc # "append"
    PROVE  Named'
BY DEF Named, SameFiles

\* A restart from named files comes back to a next seq above every name.
LEMMA NamedRestart ==
    ASSUME StreamInv, Named, disk_pc # "append", Restart
    PROVE  Named' /\ SegmentsInOrder'
<1>1. Typed /\ StateOK
  BY DEF StreamInv, DiskTypes
<1>2. PICK out \in SUBSET DOMAIN disk : out = {} /\ RestartFrom(out, state)
  BY DEF Restart
<1> DEFINE d == Only(disk, DOMAIN disk \ out)
<1>3. DOMAIN d = DOMAIN disk /\ \A q \in DOMAIN disk : d[q] = disk[q]
  BY <1>2 DEF Only
<1>4. disk' = d /\ DOMAIN segments' = DOMAIN segments /\ next_seq' = RecoveredNextSeq(d, state)
  BY <1>2 DEF RestartFrom, Opened
<1> HIDE DEF d
<1>5. Named'
  BY <1>3, <1>4 DEF Named
<1>6. PICK n \in Nat : DOMAIN d \subseteq 0..n
  BY <1>3 DEF StreamInv, DiskTypes
<1>7. state # NoState => state.next_seq \in Nat \ {0} /\ state.cursors \in [Sinks -> Nat]
  BY <1>1 DEF StateOK, States
<1>8. /\ LastOnDisk(d) \in Nat /\ \A q \in DOMAIN d : q <= LastOnDisk(d)
      /\ next_seq' \in Nat /\ LastOnDisk(d) < next_seq'
  BY <1>4, <1>6, <1>7, RecoveredBounds
<1>9. \A f \in DOMAIN segments : f <= next_seq'
  <2>1. \A f \in DOMAIN segments : f \in DOMAIN d /\ f \in Nat
    BY <1>1, <1>3 DEF Named, Typed
  <2> QED BY <1>8, <2>1
<1> QED BY <1>4, <1>5, <1>9 DEF SegmentsInOrder

\* Every such step leaves each segment with its first record, or about to get it.
LEMMA NamedStep ==
    ASSUME StreamInv, SegmentsInOrder, Named, orderly, [Next]_vars, [NoneLeftEmpty]_vars
    PROVE  Named' /\ orderly'
<1>1. Typed /\ WorkOK
  BY DEF StreamInv, DiskTypes
<1>2. ASSUME UNCHANGED <<disk, segments, disk_pc, work>> PROVE Named'
  BY <1>2 DEF Named
<1>3. ASSUME UNCHANGED <<disk, segments>>, disk_pc # "append" PROVE Named'
  BY <1>3 DEF Named
<1>4. CASE UNCHANGED vars
  BY <1>2, <1>4 DEF vars, diskVars, segVars
<1>5. CASE LogStep
  BY <1>2, <1>5 DEF LogStep, diskVars, segVars
<1>6. ASSUME NEW subject \in Appended, NEW size \in Sizes, PlaceRecord(subject, size)
      PROVE  Named' /\ orderly'
  BY <1>3, <1>6 DEF PlaceRecord, segVars
<1>7. CASE Roll
  <2>1. disk' \in {disk, SyncSegment(current)} /\ disk_pc = "write"
    BY <1>7 DEF Roll
  <2>2. SameFiles
    BY <1>1, <2>1, SyncSame
  <2>3. /\ DOMAIN segments' = DOMAIN segments \cup {work.seq} /\ disk_pc' = "append" /\ work' = work
        /\ orderly' = orderly
    BY <1>7 DEF Roll, WithSegment
  <2> QED BY <2>1, <2>2, <2>3 DEF Named, SameFiles
<1>8. CASE WriteRecord
  <2>1. /\ DOMAIN disk' = DOMAIN disk \cup {work.seq}
        /\ disk'[work.seq] = [rec |-> work.rec, epoch |-> epoch, segment |-> current, synced |-> FALSE]
        /\ \A q \in DOMAIN disk : disk'[q] = disk[q]
        /\ DOMAIN segments' = DOMAIN segments
    BY <1>8, WriteMoves
  <2>2. disk'[work.seq].segment = current
    BY <2>1
  <2>3. disk_pc = "append" => current = work.seq
    BY <1>1 DEF WorkOK
  <2>4. Named'
    BY <2>1, <2>2, <2>3 DEF Named
  <2> QED BY <1>8, <2>4 DEF WriteRecord, AppendEnds
<1>9. CASE WriteFails
  <2>1. CASE UNCHANGED vars
    BY <1>4, <2>1
  <2>2. CASE ~UNCHANGED vars
    <3>1. disk_pc # "append"
      BY <1>9, <2>2 DEF NoneLeftEmpty
    <3> QED BY <1>3, <1>9, <3>1 DEF WriteFails, AppendEnds
  <2> QED BY <2>1, <2>2
<1>10. ASSUME NEW synced \in BOOLEAN, RollFails(synced) PROVE Named' /\ orderly'
  <2>1. /\ disk' \in {disk, SyncSegment(current)} /\ segments' = segments /\ disk_pc = "write"
        /\ orderly' = orderly
    BY <1>10 DEF RollFails, AppendEnds
  <2> QED BY <1>1, <2>1, SyncSame, SameNamed
<1>11. CASE Fsync
  <2>1. /\ disk' \in {disk, SyncSegment(current)} /\ segments' = segments /\ disk_pc = "idle"
        /\ orderly' = orderly
    BY <1>11 DEF Fsync
  <2> QED BY <1>1, <2>1, SyncSame, SameNamed
<1>12. CASE FsyncFails \/ HousekeepingTrim \/ SaveState \/ SaveStateFails
  BY <1>3, <1>12 DEF FsyncFails, HousekeepingTrim, SaveState, SaveStateFails, segVars
<1>13. CASE DiskTrim
  <2>1. /\ disk' = Only(disk, {q \in DOMAIN disk : disk[q].segment \notin Deleted})
        /\ segments' = Only(segments, DOMAIN segments \ Deleted)
        /\ disk_pc = "trim" /\ orderly' = orderly
    BY <1>13 DEF DiskTrim
  <2>2. /\ DOMAIN disk' = {q \in DOMAIN disk : disk[q].segment \notin Deleted}
        /\ \A q \in DOMAIN disk' : disk'[q] = disk[q]
        /\ DOMAIN segments' = DOMAIN segments \ Deleted
    BY <2>1 DEF Only
  <2>3. ASSUME NEW f \in DOMAIN segments'
        PROVE  f \in DOMAIN disk' /\ disk'[f].segment = f
    <3>1. f \in DOMAIN disk /\ disk[f].segment = f /\ f \notin Deleted
      BY <2>1, <2>2 DEF Named
    <3>2. f \in DOMAIN disk'
      BY <2>2, <3>1
    <3> QED BY <2>2, <3>1, <3>2
  <2>4. Named'
    BY <2>3 DEF Named
  <2> QED BY <2>1, <2>4
<1>14. CASE AnyRestart
  <2>1. CASE UNCHANGED vars
    BY <1>4, <2>1
  <2>2. CASE ~UNCHANGED vars
    <3>1. disk_pc # "append" /\ ~RestartAfterPowerCut
      BY <1>14, <2>2 DEF NoneLeftEmpty
    <3>2. CASE Restart
      <4>1. orderly' = (orderly /\ SegmentsInOrder')
        BY <3>2 DEF Restart, RestartFrom, Started
      <4> QED BY <3>1, <3>2, <4>1, NamedRestart
    <3>3. CASE RestartWithoutDisk
      <4>1. orderly' = (orderly /\ SegmentsInOrder') /\ has_disk' = FALSE /\ UNCHANGED <<disk, segments>>
        BY <3>3 DEF RestartWithoutDisk, Started, segVars
      <4> QED BY <1>3, <3>1, <4>1 DEF SegmentsInOrder
    <3> QED BY <1>14, <3>1, <3>2, <3>3 DEF AnyRestart
  <2> QED BY <2>1, <2>2
<1> QED
  BY <1>4, <1>5, <1>6, <1>7, <1>8, <1>9, <1>10, <1>11, <1>12, <1>13, <1>14
  DEF Next, DiskStep, AppendStep

\* The segments stay in order, whatever fails and whenever the router stops, unless a
\* segment is left without its first record: by a write that fails on it, a stop
\* between its creation and that write, or a power cut.
THEOREM StreamStaysInOrder == Spec /\ [][NoneLeftEmpty]_vars => []orderly
<1>1. Init => OrderlyInv /\ Named /\ orderly
  BY StreamInit DEF OrderlyInv, Init, Named, NoRecords, SegmentsInOrder
<1>2. /\ OrderlyInv /\ Named /\ orderly /\ [Next]_vars /\ [NoneLeftEmpty]_vars
      => Named' /\ orderly'
  BY NamedStep DEF OrderlyInv
<1>3. OrderlyInv /\ [Next]_vars => OrderlyInv'
  BY OrderlyStep
<1> QED BY <1>1, <1>2, <1>3, PTL DEF Spec

----------------------------------------------------------------------------
(* Second, that a stop at any step leaves the next seq known. *)

\* The next seq can be recovered as n: from the newest record or from the saved state.
Known(n) == n = 1 \/ n - 1 \in DOMAIN disk \/ (state # NoState /\ state.next_seq = n)

\* While a record is being written, its own seq can be recovered; else the next one.
\* A state that could not be saved would leave neither.
StopSafe ==
    /\ has_disk
    /\ errors = 0
    /\ disk_pc \in {"write", "append"} => Known(work.seq)
    /\ disk_pc \notin {"write", "append"} => Known(next_seq)
    /\ disk_pc = "trim" => state # NoState /\ state.next_seq = next_seq

\* Without a failing disk nothing but a stop of the router disturbs it, and a stop
\* leaves the segments in order.
LEMMA StopSafeRestart ==
    ASSUME StreamInv, SegmentsInOrder, StopSafe, Restart
    PROVE  StopSafe' /\ SegmentsInOrder'
<1>1. Typed /\ StateOK /\ WorkOK /\ next_seq \in Nat \ {0}
  BY DEF StreamInv, DiskTypes, LogInv, LogTypeOK
<1>2. PICK out \in SUBSET DOMAIN disk : out = {} /\ RestartFrom(out, state)
  BY DEF Restart
<1> DEFINE d == Only(disk, DOMAIN disk \ out)
<1>3. DOMAIN d = DOMAIN disk
  BY <1>2 DEF Only
<1>4. /\ disk' = d /\ DOMAIN segments' = DOMAIN segments /\ next_seq' = RecoveredNextSeq(d, state)
      /\ state' = state /\ has_disk' = TRUE /\ disk_pc' = "idle" /\ errors' = errors
  BY <1>2 DEF RestartFrom, Opened, Started
<1> HIDE DEF d
<1>5. PICK n \in Nat : DOMAIN d \subseteq 0..n
  BY <1>3 DEF StreamInv, DiskTypes
<1>6. state # NoState => state.next_seq \in Nat \ {0} /\ state.cursors \in [Sinks -> Nat]
  BY <1>1 DEF StateOK, States
<1>7. /\ LastOnDisk(d) \in Nat /\ \A q \in DOMAIN d : q <= LastOnDisk(d)
      /\ next_seq' \in Nat \ {0} /\ LastOnDisk(d) < next_seq'
      /\ state # NoState => state.next_seq <= next_seq'
  BY <1>4, <1>5, <1>6, RecoveredBounds
<1>8. next_seq' = 1 \/ next_seq' - 1 \in DOMAIN disk \/ (state # NoState /\ state.next_seq = next_seq')
  BY <1>3, <1>4, <1>5, <1>6, RecoveredBounds
<1>9. ASSUME NEW m \in Nat \ {0}, Known(m) PROVE m <= next_seq'
  <2>1. m - 1 \in DOMAIN disk => m - 1 <= LastOnDisk(d) /\ m - 1 \in Nat
    BY <1>3, <1>7
  <2> QED BY <1>7, <1>9, <2>1 DEF Known
<1>10. \A f \in DOMAIN segments : f <= next_seq'
  <2>1. CASE disk_pc \in {"write", "append"}
    <3>1. /\ Known(work.seq) /\ work.seq \in Nat \ {0}
          /\ \A f \in DOMAIN segments : f <= work.seq /\ f \in Nat
      BY <1>1, <2>1 DEF StopSafe, WorkOK, StreamInv, DiskTypes, Typed
    <3>2. work.seq <= next_seq'
      BY <1>9, <3>1
    <3> QED BY <1>7, <3>1, <3>2
  <2>2. CASE disk_pc \notin {"write", "append"}
    <3>1. /\ Known(next_seq) /\ \A f \in DOMAIN segments : f <= next_seq /\ f \in Nat
      BY <1>1, <2>2 DEF StopSafe, SegmentsInOrder, Typed
    <3>2. next_seq <= next_seq'
      BY <1>1, <1>9, <3>1
    <3> QED BY <1>1, <1>7, <3>1, <3>2
  <2> QED BY <2>1, <2>2
<1>11. StopSafe'
  BY <1>3, <1>4, <1>8 DEF StopSafe, Known
<1> QED BY <1>4, <1>10, <1>11 DEF SegmentsInOrder

\* Without a failing disk every step keeps it, whenever the router stops.
LEMMA StopSafeStep ==
    ASSUME MaxDiskErrors = 0, ~PowerCuts,
           StreamInv, SegmentsInOrder, StopSafe, orderly, [Next]_vars
    PROVE  StopSafe' /\ orderly'
<1>1. Typed /\ WorkOK /\ StateOK /\ FilesOK /\ next_seq \in Nat \ {0} /\ ~DiskError
  BY DEF StreamInv, DiskTypes, LogInv, LogTypeOK, StopSafe, DiskError
<1>2. ASSUME UNCHANGED <<has_disk, errors, disk_pc, work, next_seq, state>>,
             DOMAIN disk' = DOMAIN disk
      PROVE  StopSafe'
  BY <1>2 DEF StopSafe, Known
<1>3. ASSUME disk_pc \notin {"write", "append"}, disk_pc' \in {"idle", "save"},
             UNCHANGED <<has_disk, errors, next_seq, state>>, DOMAIN disk' = DOMAIN disk
      PROVE  StopSafe'
  BY <1>3 DEF StopSafe, Known
<1>4. CASE UNCHANGED vars
  BY <1>2, <1>4 DEF vars, diskVars, segVars, stateVars, logVars, sharedVars
<1>5. CASE LogStep
  <2>1. UNCHANGED <<next_seq, diskVars>>
    BY <1>5, SenderMoves DEF StreamInv
  <2> QED BY <1>2, <2>1 DEF diskVars, segVars, stateVars
<1>6. ASSUME NEW subject \in Appended, NEW size \in Sizes, PlaceRecord(subject, size)
      PROVE  StopSafe' /\ orderly'
  <2>1. /\ disk_pc = "idle" /\ UNCHANGED <<has_disk, errors, state, disk, orderly>>
        /\ IF has_disk /\ next_seq' # next_seq
           THEN /\ disk_pc' = "write"
                /\ work' = [seq |-> next_seq, rec |-> records'[next_seq]]
           ELSE UNCHANGED <<disk_pc, work>>
    BY <1>6 DEF PlaceRecord, segVars, stateVars
  <2>2. CASE next_seq' # next_seq
    <3>1. disk_pc' = "write" /\ work'.seq = next_seq /\ Known(next_seq)
      BY <2>1, <2>2 DEF StopSafe
    <3> QED BY <2>1, <3>1 DEF StopSafe, Known
  <2>3. CASE next_seq' = next_seq
    BY <1>3, <2>1, <2>3
  <2> QED BY <2>2, <2>3
<1>7. CASE Roll
  <2>1. /\ disk' = SyncSegment(current) /\ disk_pc = "write" /\ disk_pc' = "append"
        /\ UNCHANGED <<has_disk, errors, work, state, orderly>>
    BY <1>7 DEF Roll, stateVars
  <2>2. DOMAIN disk' = DOMAIN disk
    BY <2>1 DEF SyncSegment
  <2>3. Known(work.seq)
    BY <2>1 DEF StopSafe
  <2> QED BY <2>1, <2>2, <2>3 DEF StopSafe, Known
<1>8. CASE WriteRecord
  <2>1. /\ work.seq \in DOMAIN disk' /\ next_seq = work.seq + 1 /\ work.seq \in Nat
        /\ disk_pc' = "idle" /\ UNCHANGED <<has_disk, errors, next_seq, orderly>>
    <3>1. DOMAIN disk' = DOMAIN disk \cup {work.seq}
      BY <1>8, WriteMoves
    <3>2. disk_pc \in {"write", "append"}
      BY <1>8 DEF WriteRecord, Appending
    <3> QED BY <1>1, <1>8, <3>1, <3>2
            DEF WriteRecord, AppendEnds, WorkOK, logVars, sharedVars, StreamInv, DiskTypes
  <2>2. next_seq' - 1 \in DOMAIN disk'
    BY <2>1
  <2> QED BY <2>1, <2>2 DEF StopSafe, Known
<1>9. CASE WriteFails \/ (\E synced \in BOOLEAN : RollFails(synced)) \/ FsyncFails \/ SaveStateFails
           \/ RestartWithoutDisk
  BY <1>1, <1>9 DEF WriteFails, RollFails, FsyncFails, SaveStateFails, RestartWithoutDisk
<1>10. CASE Fsync
  <2>1. DOMAIN disk' = DOMAIN disk
    BY <1>10 DEF Fsync, SyncSegment
  <2> QED BY <1>2, <1>10, <2>1 DEF Fsync, stateVars, logVars, sharedVars
<1>11. CASE HousekeepingTrim
  <2>1. next_seq' = next_seq
    BY <1>11, TrimMoves DEF HousekeepingTrim, StreamInv
  <2>2. /\ disk_pc = "idle" /\ disk_pc' \in {"idle", "save"}
        /\ UNCHANGED <<has_disk, errors, state, disk, orderly>>
    BY <1>11 DEF HousekeepingTrim, segVars, stateVars
  <2> QED BY <1>3, <2>1, <2>2
<1>12. CASE SaveState
  <2>1. work.state.next_seq = next_seq /\ work.state # NoState
    <3>1. work.state \in States /\ work.state.next_seq = next_seq
      BY <1>1, <1>12 DEF SaveState, WorkOK, StreamInv, DiskTypes
    <3>2. work.state.epoch # 0 /\ NoState.epoch = 0
      BY <3>1 DEF States, NoState
    <3> QED BY <3>1, <3>2
  <2>2. state' = work.state
    BY <1>1, <1>12, <2>1 DEF SaveState, StateOK
  <2>3. /\ disk_pc' = "trim" /\ UNCHANGED <<has_disk, errors, next_seq, orderly>>
    BY <1>12 DEF SaveState, logVars, sharedVars
  <2> QED BY <2>1, <2>2, <2>3 DEF StopSafe, Known
<1>13. CASE DiskTrim
  <2>1. /\ disk_pc = "trim" /\ disk_pc' = "idle"
        /\ UNCHANGED <<has_disk, errors, next_seq, state, orderly>>
    BY <1>13 DEF DiskTrim, stateVars, logVars, sharedVars
  <2> QED BY <2>1 DEF StopSafe, Known
<1>14. CASE Restart
  <2>1. orderly' = (orderly /\ SegmentsInOrder')
    BY <1>14 DEF Restart, RestartFrom, Started
  <2> QED BY <1>14, <2>1, StopSafeRestart
<1> QED
  BY <1>4, <1>5, <1>6, <1>7, <1>8, <1>9, <1>10, <1>11, <1>12, <1>13, <1>14
  DEF Next, DiskStep, AppendStep, AnyRestart, RestartAfterPowerCut

\* A crash of the router loses nothing, reuses no seq and leaves nothing unreadable,
\* at whatever step it comes (between the creation of a segment and its first write
\* too) and however often: only a failing disk or a power cut can.
THEOREM CrashesLoseNothing ==
    ASSUME MaxDiskErrors = 0, ~PowerCuts
    PROVE  Spec => [](orderly /\ NothingWrittenLost /\ SeqsGivenOnce /\ DiskCovers)
<1>1. Init => OrderlyInv /\ StopSafe /\ orderly
  BY StreamInit DEF OrderlyInv, Init, LogInit, StopSafe, Known, NoRecords, SegmentsInOrder
<1>2. OrderlyInv /\ StopSafe /\ orderly /\ [Next]_vars => StopSafe' /\ orderly'
  BY StopSafeStep DEF OrderlyInv
<1>3. OrderlyInv /\ [Next]_vars => OrderlyInv'
  BY OrderlyStep
<1>4. OrderlyInv /\ orderly => NothingWrittenLost /\ SeqsGivenOnce /\ DiskCovers
  BY StreamProperties DEF OrderlyInv
<1> QED BY <1>1, <1>2, <1>3, <1>4, PTL DEF Spec

----------------------------------------------------------------------------
(* SY.cognition as the sink: the inductive invariant. *)

\* What the log, the files and, while the stream uses them, both hold, by seq.
Logged == {[seq |-> q, rec |-> records[q]] : q \in DOMAIN records}
Filed == {[seq |-> q, rec |-> disk[q].rec] : q \in DOMAIN disk}
Stored == Logged \cup Filed
Held == Logged \cup (IF has_disk THEN Filed ELSE {})

\* A record that is not sent (again) to SY.cognition, and one SY.cognition may skip.
NeverSent(r) == r.id \in aged \/ r.size > STREAM_BATCH_MAX_BYTES
Excused(r) == r.id \in accepted \/ NeverSent(r)

Turns == {h \in Held : h.rec.subject = "cognition.turns"}

\* A stream that does without its files runs under an epoch of its own.
CognitionTypes ==
    /\ rpc \in {"none", "sent", "replied", "unanswered"}
    /\ rpc = "none" <=> ~Waiting(Cognition)
    /\ ~has_disk /\ state # NoState => state.epoch # epoch
    /\ \A e \in DOMAIN stream_seen : e \in 1..epochs /\ stream_seen[e] \in Nat
    /\ \A m \in late : m.epoch \in 1..epochs /\ \E n \in Nat : DOMAIN m.records \subseteq 1..n

\* A seq is one record's, in the log and in the files, and an id is.
OneRecord ==
    /\ \A g, h \in Held : g.seq = h.seq => g = h
    /\ \A g, h \in Stored : g.rec.id = h.rec.id => g = h

\* What SY.cognition lost is not sent to it any more.
LostForGood ==
    /\ \A h \in Stored : h.rec.id \in lost[Cognition] => NeverSent(h.rec)
    /\ lost[Cognition] \subseteq 0..offered

\* A batch of this epoch carries what the stream gave those seqs, and of the records
\* up to its last all that SY.cognition may not skip.
Faithful(m) ==
    m.epoch = epoch =>
        /\ \A p \in DOMAIN m.records : p < next_seq
        /\ \A h \in Held : h.seq \in DOMAIN m.records => h.rec = m.records[h.seq]
        /\ \A h \in Turns : \A p \in DOMAIN m.records :
              h.seq <= p => h.seq \in DOMAIN m.records \/ Excused(h.rec)

LateFaithful == \A m \in late : Faithful(m)

\* What is at or below the last seq seen may be skipped.
SeenExcused ==
    /\ SeenBehind
    /\ \A h \in Turns : h.seq <= LastSeen(epoch) => Excused(h.rec)

\* The batch of the call: what SY.cognition skips of it, now or after a late batch,
\* it has accepted, and all of it when it answers.
CallSafe ==
    /\ \A q \in DOMAIN batch[Cognition].records :
          q <= LastSeen(epoch) => batch[Cognition].records[q].id \in accepted
    /\ \A m \in late : m.epoch = epoch =>
          \A q \in DOMAIN batch[Cognition].records : \A p \in DOMAIN m.records :
              q <= p => q \in DOMAIN m.records \/ batch[Cognition].records[q].id \in accepted
    /\ rpc = "replied" =>
          \A q \in DOMAIN batch[Cognition].records : batch[Cognition].records[q].id \in accepted

CognitionInv ==
    /\ CognitionTypes
    /\ OneRecord
    /\ LostForGood
    /\ LateFaithful
    /\ SeenExcused
    /\ CallSafe
    /\ DeliveredWasAccepted

----------------------------------------------------------------------------

\* SY.cognition is the sink of cognition.turns, and of nothing else.
LEMMA CognitionSink ==
    ASSUME RoleRunsCognition
    PROVE  /\ Cognition \in Sinks
           /\ SinksFor("cognition.turns") = {Cognition}
           /\ \A subject \in Subjects : Cognition \in SinksFor(subject) => subject = "cognition.turns"
           /\ "SY.storage" # Cognition
<1>1. SinksFor("cognition.turns") = {Cognition}
  BY DEF SinksFor, Cognition
<1>2. "cognition.turns" \in Subjects
  BY DEF Subjects
<1>3. \A subject \in Subjects : Cognition \in SinksFor(subject) => subject = "cognition.turns"
  BY DEF Subjects, SinksFor, Cognition
<1> QED BY <1>1, <1>2, <1>3, SinksForType DEF Cognition

\* What is stored has a seq and an id that were given out; what is held, in this epoch.
LEMMA StoredTyped ==
    ASSUME StreamInv, NEW h \in Stored
    PROVE  /\ h.seq \in Nat \ {0}
           /\ h.rec \in Records /\ h.rec.id <= offered /\ h.rec.id \in Nat
<1>1. LogTypeOK /\ Typed /\ IdsApart
  BY DEF StreamInv, DiskTypes, LogInv
<1>2. CASE h \in Logged
  BY <1>1, <1>2 DEF Logged, LogTypeOK, IdsApart, Records
<1>3. CASE h \in Filed
  <2>1. PICK q \in DOMAIN disk : h = [seq |-> q, rec |-> disk[q].rec]
    BY <1>3 DEF Filed
  <2>2. disk[q] \in [rec : Records, epoch : Nat, segment : DOMAIN segments, synced : BOOLEAN]
    BY <1>1 DEF Typed
  <2>3. disk[q].rec \in Records /\ disk[q].rec.id \in Nat
    BY <2>2 DEF Records
  <2> QED BY <1>1, <2>1, <2>3 DEF Typed, IdsApart
<1> QED BY <1>2, <1>3 DEF Stored

LEMMA HeldBelow ==
    ASSUME StreamInv, NEW h \in Held
    PROVE  /\ h \in Stored
           /\ h.seq \in Nat \ {0} /\ h.seq < next_seq
           /\ h.rec \in Records /\ h.rec.id <= offered /\ h.rec.id \in Nat
<1>1. LogTypeOK /\ FilesOK /\ next_seq \in Nat
  BY DEF StreamInv, LogInv, LogTypeOK
<1>2. h \in Stored
  BY DEF Held, Stored
<1>3. h.seq < next_seq
  <2>1. CASE h \in Logged
    <3>1. PICK q \in DOMAIN records : h = [seq |-> q, rec |-> records[q]]
      BY <2>1 DEF Logged
    <3>2. q \in 1..(next_seq - 1)
      BY <1>1 DEF LogTypeOK
    <3> QED BY <1>1, <3>1, <3>2
  <2>2. CASE h \in Filed /\ has_disk
    BY <1>1, <2>2 DEF Filed, FilesOK
  <2> QED BY <2>1, <2>2 DEF Held
<1> QED BY <1>2, <1>3, StoredTyped

\* What the log holds is held.
LEMMA RecordHeld ==
    ASSUME NEW q \in DOMAIN records
    PROVE  /\ [seq |-> q, rec |-> records[q]] \in Held
           /\ [seq |-> q, rec |-> records[q]] \in Stored
           /\ records[q].subject = "cognition.turns" => [seq |-> q, rec |-> records[q]] \in Turns
BY DEF Held, Stored, Logged, Turns

\* The batch of a call is as faithful as a late one: it is all the log has for SY.cognition
\* ahead of its cursor, and what is behind the cursor was taken or lost.
LEMMA CallFaithful ==
    ASSUME RoleRunsCognition, StreamInv, CognitionInv, NEW m, m = Message, Waiting(Cognition)
    PROVE  /\ Faithful(m)
           /\ m.epoch \in 1..epochs /\ \E n \in Nat : DOMAIN m.records \subseteq 1..n
           /\ \A q \in DOMAIN m.records : /\ q \in DOMAIN records
                                          /\ records[q] = m.records[q]
                                          /\ records[q].subject = "cognition.turns"
<1>1. /\ LogTypeOK /\ Typed /\ InFlightKept /\ BatchExact /\ CursorHonest /\ DiskSettled
      /\ next_seq \in Nat \ {0} /\ cursor[Cognition] \in Nat /\ in_flight_up_to[Cognition] \in Nat
      /\ epoch \in 1..epochs
  BY CognitionSink DEF StreamInv, DiskTypes, LogInv, LogTypeOK, Typed
<1>2. m.epoch = epoch /\ m.records = batch[Cognition].records
  BY DEF Message
<1>3. \A q \in DOMAIN m.records :
         /\ q \in DOMAIN records /\ records[q] = m.records[q]
         /\ q <= in_flight_up_to[Cognition] /\ q \in 1..(next_seq - 1)
         /\ Cognition \in SinksFor(records[q].subject)
  BY <1>1, <1>2, CognitionSink DEF InFlightKept, BatchExact, LogTypeOK
<1>4. \A q \in DOMAIN m.records : records[q].subject = "cognition.turns"
  BY <1>1, <1>3, CognitionSink DEF LogTypeOK, Records
<1>5. ASSUME NEW h \in Held, h.seq \in DOMAIN m.records PROVE h.rec = m.records[h.seq]
  <2>1. [seq |-> h.seq, rec |-> records[h.seq]] \in Held
    BY <1>3, <1>5, RecordHeld
  <2>2. h = [seq |-> h.seq, rec |-> records[h.seq]]
    BY <2>1 DEF CognitionInv, OneRecord
  <2> QED BY <1>3, <1>5, <2>2
<1>6. ASSUME NEW h \in Turns, NEW p \in DOMAIN m.records, h.seq <= p
      PROVE  h.seq \in DOMAIN m.records \/ Excused(h.rec)
  <2>1. h \in Held /\ h.rec.subject = "cognition.turns"
    BY DEF Turns
  <2>2. h.seq \in Nat \ {0} /\ h.rec \in Records
    BY <2>1, HeldBelow
  <2>3. h.rec.id \in taken[Cognition] \cup lost[Cognition] => Excused(h.rec)
    BY <2>1, HeldBelow DEF CognitionInv, LostForGood, DeliveredWasAccepted, Excused
  <2>4. ASSUME h.seq \in DOMAIN records, records[h.seq] = h.rec
        PROVE  h.seq \in DOMAIN m.records \/ Excused(h.rec)
    <3>1. CASE h.seq <= cursor[Cognition]
      <4>1. Cognition \in SinksFor(records[h.seq].subject)
        BY <2>1, <2>4, CognitionSink
      <4>2. h.rec.id \in taken[Cognition] \cup lost[Cognition]
        BY <1>1, <2>4, <3>1, <4>1, CognitionSink DEF CursorHonest
      <4> QED BY <2>3, <4>2
    <3>2. CASE ~(h.seq <= cursor[Cognition])
      <4>1. h.seq \in Mine(Cognition)
        BY <1>1, <2>1, <2>2, <2>4, <3>2, CognitionSink DEF Mine, Later
      <4>2. h.seq <= batch[Cognition].scanned_up_to
        BY <1>1, <1>3, <1>6, <2>2, CognitionSink DEF BatchExact
      <4> QED BY <1>1, <1>2, <4>1, <4>2, CognitionSink DEF BatchExact
    <3> QED BY <3>1, <3>2
  <2>5. CASE \E q \in DOMAIN records : h = [seq |-> q, rec |-> records[q]]
    BY <2>4, <2>5
  <2>6. CASE has_disk /\ \E q \in DOMAIN disk : h = [seq |-> q, rec |-> disk[q].rec]
    <3>1. PICK q \in DOMAIN disk : h = [seq |-> q, rec |-> disk[q].rec]
      BY <2>6
    <3>2. (q \in DOMAIN records /\ records[q] = disk[q].rec) \/ Settled(disk[q].rec)
      BY <1>1, <2>6 DEF DiskSettled
    <3>3. CASE Settled(disk[q].rec)
      BY <2>1, <2>3, <3>1, <3>3, CognitionSink DEF Settled
    <3> QED BY <2>4, <3>1, <3>2, <3>3
  <2> QED BY <2>1, <2>5, <2>6 DEF Held, Logged, Filed
<1>7. \A p \in DOMAIN m.records : p < next_seq
  BY <1>1, <1>3
<1>8. DOMAIN m.records \subseteq 1..(next_seq - 1) /\ next_seq - 1 \in Nat
  BY <1>1, <1>3
<1> QED BY <1>1, <1>2, <1>3, <1>4, <1>5, <1>6, <1>7, <1>8 DEF Faithful

----------------------------------------------------------------------------
(* A step of the stream, as SY.cognition's records see it. *)

\* Within an epoch the stream holds on to its seqs, gives a new record the next one, and
\* what SY.cognition loses is not sent to it any more.
StreamMove ==
    /\ UNCHANGED <<epoch, epochs, has_disk>>
    /\ next_seq' \in Nat /\ next_seq <= next_seq' /\ offered' \in Nat /\ offered <= offered'
    /\ \E new : /\ new.seq = next_seq /\ new.rec.id = offered + 1
                /\ Held' \subseteq Held \cup {new} /\ Stored' \subseteq Stored \cup {new}
    /\ aged \subseteq aged'
    /\ \A i \in lost'[Cognition] \ lost[Cognition] :
          \E g \in Stored : g.rec.id = i /\ NeverSent(g.rec)

\* What may be skipped stays so.
LEMMA ExcusedStays ==
    ASSUME aged \subseteq aged', accepted \subseteq accepted', NEW r, Excused(r)
    PROVE  Excused(r)'
BY DEF Excused, NeverSent

\* Such a step leaves true what SY.cognition's acks rest on.
LEMMA MoveSafe ==
    ASSUME StreamInv, CognitionInv, StreamMove,
           accepted \subseteq accepted', stream_seen' = stream_seen
    PROVE  OneRecord' /\ LostForGood' /\ SeenExcused'
<1>1. /\ next_seq \in Nat /\ offered \in Nat /\ next_seq' \in Nat /\ offered' \in Nat
      /\ next_seq <= next_seq' /\ offered <= offered' /\ epoch' = epoch
      /\ CognitionTypes /\ SeenExcused /\ OneRecord /\ LostForGood
  BY DEF StreamInv, LogInv, LogTypeOK, StreamMove, CognitionInv, CognitionTypes
<1>2. PICK new : /\ new.seq = next_seq /\ new.rec.id = offered + 1
                 /\ Held' \subseteq Held \cup {new} /\ Stored' \subseteq Stored \cup {new}
  BY DEF StreamMove
<1>3. /\ \A h \in Held : h.seq \in Nat /\ h.seq < next_seq
      /\ \A h \in Stored : h.rec.id \in Nat /\ h.rec.id <= offered
  BY <1>1, HeldBelow, StoredTyped
<1>4. OneRecord'
  <2>1. \A g, h \in Held' : g.seq = h.seq => g = h
    BY <1>1, <1>2, <1>3 DEF OneRecord
  <2>2. \A g, h \in Stored' : g.rec.id = h.rec.id => g = h
    BY <1>1, <1>2, <1>3 DEF OneRecord
  <2> QED BY <2>1, <2>2 DEF OneRecord
<1>5. LostForGood'
  <2>1. \A i \in lost'[Cognition] : i \in 0..offered
    BY <1>1, <1>3 DEF StreamMove, LostForGood
  <2>2. ASSUME NEW h \in Stored', h.rec.id \in lost'[Cognition] PROVE NeverSent(h.rec)'
    <3>1. h # new
      BY <1>1, <1>2, <2>1, <2>2
    <3>2. h \in Stored
      BY <1>2, <3>1
    <3>3. NeverSent(h.rec)
      <4>1. CASE h.rec.id \in lost[Cognition]
        BY <1>1, <3>2, <4>1 DEF LostForGood
      <4>2. CASE h.rec.id \notin lost[Cognition]
        <5>1. PICK g \in Stored : g.rec.id = h.rec.id /\ NeverSent(g.rec)
          BY <2>2, <4>2 DEF StreamMove
        <5> QED BY <1>1, <3>2, <5>1 DEF OneRecord
      <4> QED BY <4>1, <4>2
    <3> QED BY <3>3 DEF StreamMove, NeverSent
  <2> QED BY <1>1, <2>1, <2>2 DEF LostForGood
<1>7. ASSUME NEW h \in Turns' PROVE h \in Turns \/ h = new
  BY <1>2 DEF Turns
<1>8. SeenExcused'
  <2>1. PICK e : e = epoch
    OBVIOUS
  <2>2. PICK n : n = LastSeen(e)
    OBVIOUS
  <2>3. n \in Nat /\ n < next_seq
    BY <1>1, <2>1, <2>2 DEF SeenExcused, SeenBehind, LastSeen, CognitionTypes,
       StreamInv, LogInv, LogTypeOK
  <2>4. LastSeen(e)' = n /\ e = epoch'
    BY <1>1, <2>1, <2>2 DEF LastSeen
  <2>5. SeenBehind'
    BY <1>1, <2>1 DEF SeenExcused, SeenBehind, CognitionTypes
  <2>6. ASSUME NEW h \in Turns', h.seq <= n PROVE Excused(h.rec)'
    <3>1. h # new
      BY <1>1, <1>2, <2>3, <2>6
    <3>2. Excused(h.rec)
      BY <1>1, <1>7, <2>1, <2>2, <2>6, <3>1 DEF SeenExcused
    <3> QED BY <3>2, ExcusedStays DEF StreamMove
  <2>7. LastSeen(epoch)' = n
    BY <2>4 DEF LastSeen
  <2> QED BY <2>5, <2>6, <2>7 DEF SeenExcused
<1> QED BY <1>4, <1>5, <1>8

\* It leaves a batch on its way, or one of a call that ends with it, as faithful.
LEMMA MoveFaithful ==
    ASSUME StreamInv, CognitionInv, StreamMove, accepted \subseteq accepted',
           NEW m, Faithful(m), DOMAIN m.records \subseteq Nat
    PROVE  Faithful(m)'
<1>1. /\ next_seq \in Nat /\ offered \in Nat /\ next_seq' \in Nat
      /\ next_seq <= next_seq' /\ epoch' = epoch
  BY DEF StreamInv, LogInv, LogTypeOK, StreamMove
<1>2. PICK new : new.seq = next_seq /\ Held' \subseteq Held \cup {new}
  BY DEF StreamMove
<1>3. ASSUME NEW h \in Turns' PROVE h \in Turns \/ h = new
  BY <1>2 DEF Turns
<1>4. SUFFICES ASSUME m.epoch = epoch
               PROVE  /\ \A p \in DOMAIN m.records : p < next_seq'
                      /\ \A h \in Held' : h.seq \in DOMAIN m.records => h.rec = m.records[h.seq]
                      /\ \A h \in Turns' : \A p \in DOMAIN m.records :
                            h.seq <= p => h.seq \in DOMAIN m.records \/ Excused(h.rec)'
  BY <1>1 DEF Faithful
<1>5. /\ \A p \in DOMAIN m.records : p < next_seq /\ p \in Nat
      /\ \A h \in Held : h.seq \in DOMAIN m.records => h.rec = m.records[h.seq]
      /\ \A h \in Turns : \A p \in DOMAIN m.records :
            h.seq <= p => h.seq \in DOMAIN m.records \/ Excused(h.rec)
  BY <1>4 DEF Faithful
<1>6. \A p \in DOMAIN m.records : p < next_seq'
  BY <1>1, <1>5
<1>7. \A h \in Held' : h.seq \in DOMAIN m.records => h.rec = m.records[h.seq]
  BY <1>1, <1>2, <1>5
<1>8. ASSUME NEW h \in Turns', NEW p \in DOMAIN m.records, h.seq <= p
      PROVE  h.seq \in DOMAIN m.records \/ Excused(h.rec)'
  <2>1. h # new
    BY <1>1, <1>2, <1>5, <1>8
  <2>2. h.seq \in DOMAIN m.records \/ Excused(h.rec)
    BY <1>3, <1>5, <1>8, <2>1
  <2> QED BY <2>2, ExcusedStays DEF StreamMove
<1> QED BY <1>6, <1>7, <1>8

\* The last seq seen is a natural, and a batch that is taken moves it to its last seq.
LEMMA TakeSees ==
    ASSUME CognitionTypes, epochs \in Nat, NEW m, NEW n \in Nat, DOMAIN m.records \subseteq 1..n,
           m.epoch \in 1..epochs, TakeStreamBatch(m)
    PROVE  /\ LastSeen(m.epoch) \in Nat /\ LastSeen(m.epoch)' \in Nat
           /\ LastSeen(m.epoch) <= LastSeen(m.epoch)'
           /\ LastSeen(m.epoch)' # LastSeen(m.epoch) => LastSeen(m.epoch)' \in DOMAIN m.records
           /\ \A q \in DOMAIN m.records : q <= LastSeen(m.epoch)'
           /\ \A e : e # m.epoch => LastSeen(e)' = LastSeen(e)
           /\ \A e \in DOMAIN stream_seen' : e \in 1..epochs /\ stream_seen'[e] \in Nat
           /\ accepted \subseteq accepted'
           /\ \A q \in DOMAIN m.records : q <= LastSeen(m.epoch) \/ m.records[q].id \in accepted'
<1> DEFINE new == {q \in DOMAIN m.records : ~IsRepeat(m, q)}
<1>1. PICK l : l = LastSeen(m.epoch)
  OBVIOUS
<1>2. l \in Nat
  BY <1>1 DEF LastSeen, CognitionTypes
<1>3. PICK k : k = Max({l} \cup new)
  OBVIOUS
<1>4. /\ stream_seen' = [e \in DOMAIN stream_seen \cup {m.epoch} |->
                            IF e = m.epoch THEN Max({LastSeen(e)} \cup new) ELSE stream_seen[e]]
      /\ accepted' = accepted \cup {m.records[q].id : q \in new}
  BY DEF TakeStreamBatch
<1>5. new = {q \in DOMAIN m.records : ~(q <= l)}
  BY <1>1 DEF IsRepeat
<1> HIDE DEF new
<1>6. k \in {l} \cup new /\ \A x \in {l} \cup new : x <= k
  <2>1. {l} \cup new \in SUBSET (0..(n + l)) /\ n + l \in Nat /\ {l} \cup new # {}
    BY <1>2, <1>5
  <2> QED BY <1>3, <2>1, MaxIsGreatest
<1>7. k \in Nat /\ l <= k /\ (k # l => k \in DOMAIN m.records) /\ \A q \in DOMAIN m.records : q <= k
  BY <1>2, <1>5, <1>6
<1>8. /\ DOMAIN stream_seen' = DOMAIN stream_seen \cup {m.epoch}
      /\ stream_seen'[m.epoch] = k
      /\ \A e \in DOMAIN stream_seen : e # m.epoch => stream_seen'[e] = stream_seen[e]
  BY <1>1, <1>3, <1>4
<1>9. LastSeen(m.epoch)' = k /\ \A e : e # m.epoch => LastSeen(e)' = LastSeen(e)
  BY <1>8 DEF LastSeen
<1>10. \A e \in DOMAIN stream_seen' : e \in 1..epochs /\ stream_seen'[e] \in Nat
  BY <1>7, <1>8 DEF CognitionTypes
<1>11. \A q \in DOMAIN m.records : q <= l \/ m.records[q].id \in accepted'
  BY <1>4, <1>5
<1> QED BY <1>1, <1>2, <1>4, <1>7, <1>9, <1>10, <1>11

----------------------------------------------------------------------------
(* The router's steps move the stream so. *)

\* A step that places nothing.
LEMMA QuietMove ==
    ASSUME StreamInv, UNCHANGED <<epoch, epochs, has_disk, offered>>, aged \subseteq aged',
           next_seq' \in Nat, next_seq <= next_seq',
           Held' \subseteq Held, Stored' \subseteq Stored,
           \A i \in lost'[Cognition] \ lost[Cognition] :
               \E g \in Stored : g.rec.id = i /\ NeverSent(g.rec)
    PROVE  StreamMove
<1>1. next_seq \in Nat /\ offered \in Nat
  BY DEF StreamInv, LogInv, LogTypeOK
<1>2. PICK new : new = [seq |-> next_seq, rec |-> [id |-> offered + 1]]
  OBVIOUS
<1>3. /\ new.seq = next_seq /\ new.rec.id = offered + 1
      /\ Held' \subseteq Held \cup {new} /\ Stored' \subseteq Stored \cup {new}
  BY <1>2
<1> QED BY <1>1, <1>3 DEF StreamMove

\* One that leaves the files' records alone.
LEMMA QuietLogMove ==
    ASSUME StreamInv, UNCHANGED <<epoch, epochs, has_disk, next_seq, offered>>, SameFiles,
           aged \subseteq aged',
           \A q \in DOMAIN records' : q \in DOMAIN records /\ records'[q] = records[q],
           \A i \in lost'[Cognition] \ lost[Cognition] :
               \E g \in Stored : g.rec.id = i /\ NeverSent(g.rec)
    PROVE  StreamMove
<1>1. Logged' \subseteq Logged /\ Filed' \subseteq Filed
  BY DEF SameFiles, Logged, Filed
<1>2. Held' \subseteq Held /\ Stored' \subseteq Stored
  BY <1>1 DEF Held, Stored
<1>3. next_seq \in Nat
  BY DEF StreamInv, LogInv, LogTypeOK
<1> QED BY <1>2, <1>3, QuietMove

\* The senders: what a plan passes over for SY.cognition is past the window or too big.
LEMMA SenderStreamMove ==
    ASSUME RoleRunsCognition, StreamInv, UNCHANGED diskVars, NEW s \in Sinks, SinkStep(s)
    PROVE  StreamMove
<1>1. /\ LogInv /\ HistoryTypeOK /\ LogTypeOK /\ Typed /\ UNCHANGED <<epoch, epochs, has_disk, disk>>
  BY DEF StreamInv, LogInv, DiskTypes, diskVars, segVars
<1>2. SameFiles
  BY <1>1, SyncSame
<1>3. ASSUME PlanBatch(s) PROVE StreamMove
  <2>1. /\ UNCHANGED <<records, next_seq, offered, aged>>
        /\ lost' = [lost EXCEPT ![s] = @ \cup {records[q].id : q \in Passed(s) \cap Mine(s)}]
    BY <1>3 DEF PlanBatch
  <2>2. \A q \in Mine(s) : q \in DOMAIN records /\ q \in Nat
    BY <1>1 DEF Mine, Later, LogTypeOK
  <2>3. \A q \in Passed(s) \cap Mine(s) : Aged(q) \/ TooBig(q)
    <3>1. \A q \in Passed(s) : q \notin Sendable(s)
      <4>1. \A q \in Sendable(s) : q \in Nat
        BY <2>2 DEF Sendable
      <4> QED BY <4>1 DEF Passed
    <3> QED BY <3>1 DEF Sendable
  <2>4. ASSUME NEW i \in lost'[Cognition] \ lost[Cognition]
        PROVE  \E g \in Stored : g.rec.id = i /\ NeverSent(g.rec)
    <3>1. PICK q \in Passed(s) \cap Mine(s) : i = records[q].id
      BY <1>1, <2>1, CognitionSink DEF HistoryTypeOK
    <3>2. PICK g : g = [seq |-> q, rec |-> records[q]]
      OBVIOUS
    <3>3. g \in Stored /\ NeverSent(g.rec) /\ g.rec.id = i
      BY <2>2, <2>3, <3>1, <3>2, RecordHeld DEF NeverSent, Aged, TooBig
    <3> QED BY <3>3
  <2> QED BY <1>1, <1>2, <2>1, <2>4, QuietLogMove
<1>4. ASSUME BatchResolved(s) PROVE StreamMove
  <2>1. UNCHANGED <<records, next_seq, offered, aged, lost>>
    BY <1>4 DEF BatchResolved, BatchAcked, BatchFailed, historyVars
  <2> QED BY <1>1, <1>2, <2>1, QuietLogMove
<1> QED BY <1>3, <1>4 DEF SinkStep

\* The clock.
LEMMA AgeStreamMove ==
    ASSUME StreamInv, UNCHANGED diskVars, NEW q \in DOMAIN records, Age(q)
    PROVE  StreamMove
<1>1. /\ Typed /\ UNCHANGED <<epoch, epochs, has_disk, disk, records, next_seq, offered, lost>>
      /\ aged \subseteq aged'
  BY DEF StreamInv, DiskTypes, diskVars, segVars, Age, sharedVars, historyVars
<1>2. SameFiles
  BY <1>1, SyncSame
<1> QED BY <1>1, <1>2, QuietLogMove

\* What a trim counts as lost for SY.cognition is past the window.
LEMMA TrimLosesAged ==
    ASSUME RoleRunsCognition, LogInv, NEW out \in SUBSET DOMAIN records, \A q \in out : RecordDone(q),
           lost' = LostWith(out), NEW i \in lost'[Cognition] \ lost[Cognition]
    PROVE  \E g \in Stored : g.rec.id = i /\ NeverSent(g.rec)
<1>1. LogTypeOK
  BY DEF LogInv
<1>2. PICK q \in MissedBy(Cognition, out) : i = records[q].id
  BY CognitionSink DEF LostWith
<1>3. q \in out /\ Cognition \in SinksFor(records[q].subject) /\ cursor[Cognition] < q
  BY <1>2 DEF MissedBy
<1>4. q \in Nat /\ cursor[Cognition] \in Nat
  BY <1>1, <1>3, CognitionSink DEF LogTypeOK
<1>5. records[q].id \in aged
  BY <1>3, <1>4 DEF RecordDone
<1>6. PICK g : g = [seq |-> q, rec |-> records[q]]
  OBVIOUS
<1>7. g \in Stored /\ NeverSent(g.rec) /\ g.rec.id = i
  BY <1>2, <1>3, <1>5, <1>6, RecordHeld DEF NeverSent
<1> QED BY <1>7

\* take_incoming: the new record takes the next seq.
LEMMA PlaceStreamMove ==
    ASSUME RoleRunsCognition, StreamInv, NEW subject \in Subjects, NEW size \in Sizes, PlaceRecord(subject, size)
    PROVE  StreamMove
<1> DEFINE out == MakeRoom(subject, size)
<1>1. /\ LogInv /\ LogTypeOK /\ next_seq \in Nat /\ offered \in Nat
      /\ TakeIncoming(subject, size) /\ UNCHANGED <<epoch, epochs, has_disk, disk>>
  BY DEF StreamInv, LogInv, LogTypeOK, PlaceRecord, segVars
<1>2. out \in SUBSET DOMAIN records /\ \A q \in out : RecordDone(q)
  <2>1. \A q \in Leaving : q \in DOMAIN records /\ RecordDone(q)
    BY <1>1 DEF Leaving, LogTypeOK
  <2> QED BY <2>1 DEF MakeRoom
<1>3. offered' = offered + 1 /\ lost' = LostWith(out) /\ UNCHANGED aged
  BY <1>1, Zenon DEF TakeIncoming
<1> HIDE DEF out
<1>4. LogMove
  BY <1>1, TakeMoves
<1>5. \A q \in DOMAIN records' :
          \/ q \in DOMAIN records /\ records'[q] = records[q]
          \/ q = next_seq /\ records'[q].id = offered + 1
  BY <1>4 DEF LogMove
<1>6. next_seq' \in Nat /\ next_seq <= next_seq'
  BY <1>1, <1>4 DEF LogMove
<1>7. PICK new : /\ new.seq = next_seq /\ new.rec.id = offered + 1
                 /\ Logged' \subseteq Logged \cup {new}
  <2>1. CASE \A q \in DOMAIN records' : q \in DOMAIN records /\ records'[q] = records[q]
    <3>1. Logged' \subseteq Logged
      BY <2>1 DEF Logged
    <3>2. PICK new : new = [seq |-> next_seq, rec |-> [id |-> offered + 1]]
      OBVIOUS
    <3>3. new.seq = next_seq /\ new.rec.id = offered + 1
      BY <3>2
    <3> QED BY <3>1, <3>3
  <2>2. CASE ~(\A q \in DOMAIN records' : q \in DOMAIN records /\ records'[q] = records[q])
    <3>1. records'[next_seq].id = offered + 1
      BY <1>5, <2>2
    <3>2. PICK new : new = [seq |-> next_seq, rec |-> records'[next_seq]]
      OBVIOUS
    <3>3. new.seq = next_seq /\ new.rec.id = offered + 1
      BY <3>1, <3>2
    <3>4. Logged' \subseteq Logged \cup {new}
      BY <1>5, <3>2 DEF Logged
    <3> QED BY <3>3, <3>4
  <2> QED BY <2>1, <2>2
<1>9. Held' \subseteq Held \cup {new} /\ Stored' \subseteq Stored \cup {new}
  <2>1. Filed' = Filed
    BY <1>1 DEF Filed
  <2> QED BY <1>1, <1>7, <2>1 DEF Held, Stored
<1>8. \A i \in lost'[Cognition] \ lost[Cognition] : \E g \in Stored : g.rec.id = i /\ NeverSent(g.rec)
  BY <1>1, <1>2, <1>3, TrimLosesAged
<1> QED BY <1>1, <1>3, <1>6, <1>7, <1>8, <1>9 DEF StreamMove

\* The rest of the disk thread's loop: it writes what the log placed, and forgets.
LEMMA DiskStreamMove ==
    ASSUME RoleRunsCognition, StreamInv,
           \/ AppendStep \/ Fsync \/ FsyncFails
           \/ HousekeepingTrim \/ SaveState \/ SaveStateFails \/ DiskTrim
    PROVE  StreamMove
<1>1. LogInv /\ LogTypeOK /\ Typed /\ WorkOK /\ next_seq \in Nat
  BY DEF StreamInv, LogInv, LogTypeOK, DiskTypes
<1>2. ASSUME UNCHANGED <<logVars, epoch, epochs, has_disk>>,
             \A q \in DOMAIN disk' : [seq |-> q, rec |-> disk'[q].rec] \in Stored
      PROVE  StreamMove
  <2>1. UNCHANGED <<records, next_seq, offered, aged, lost>>
    BY <1>2 DEF logVars, sharedVars, historyVars
  <2>2. Logged' = Logged /\ Filed' \subseteq Stored
    BY <1>2, <2>1 DEF Logged, Filed
  <2>3. Held' \subseteq Held /\ Stored' \subseteq Stored
    BY <1>2, <2>2 DEF Held, Stored
  <2> QED BY <1>1, <1>2, <2>1, <2>3, QuietMove
<1>3. ASSUME UNCHANGED <<logVars, epoch, epochs, has_disk>>, disk' \in {disk, SyncSegment(current)}
      PROVE  StreamMove
  <2>1. SameFiles
    BY <1>1, <1>3, SyncSame
  <2>2. \A q \in DOMAIN disk' : [seq |-> q, rec |-> disk'[q].rec] \in Stored
    BY <2>1 DEF SameFiles, Stored, Filed
  <2> QED BY <1>2, <1>3, <2>2
<1>4. CASE WriteRecord
  <2>1. /\ DOMAIN disk' = DOMAIN disk \cup {work.seq}
        /\ disk'[work.seq] = [rec |-> work.rec, epoch |-> epoch, segment |-> current, synced |-> FALSE]
        /\ \A q \in DOMAIN disk : disk'[q] = disk[q]
    BY <1>4, WriteMoves
  <2>2. disk'[work.seq].rec = work.rec
    BY <2>1
  <2>3. work.seq \in DOMAIN records /\ work.rec = records[work.seq]
    BY <1>1, <1>4 DEF WorkOK, WriteRecord, Appending
  <2>4. \A q \in DOMAIN disk' : [seq |-> q, rec |-> disk'[q].rec] \in Stored
    BY <2>1, <2>2, <2>3 DEF Stored, Logged, Filed
  <2>5. UNCHANGED <<logVars, epoch, epochs, has_disk>>
    BY <1>4 DEF WriteRecord, AppendEnds
  <2> QED BY <1>2, <2>4, <2>5
<1>5. CASE Roll
  BY <1>3, <1>5 DEF Roll
<1>6. ASSUME NEW synced \in BOOLEAN, RollFails(synced) PROVE StreamMove
  BY <1>3, <1>6 DEF RollFails, AppendEnds
<1>7. CASE WriteFails
  BY <1>3, <1>7 DEF WriteFails, AppendEnds
<1>8. CASE Fsync
  BY <1>3, <1>8 DEF Fsync
<1>9. CASE FsyncFails \/ SaveState \/ SaveStateFails
  BY <1>3, <1>9 DEF FsyncFails, SaveState, SaveStateFails, segVars
<1>10. CASE HousekeepingTrim
  <2>1. Trim /\ UNCHANGED <<disk, epoch, epochs, has_disk>>
    BY <1>10 DEF HousekeepingTrim, segVars
  <2>2. SameFiles
    BY <1>1, <2>1, SyncSame
  <2>3. /\ records' = Only(records, DOMAIN records \ Leaving) /\ lost' = LostWith(Leaving)
        /\ UNCHANGED <<next_seq, offered, aged>>
    BY <2>1 DEF Trim
  <2>4. Leaving \in SUBSET DOMAIN records /\ \A q \in Leaving : RecordDone(q)
    BY <1>1 DEF Leaving, LogTypeOK
  <2>5. \A i \in lost'[Cognition] \ lost[Cognition] : \E g \in Stored : g.rec.id = i /\ NeverSent(g.rec)
    BY <1>1, <2>3, <2>4, TrimLosesAged
  <2>6. \A q \in DOMAIN records' : q \in DOMAIN records /\ records'[q] = records[q]
    BY <2>3 DEF Only
  <2> QED BY <2>1, <2>2, <2>3, <2>5, <2>6, QuietLogMove
<1>11. CASE DiskTrim
  <2>1. /\ UNCHANGED <<logVars, epoch, epochs, has_disk>>
        /\ disk' = Only(disk, {q \in DOMAIN disk : disk[q].segment \notin Deleted})
    BY <1>11 DEF DiskTrim
  <2>2. \A q \in DOMAIN disk' : q \in DOMAIN disk /\ disk'[q] = disk[q]
    BY <2>1 DEF Only
  <2>3. \A q \in DOMAIN disk' : [seq |-> q, rec |-> disk'[q].rec] \in Stored
    BY <2>2 DEF Stored, Filed
  <2> QED BY <1>2, <2>1, <2>3
<1> QED BY <1>4, <1>5, <1>6, <1>7, <1>8, <1>9, <1>10, <1>11 DEF AppendStep

\* Only a stream that uses its files saves its state.
LEMMA DiskStateKept ==
    ASSUME StreamInv, DiskStep, ~has_disk
    PROVE  state' = state
<1>1. disk_pc = "idle"
  BY DEF StreamInv, WorkOK
<1> QED
  BY <1>1 DEF DiskStep, AppendStep, PlaceRecord, Roll, RollFails, WriteRecord, WriteFails, Appending,
     AppendEnds, Fsync, FsyncFails, HousekeepingTrim, SaveState, SaveStateFails, DiskTrim, stateVars

\* A restart finds what the files hold, or less; what it counts as lost is past the
\* window; and when it goes onward it draws an epoch, or goes on with its own.
LEMMA RestartStreamMove ==
    ASSUME RoleRunsCognition, StreamInv, CognitionInv, NEW out \in SUBSET DOMAIN disk, NEW st \in {state, NoState},
           RestartFrom(out, st), Onward
    PROVE  /\ Held' \subseteq Stored /\ Stored' \subseteq Stored /\ UNCHANGED <<offered, aged>>
           /\ next_seq' \in Nat \ {0}
           /\ \A g, h \in Held' : g.seq = h.seq => g = h
           /\ \A i \in lost'[Cognition] \ lost[Cognition] :
                 \E g \in Stored : g.rec.id = i /\ NeverSent(g.rec)
           /\ has_disk'
           /\ IF epochs' # epochs THEN epoch' = epochs + 1 /\ epochs' = epochs + 1
                                  ELSE StreamMove /\ has_disk
<1> DEFINE d == Only(disk, DOMAIN disk \ out)
           found == [q \in DOMAIN d |-> d[q].rec]
           next == RecoveredNextSeq(d, st)
           cur == [s \in Sinks |-> RecoveredCursor(d, st, s)]
           mine == {q \in DOMAIN found :
                       Cognition \in SinksFor(found[q].subject) /\ q > cur[Cognition]}
           gone == {q \in DOMAIN found : \A p \in DOMAIN found : p <= q =>
                       \A s \in SinksFor(found[p].subject) : cur[s] >= p \/ found[p].id \in aged}
<1>1. /\ Typed /\ StateOK /\ LogTypeOK /\ CognitionTypes
      /\ next_seq \in Nat \ {0} /\ offered \in Nat /\ epochs \in Nat
  BY DEF StreamInv, LogInv, LogTypeOK, DiskTypes, CognitionInv
<1>2. /\ Opened(found, next, cur)
      /\ disk' = d /\ has_disk' = TRUE
      /\ epoch' = IF st = NoState THEN epochs + 1 ELSE st.epoch
      /\ epochs' = IF st = NoState THEN epochs + 1 ELSE epochs
  BY DEF RestartFrom
<1>3. /\ records' = Only(found, DOMAIN found \ gone)
      /\ next_seq' = next
      /\ lost'[Cognition] = lost[Cognition] \cup {found[q].id : q \in mine \cap gone}
      /\ UNCHANGED <<aged, offered>>
  BY <1>2, CognitionSink DEF Opened
<1>4. /\ DOMAIN d \subseteq DOMAIN disk /\ DOMAIN found = DOMAIN d
      /\ \A q \in DOMAIN d : d[q] = disk[q] /\ found[q] = disk[q].rec
  BY DEF Only
<1>5. PICK n \in Nat : DOMAIN d \subseteq 0..n
  BY <1>4 DEF StreamInv, DiskTypes
<1>6. st # NoState => st.next_seq \in Nat \ {0} /\ st.cursors \in [Sinks -> Nat]
  BY <1>1 DEF StateOK, States
<1>7. next \in Nat \ {0} /\ RecoveredCursor(d, st, Cognition) \in Nat
  BY <1>5, <1>6, RecoveredBounds, CognitionSink
<1>8. cur[Cognition] \in Nat
  BY <1>7, CognitionSink
<1>9. \A q \in mine \cap gone : q \in DOMAIN d /\ found[q].id \in aged
  <2> HIDE DEF d, found, next, cur
  <2>1. \A q \in DOMAIN d : q \in Nat
    BY <1>1, <1>4 DEF Typed
  <2>2. ASSUME NEW q \in mine \cap gone PROVE q \in DOMAIN d /\ found[q].id \in aged
    <3>1. q \in DOMAIN d /\ q \in Nat /\ q <= q /\ Cognition \in SinksFor(found[q].subject)
      BY <1>4, <2>1
    <3>2. q > cur[Cognition] /\ (cur[Cognition] >= q \/ found[q].id \in aged)
      BY <1>4, <3>1
    <3> QED BY <1>8, <3>1, <3>2
  <2> QED BY <2>2
<1> HIDE DEF d, found, next, cur, mine, gone
<1>10. Logged' \subseteq Filed /\ Filed' \subseteq Filed
  <2>1. \A q \in DOMAIN records' : q \in DOMAIN disk /\ records'[q] = disk[q].rec
    BY <1>3, <1>4 DEF Only
  <2>2. \A q \in DOMAIN disk' : q \in DOMAIN disk /\ disk'[q].rec = disk[q].rec
    BY <1>2, <1>4
  <2> QED BY <2>1, <2>2 DEF Logged, Filed
<1>11. /\ Held' \subseteq Filed /\ Stored' \subseteq Stored /\ Held' \subseteq Stored
       /\ has_disk => Held' \subseteq Held
  BY <1>10 DEF Held, Stored
<1>12. \A g, h \in Held' : g.seq = h.seq => g = h
  <2>1. \A g, h \in Filed : g.seq = h.seq => g = h
    BY DEF Filed
  <2> QED BY <1>11, <2>1
<1>13. ASSUME NEW i \in lost'[Cognition] \ lost[Cognition]
       PROVE  \E g \in Stored : g.rec.id = i /\ NeverSent(g.rec)
  <2>1. PICK q \in mine \cap gone : i = found[q].id
    BY <1>3
  <2>2. PICK g : g = [seq |-> q, rec |-> disk[q].rec]
    OBVIOUS
  <2>3. g \in Stored /\ g.rec.id = i /\ NeverSent(g.rec)
    BY <1>4, <1>9, <2>1, <2>2 DEF Stored, Filed, NeverSent
  <2> QED BY <2>3
<1>14. ASSUME epochs' = epochs PROVE StreamMove /\ has_disk
  <2>1. st # NoState /\ epoch' = state.epoch /\ epoch' = epoch /\ next_seq <= next_seq'
    BY <1>1, <1>2, <1>3, <1>7, <1>14 DEF Onward
  <2>2. has_disk /\ has_disk' = has_disk
    BY <1>1, <1>2, <2>1 DEF CognitionTypes, Typed
  <2> QED BY <1>3, <1>7, <1>11, <1>13, <1>14, <2>1, <2>2, QuietMove
<1> QED BY <1>1, <1>2, <1>3, <1>7, <1>11, <1>12, <1>13, <1>14

----------------------------------------------------------------------------
(* SY.cognition's steps. *)

\* SY.cognition takes a faithful batch: what it will skip from now on it may skip.
LEMMA TakeSafe ==
    ASSUME StreamInv, CognitionInv, UNCHANGED vars, NEW m, Faithful(m), TakeStreamBatch(m),
           m.epoch \in 1..epochs, NEW n \in Nat, DOMAIN m.records \subseteq 1..n
    PROVE  /\ SeenExcused'
           /\ accepted \subseteq accepted'
           /\ \A e \in DOMAIN stream_seen' : e \in 1..epochs /\ stream_seen'[e] \in Nat
<1>1. /\ UNCHANGED <<epoch, epochs, has_disk, next_seq, records, disk, aged>>
      /\ epochs \in Nat /\ next_seq \in Nat
  BY DEF vars, logVars, diskVars, segVars, sharedVars, StreamInv, DiskTypes, LogInv, LogTypeOK
<1>2. /\ CognitionTypes /\ SeenExcused
  BY DEF CognitionInv
<1>3. /\ LastSeen(m.epoch) \in Nat /\ LastSeen(m.epoch)' \in Nat
      /\ LastSeen(m.epoch)' # LastSeen(m.epoch) => LastSeen(m.epoch)' \in DOMAIN m.records
      /\ \A e : e # m.epoch => LastSeen(e)' = LastSeen(e)
      /\ \A e \in DOMAIN stream_seen' : e \in 1..epochs /\ stream_seen'[e] \in Nat
      /\ accepted \subseteq accepted'
      /\ \A q \in DOMAIN m.records : q <= LastSeen(m.epoch) \/ m.records[q].id \in accepted'
  BY <1>1, <1>2, TakeSees
<1>4. Turns' = Turns
  BY <1>1 DEF Turns, Held, Logged, Filed
<1>5. \A r : Excused(r) => Excused(r)'
  BY <1>1, <1>3, ExcusedStays
<1>6. PICK e : e = epoch
  OBVIOUS
<1>7. LastSeen(epoch)' = LastSeen(e)' /\ LastSeen(epoch) = LastSeen(e)
  BY <1>1, <1>6 DEF LastSeen
<1>8. ASSUME LastSeen(e)' = LastSeen(e) PROVE SeenExcused'
  <2>1. \A h \in Turns' : h.seq <= LastSeen(epoch)' => Excused(h.rec)'
    BY <1>2, <1>4, <1>5, <1>7, <1>8 DEF SeenExcused
  <2>2. LastSeen(e) < next_seq
    BY <1>1, <1>2, <1>6 DEF SeenExcused, SeenBehind, LastSeen, StreamInv, LogInv, LogTypeOK
  <2>3. SeenBehind'
    BY <1>1, <1>6, <1>8, <2>2 DEF SeenBehind, LastSeen
  <2> QED BY <2>1, <2>3 DEF SeenExcused
<1>9. ASSUME LastSeen(e)' # LastSeen(e) PROVE SeenExcused'
  <2>1. m.epoch = epoch /\ m.epoch = e /\ LastSeen(e)' \in DOMAIN m.records
    BY <1>3, <1>6, <1>9
  <2>2. /\ \A p \in DOMAIN m.records : p < next_seq
        /\ \A h \in Held : h.seq \in DOMAIN m.records => h.rec = m.records[h.seq]
        /\ \A h \in Turns : \A p \in DOMAIN m.records :
              h.seq <= p => h.seq \in DOMAIN m.records \/ Excused(h.rec)
    BY <2>1 DEF Faithful
  <2>3. SeenBehind'
    BY <1>1, <1>6, <2>1, <2>2 DEF SeenBehind, LastSeen
  <2>4. ASSUME NEW h \in Turns, h.seq <= LastSeen(e)' PROVE Excused(h.rec)'
    <3>1. h.seq \in DOMAIN m.records \/ Excused(h.rec)
      BY <2>1, <2>2, <2>4
    <3>2. ASSUME h.seq \in DOMAIN m.records PROVE Excused(h.rec)'
      <4>1. h.rec = m.records[h.seq]
        BY <2>2, <3>2 DEF Turns
      <4>2. CASE h.seq <= LastSeen(e)
        BY <1>2, <1>5, <1>7, <4>2 DEF SeenExcused
      <4>3. CASE m.records[h.seq].id \in accepted'
        BY <4>1, <4>3 DEF Excused
      <4> QED BY <1>3, <2>1, <3>2, <4>2, <4>3
    <3> QED BY <1>5, <3>1, <3>2
  <2> QED BY <1>4, <1>7, <2>3, <2>4 DEF SeenExcused
<1> QED BY <1>3, <1>8, <1>9

\* While the stream stands still, faithful batches stay so.
LEMMA StillFaithful ==
    ASSUME UNCHANGED vars, accepted \subseteq accepted', NEW m, Faithful(m)
    PROVE  Faithful(m)'
<1>1. UNCHANGED <<epoch, has_disk, next_seq, records, disk, aged>>
  BY DEF vars, logVars, diskVars, segVars, sharedVars
<1>2. Turns' = Turns /\ Held' = Held
  BY <1>1 DEF Turns, Held, Logged, Filed
<1>3. \A r : Excused(r) => Excused(r)'
  BY <1>1, ExcusedStays
<1> QED BY <1>1, <1>2, <1>3 DEF Faithful

\* The rest of the invariant is about the stream, and accepted only grows.
LEMMA StillKnown ==
    ASSUME CognitionInv, UNCHANGED vars, accepted \subseteq accepted'
    PROVE  OneRecord' /\ LostForGood' /\ DeliveredWasAccepted'
<1>1. UNCHANGED <<has_disk, records, disk, lost, taken, offered, aged>>
  BY DEF vars, logVars, diskVars, segVars, sharedVars, historyVars
<1>2. Held' = Held /\ Stored' = Stored
  BY <1>1 DEF Held, Stored, Logged, Filed
<1> QED BY <1>1, <1>2 DEF CognitionInv, OneRecord, LostForGood, NeverSent, DeliveredWasAccepted

\* SY.cognition takes the batch of the call: all of it is accepted.
LEMMA TakesInv ==
    ASSUME RoleRunsCognition, StreamInv, CognitionInv, CognitionTakes
    PROVE  CognitionInv'
<1>1. /\ rpc = "sent" /\ rpc' \in {"replied", "unanswered"} /\ UNCHANGED vars /\ late' = late
      /\ TakeStreamBatch(Message)
  BY DEF CognitionTakes
<1>2. /\ UNCHANGED <<epoch, epochs, has_disk, state, batch>> /\ epochs \in Nat
  BY <1>1 DEF vars, logVars, diskVars, stateVars, StreamInv, DiskTypes
<1>3. CognitionTypes /\ CallSafe /\ LateFaithful /\ Waiting(Cognition)
  BY <1>1 DEF CognitionInv, CognitionTypes
<1>4. PICK m : m = Message
  OBVIOUS
<1>5. Faithful(m) /\ m.epoch \in 1..epochs /\ \E n \in Nat : DOMAIN m.records \subseteq 1..n
  BY <1>3, <1>4, CallFaithful
<1>6. PICK n \in Nat : DOMAIN m.records \subseteq 1..n
  BY <1>5
<1>7. TakeStreamBatch(m)
  BY <1>1, <1>4
<1>8. /\ SeenExcused' /\ accepted \subseteq accepted'
      /\ \A e \in DOMAIN stream_seen' : e \in 1..epochs /\ stream_seen'[e] \in Nat
  BY <1>1, <1>5, <1>6, <1>7, TakeSafe
<1>9. \A q \in DOMAIN m.records : q <= LastSeen(m.epoch) \/ m.records[q].id \in accepted'
  BY <1>2, <1>3, <1>5, <1>6, <1>7, TakeSees
<1>10. m.epoch = epoch /\ m.records = batch[Cognition].records
  BY <1>4 DEF Message
<1>11. \A q \in DOMAIN batch[Cognition].records : batch[Cognition].records[q].id \in accepted'
  BY <1>3, <1>8, <1>9, <1>10 DEF CallSafe
<1>12. CallSafe'
  BY <1>2, <1>11 DEF CallSafe
<1>13. CognitionTypes'
  BY <1>1, <1>2, <1>3, <1>8 DEF CognitionTypes, Waiting
<1>14. LateFaithful'
  BY <1>1, <1>3, <1>8, StillFaithful DEF LateFaithful
<1> QED BY <1>1, <1>8, <1>12, <1>13, <1>14, StillKnown DEF CognitionInv

\* A late batch takes nothing away: what it makes SY.cognition skip of the call's batch
\* is what it brought.
LEMMA TakesLateInv ==
    ASSUME RoleRunsCognition, StreamInv, CognitionInv, CognitionTakesLate
    PROVE  CognitionInv'
<1>1. PICK m \in late : TakeStreamBatch(m) /\ late' = late \ {m}
  BY DEF CognitionTakesLate
<1>2. UNCHANGED vars /\ rpc' = rpc
  BY DEF CognitionTakesLate
<1>3. UNCHANGED <<epoch, epochs, has_disk, state, batch>> /\ epochs \in Nat
  BY <1>2 DEF vars, logVars, diskVars, stateVars, StreamInv, DiskTypes
<1>4. CognitionTypes /\ CallSafe /\ LateFaithful
  BY DEF CognitionInv
<1>5. Faithful(m) /\ m.epoch \in 1..epochs /\ \E n \in Nat : DOMAIN m.records \subseteq 1..n
  BY <1>4 DEF LateFaithful, CognitionTypes
<1>6. PICK n \in Nat : DOMAIN m.records \subseteq 1..n
  BY <1>5
<1>7. /\ SeenExcused' /\ accepted \subseteq accepted'
      /\ \A e \in DOMAIN stream_seen' : e \in 1..epochs /\ stream_seen'[e] \in Nat
  BY <1>1, <1>2, <1>5, <1>6, TakeSafe
<1>8. /\ LastSeen(m.epoch)' # LastSeen(m.epoch) => LastSeen(m.epoch)' \in DOMAIN m.records
      /\ \A e : e # m.epoch => LastSeen(e)' = LastSeen(e)
      /\ \A q \in DOMAIN m.records : q <= LastSeen(m.epoch) \/ m.records[q].id \in accepted'
  BY <1>1, <1>3, <1>4, <1>5, <1>6, TakeSees
<1>9. PICK e : e = epoch
  OBVIOUS
<1>10. LastSeen(epoch)' = LastSeen(e)' /\ LastSeen(epoch) = LastSeen(e)
  BY <1>3, <1>9 DEF LastSeen
<1>11. ASSUME NEW q \in DOMAIN batch[Cognition].records, q <= LastSeen(e)'
       PROVE  batch[Cognition].records[q].id \in accepted'
  <2>1. CASE LastSeen(e)' = LastSeen(e)
    BY <1>4, <1>7, <1>10, <1>11, <2>1 DEF CallSafe
  <2>2. CASE LastSeen(e)' # LastSeen(e)
    <3>1. m.epoch = epoch /\ m.epoch = e /\ LastSeen(e)' \in DOMAIN m.records
      BY <1>8, <1>9, <2>2
    <3>2. q \in DOMAIN m.records \/ batch[Cognition].records[q].id \in accepted
      BY <1>4, <1>11, <3>1 DEF CallSafe
    <3>3. ASSUME q \in DOMAIN m.records PROVE batch[Cognition].records[q].id \in accepted'
      <4>1. Waiting(Cognition)
        BY <1>11 DEF Waiting, NoBatch, NoRecords
      <4>2. q \in DOMAIN records /\ records[q] = batch[Cognition].records[q]
        BY <4>1, CognitionSink DEF StreamInv, LogInv, InFlightKept
      <4>3. PICK h : h = [seq |-> q, rec |-> records[q]]
        OBVIOUS
      <4>4. h \in Held /\ h.seq = q /\ h.rec = records[q]
        BY <4>2, <4>3, RecordHeld
      <4>5. records[q] = m.records[q]
        BY <1>5, <3>1, <3>3, <4>4 DEF Faithful
      <4>6. CASE q <= LastSeen(e)
        BY <1>4, <1>7, <1>10, <4>6 DEF CallSafe
      <4> QED BY <1>8, <3>1, <3>3, <4>2, <4>5, <4>6
    <3> QED BY <1>7, <3>2, <3>3
  <2> QED BY <2>1, <2>2
<1>12. CallSafe'
  <2>1. \A k \in late' : k \in late
    BY <1>1
  <2> QED BY <1>2, <1>3, <1>4, <1>7, <1>10, <1>11, <2>1 DEF CallSafe
<1>13. CognitionTypes'
  BY <1>1, <1>2, <1>3, <1>4, <1>7 DEF CognitionTypes, Waiting
<1>14. LateFaithful'
  BY <1>1, <1>2, <1>4, <1>7, StillFaithful DEF LateFaithful
<1> QED BY <1>2, <1>7, <1>12, <1>13, <1>14, StillKnown DEF CognitionInv

\* A restarted SY.cognition skips nothing.
LEMMA CognitionRestartsInv ==
    ASSUME RoleRunsCognition, StreamInv, CognitionInv, CognitionRestarts
    PROVE  CognitionInv'
<1>1. stream_seen' = NoRecords /\ UNCHANGED vars /\ UNCHANGED <<rpc, late, accepted>>
  BY DEF CognitionRestarts
<1>2. UNCHANGED <<epoch, epochs, has_disk, state, batch, records, disk>>
  BY <1>1 DEF vars, logVars, diskVars, sharedVars, segVars, stateVars
<1>3. CognitionTypes /\ CallSafe /\ LateFaithful /\ InFlightKept /\ LogTypeOK
  BY DEF CognitionInv, CognitionTypes, StreamInv, LogInv
<1>4. LastSeen(epoch)' = 0 /\ DOMAIN stream_seen' = {}
  BY <1>1 DEF LastSeen, NoRecords
<1>5. SeenExcused'
  <2>1. \A h \in Turns' : h.seq \in Nat \ {0}
    BY <1>2, HeldBelow DEF Turns, Held, Logged, Filed
  <2> QED BY <1>4, <2>1 DEF SeenExcused, SeenBehind
<1>6. CallSafe'
  <2>1. \A q \in DOMAIN batch[Cognition].records : q \in Nat \ {0}
    <3>1. ASSUME NEW q \in DOMAIN batch[Cognition].records PROVE q \in DOMAIN records
      <4>1. Waiting(Cognition)
        BY DEF Waiting, NoBatch, NoRecords
      <4> QED BY <1>3, <4>1, CognitionSink DEF InFlightKept
    <3> QED BY <1>3, <3>1 DEF LogTypeOK
  <2> QED BY <1>1, <1>2, <1>3, <1>4, <2>1 DEF CallSafe
<1>7. CognitionTypes'
  BY <1>1, <1>2, <1>3, <1>4 DEF CognitionTypes, Waiting
<1>8. LateFaithful'
  BY <1>1, <1>3, StillFaithful DEF LateFaithful
<1> QED BY <1>1, <1>5, <1>6, <1>7, <1>8, StillKnown DEF CognitionInv

----------------------------------------------------------------------------
(* The router's steps, with the call. *)

\* A batch that is put on its way was faithful, and has a type.
LEMMA StrayFaithful ==
    ASSUME RoleRunsCognition, StreamInv, CognitionInv, NEW m \in late', late' \in Stray
    PROVE  /\ Faithful(m)
           /\ m.epoch \in 1..epochs /\ \E n \in Nat : DOMAIN m.records \subseteq 1..n
<1>1. CognitionTypes /\ LateFaithful
  BY DEF CognitionInv
<1>2. CASE m \in late
  BY <1>1, <1>2 DEF LateFaithful, CognitionTypes
<1>3. CASE m \notin late
  <2>1. PICK k : k = Message
    OBVIOUS
  <2>2. rpc = "sent" /\ m = k
    BY <1>3, <2>1 DEF Stray
  <2>3. Waiting(Cognition)
    BY <1>1, <2>2 DEF CognitionTypes
  <2> QED BY <2>1, <2>2, <2>3, CallFaithful
<1> QED BY <1>2, <1>3

\* Within an epoch: what is left to show of a router's step.
LEMMA RouterMoves ==
    ASSUME RoleRunsCognition, StreamInv, CognitionInv, StreamMove, late' \in Stray,
           UNCHANGED <<stream_seen, accepted>>,
           rpc' \in {"none", "sent", "replied", "unanswered"}, rpc' = "none" <=> ~Waiting(Cognition)',
           ~has_disk => state' = state, CallSafe', DeliveredWasAccepted'
    PROVE  CognitionInv'
<1>1. UNCHANGED <<epoch, epochs, has_disk>>
  BY DEF StreamMove
<1>2. OneRecord' /\ LostForGood' /\ SeenExcused'
  BY MoveSafe
<1>3. ASSUME NEW m \in late' PROVE Faithful(m)'
  <2>1. Faithful(m) /\ \E n \in Nat : DOMAIN m.records \subseteq 1..n
    BY StrayFaithful
  <2>2. DOMAIN m.records \subseteq Nat
    BY <2>1
  <2> QED BY <2>1, <2>2, MoveFaithful
<1>4. \A m \in late' : m.epoch \in 1..epochs /\ \E n \in Nat : DOMAIN m.records \subseteq 1..n
  BY StrayFaithful
<1>5. CognitionTypes'
  BY <1>1, <1>4 DEF CognitionInv, CognitionTypes
<1> QED BY <1>2, <1>3, <1>5 DEF CognitionInv, LateFaithful

\* No batch waits: nothing is claimed of one.
LEMMA NoCall ==
    ASSUME batch'[Cognition] = NoBatch
    PROVE  CallSafe' /\ ~Waiting(Cognition)'
<1>1. DOMAIN batch'[Cognition].records = {}
  BY DEF NoBatch, NoRecords
<1> QED BY <1>1 DEF CallSafe, Waiting

\* The plan: what SY.cognition would skip of the batch, now or after a late one, it has.
LEMMA SendBatchInv ==
    ASSUME RoleRunsCognition, StreamInv, CognitionInv, SendBatch
    PROVE  CognitionInv'
<1>1. /\ PlanBatch(Cognition) /\ UNCHANGED diskVars /\ UNCHANGED <<late, stream_seen, accepted>>
      /\ rpc' = IF batch'[Cognition] = NoBatch THEN rpc ELSE "sent"
  BY DEF SendBatch
<1>2. UNCHANGED <<epoch, state, taken, records>>
  BY <1>1 DEF diskVars, stateVars, PlanBatch
<1>3. StreamMove
  BY <1>1, SenderStreamMove, CognitionSink DEF SinkStep
<1>4. CognitionTypes /\ SeenExcused /\ LateFaithful /\ LogTypeOK /\ BatchExact
      /\ DeliveredWasAccepted
  BY DEF CognitionInv, StreamInv, LogInv
<1>6. DeliveredWasAccepted'
  BY <1>1, <1>2, <1>4 DEF DeliveredWasAccepted
<1>7. batch[Cognition] = NoBatch /\ rpc = "none"
  BY <1>1, <1>4 DEF PlanBatch, Waiting, CognitionTypes
<1>8. late' \in Stray
  BY <1>1 DEF Stray
<1>9. CASE batch'[Cognition] = NoBatch
  BY <1>1, <1>2, <1>3, <1>4, <1>6, <1>7, <1>8, <1>9, NoCall, RouterMoves DEF CognitionTypes
<1>10. CASE batch'[Cognition] # NoBatch
  <2>1. batch'[Cognition].records = Only(records, Planned(Cognition))
    BY <1>1, <1>4, <1>7, <1>10, CognitionSink DEF PlanBatch, BatchExact
  <2>2. ASSUME NEW q \in DOMAIN batch'[Cognition].records
        PROVE  /\ q \in DOMAIN records /\ batch'[Cognition].records[q] = records[q]
               /\ [seq |-> q, rec |-> records[q]] \in Turns
               /\ ~NeverSent(records[q])
    <3>1. q \in DOMAIN records /\ q \in Planned(Cognition)
          /\ batch'[Cognition].records[q] = records[q]
      BY <2>1 DEF Only
    <3>2. /\ Cognition \in SinksFor(records[q].subject) /\ ~Aged(q) /\ ~TooBig(q)
      BY <3>1 DEF Planned, Sendable, Mine
    <3>3. records[q].subject = "cognition.turns"
      BY <1>4, <3>1, <3>2, CognitionSink DEF LogTypeOK, Records
    <3> QED BY <3>1, <3>2, <3>3, RecordHeld DEF NeverSent, Aged, TooBig
  <2>3. ASSUME NEW q \in DOMAIN batch'[Cognition].records, Excused(records[q])
        PROVE  batch'[Cognition].records[q].id \in accepted
    BY <2>2, <2>3 DEF Excused
  <2>4. LastSeen(epoch)' = LastSeen(epoch)
    BY <1>1, <1>2 DEF LastSeen
  <2>5. ASSUME NEW q \in DOMAIN batch'[Cognition].records, q <= LastSeen(epoch)
        PROVE  batch'[Cognition].records[q].id \in accepted
    <3>1. PICK h : h = [seq |-> q, rec |-> records[q]]
      OBVIOUS
    <3>2. h \in Turns /\ h.seq = q /\ h.rec = records[q]
      BY <2>2, <3>1
    <3> QED BY <1>4, <2>3, <2>5, <3>2 DEF SeenExcused
  <2>6. ASSUME NEW m \in late, m.epoch = epoch, NEW q \in DOMAIN batch'[Cognition].records,
               NEW p \in DOMAIN m.records, q <= p
        PROVE  q \in DOMAIN m.records \/ batch'[Cognition].records[q].id \in accepted
    <3>1. PICK h : h = [seq |-> q, rec |-> records[q]]
      OBVIOUS
    <3>2. h \in Turns /\ h.seq = q /\ h.rec = records[q]
      BY <2>2, <3>1
    <3> QED BY <1>4, <2>3, <2>6, <3>2 DEF LateFaithful, Faithful
  <2>7. rpc' = "sent"
    BY <1>1, <1>10
  <2>8. CallSafe'
    BY <1>1, <1>2, <2>4, <2>5, <2>6, <2>7 DEF CallSafe
  <2>9. Waiting(Cognition)'
    BY <1>10 DEF Waiting
  <2> QED BY <1>2, <1>3, <1>4, <1>6, <1>8, <2>7, <2>8, <2>9, <1>1, RouterMoves
             DEF CognitionTypes
<1> QED BY <1>9, <1>10

\* The ack: all of the batch was accepted.
LEMMA AckArrivesInv ==
    ASSUME RoleRunsCognition, StreamInv, CognitionInv, AckArrives
    PROVE  CognitionInv'
<1> DEFINE b == batch[Cognition]
<1>1. /\ rpc = "replied" /\ BatchAcked(Cognition, b.last_seq) /\ rpc' = "none"
      /\ UNCHANGED diskVars /\ UNCHANGED <<late, stream_seen, accepted>>
  BY DEF AckArrives
<1>2. /\ CognitionTypes /\ CallSafe /\ DeliveredWasAccepted /\ Waiting(Cognition)
      /\ BatchExact /\ LogTypeOK /\ HistoryTypeOK
  BY <1>1 DEF CognitionInv, CognitionTypes, StreamInv, LogInv
<1>3. state' = state
  BY <1>1 DEF diskVars, stateVars
<1>4. b.last_seq \in Nat /\ 1 <= b.last_seq
  <2>1. b.last_seq = in_flight_up_to[Cognition] /\ cursor[Cognition] < b.last_seq
    BY <1>1, <1>2, CognitionSink DEF BatchExact, BatchAcked, AckAccepted
  <2>2. in_flight_up_to[Cognition] \in Nat /\ cursor[Cognition] \in Nat
    BY <1>2, CognitionSink DEF LogTypeOK
  <2> QED BY <2>1, <2>2
<1>5. BatchResolved(Cognition)
  <2>1. b.last_seq \in 1..b.last_seq
    BY <1>4
  <2> QED BY <1>1, <2>1 DEF BatchResolved
<1>6. StreamMove
  BY <1>1, <1>5, SenderStreamMove, CognitionSink DEF SinkStep
<1>7. /\ batch'[Cognition] = NoBatch
      /\ taken'[Cognition] = taken[Cognition] \cup
             {b.records[q].id : q \in {p \in DOMAIN b.records : p <= b.last_seq}}
  BY <1>1, <1>2, CognitionSink DEF BatchAcked, BatchExact, HistoryTypeOK
<1>8. DeliveredWasAccepted'
  BY <1>1, <1>2, <1>7 DEF DeliveredWasAccepted, CallSafe
<1>10. late' \in Stray
  BY <1>1 DEF Stray
<1> HIDE DEF b
<1> QED
  BY <1>1, <1>2, <1>3, <1>6, <1>7, <1>8, <1>10, NoCall, RouterMoves DEF CognitionTypes

\* The call ends without an ack.
LEMMA CallFailsInv ==
    ASSUME RoleRunsCognition, StreamInv, CognitionInv, CallFails
    PROVE  CognitionInv'
<1>1. /\ BatchFailed(Cognition) /\ rpc' = "none" /\ late' \in Stray
      /\ UNCHANGED diskVars /\ UNCHANGED <<stream_seen, accepted>>
  BY DEF CallFails
<1>2. CognitionTypes /\ DeliveredWasAccepted /\ BatchExact
  BY DEF CognitionInv, StreamInv, LogInv
<1>3. UNCHANGED <<state, taken>>
  BY <1>1 DEF diskVars, stateVars, BatchFailed, historyVars
<1>4. StreamMove
  BY <1>1, SenderStreamMove, CognitionSink DEF SinkStep, BatchResolved
<1>5. batch'[Cognition] = NoBatch
  BY <1>1, <1>2, CognitionSink DEF BatchFailed, BatchExact
<1>6. DeliveredWasAccepted'
  BY <1>1, <1>2, <1>3 DEF DeliveredWasAccepted
<1> QED BY <1>1, <1>2, <1>3, <1>4, <1>5, <1>6, NoCall, RouterMoves DEF CognitionTypes

\* A restart under an epoch SY.cognition never saw.
LEMMA FreshEpoch ==
    ASSUME RoleRunsCognition, StreamInv, CognitionInv, late' \in Stray, rpc' = "none", batch'[Cognition] = NoBatch,
           UNCHANGED <<stream_seen, accepted, offered, aged, taken>>,
           epoch' = epochs + 1, epochs' = epochs + 1, next_seq' \in Nat,
           Held' \subseteq Stored, Stored' \subseteq Stored,
           \A g, h \in Held' : g.seq = h.seq => g = h,
           \A i \in lost'[Cognition] \ lost[Cognition] :
               \E g \in Stored : g.rec.id = i /\ NeverSent(g.rec),
           ~has_disk' => state' = state
    PROVE  CognitionInv'
<1>1. /\ CognitionTypes /\ OneRecord /\ LostForGood /\ DeliveredWasAccepted
      /\ epochs \in Nat /\ offered \in Nat
  BY DEF CognitionInv, StreamInv, DiskTypes, LogInv, LogTypeOK
<1>2. CallSafe' /\ ~Waiting(Cognition)'
  BY NoCall
<1>3. DeliveredWasAccepted'
  BY <1>1 DEF DeliveredWasAccepted
<1>4. \A m \in late' : m.epoch \in 1..epochs /\ \E n \in Nat : DOMAIN m.records \subseteq 1..n
  BY StrayFaithful
<1>5. CognitionTypes'
  <2>1. ~has_disk' /\ state' # NoState => state'.epoch # epoch'
    <3>1. state # NoState => state.epoch \in 1..epochs
      BY DEF StreamInv, StateOK, States
    <3> QED BY <1>1, <3>1
  <2> QED BY <1>1, <1>2, <1>4, <2>1 DEF CognitionTypes
<1>6. LateFaithful'
  BY <1>1, <1>4 DEF LateFaithful, Faithful
<1>7. OneRecord'
  BY <1>1 DEF OneRecord
<1>8. LostForGood'
  <2>1. ASSUME NEW h \in Stored', h.rec.id \in lost'[Cognition] PROVE NeverSent(h.rec)'
    <3>1. h \in Stored
      OBVIOUS
    <3>2. CASE h.rec.id \in lost[Cognition]
      BY <1>1, <3>1, <3>2 DEF LostForGood, NeverSent
    <3>3. CASE h.rec.id \notin lost[Cognition]
      <4>1. PICK g \in Stored : g.rec.id = h.rec.id /\ NeverSent(g.rec)
        BY <2>1, <3>3
      <4> QED BY <1>1, <3>1, <4>1 DEF NeverSent, OneRecord
    <3> QED BY <3>2, <3>3
  <2>2. \A h \in Stored : h.rec.id \in Nat /\ h.rec.id <= offered
    BY StoredTyped
  <2>3. lost'[Cognition] \subseteq 0..offered'
    BY <1>1, <2>2 DEF LostForGood
  <2> QED BY <2>1, <2>3 DEF LostForGood
<1>9. epochs + 1 \notin DOMAIN stream_seen
  BY <1>1 DEF CognitionTypes
<1>10. LastSeen(epoch)' = 0 /\ epoch' \notin DOMAIN stream_seen'
  BY <1>9 DEF LastSeen
<1>11. SeenExcused'
  <2>1. \A h \in Turns' : h.seq \in Nat \ {0}
    BY StoredTyped DEF Turns
  <2> QED BY <1>10, <2>1 DEF SeenExcused, SeenBehind
<1> QED BY <1>2, <1>3, <1>5, <1>6, <1>7, <1>8, <1>11 DEF CognitionInv

\* The router restarts and goes onward: with its epoch, or with one SY.cognition never saw.
LEMMA RouterRestartsInv ==
    ASSUME RoleRunsCognition, StreamInv, CognitionInv, RouterRestarts, ~rewound'
    PROVE  CognitionInv'
<1>1. /\ AnyRestart /\ rpc' = "none" /\ late' \in Stray /\ UNCHANGED <<stream_seen, accepted>>
      /\ Onward
  BY DEF RouterRestarts
<1>2. DeliveredWasAccepted /\ epochs \in Nat
  BY DEF CognitionInv, StreamInv, DiskTypes
<1>3. ASSUME NEW out \in SUBSET DOMAIN disk, NEW st \in {state, NoState}, RestartFrom(out, st)
      PROVE  CognitionInv'
  <2>1. /\ Held' \subseteq Stored /\ Stored' \subseteq Stored /\ UNCHANGED <<offered, aged>>
        /\ next_seq' \in Nat \ {0}
        /\ \A g, h \in Held' : g.seq = h.seq => g = h
        /\ \A i \in lost'[Cognition] \ lost[Cognition] :
              \E g \in Stored : g.rec.id = i /\ NeverSent(g.rec)
        /\ has_disk'
        /\ IF epochs' # epochs THEN epoch' = epochs + 1 /\ epochs' = epochs + 1
                               ELSE StreamMove /\ has_disk
    BY <1>1, <1>3, RestartStreamMove
  <2>2. taken' = taken /\ batch'[Cognition] = NoBatch
    BY <1>3, CognitionSink DEF RestartFrom, Opened
  <2>3. CallSafe' /\ ~Waiting(Cognition)' /\ DeliveredWasAccepted'
    BY <1>1, <1>2, <2>2, NoCall DEF DeliveredWasAccepted
  <2>4. CASE epochs' # epochs
    BY <1>1, <2>1, <2>2, <2>4, FreshEpoch
  <2>5. CASE epochs' = epochs
    BY <1>1, <2>1, <2>3, <2>5, RouterMoves
  <2> QED BY <2>4, <2>5
<1>4. CASE Restart
  BY <1>3, <1>4 DEF Restart
<1>5. CASE RestartAfterPowerCut
  <2>1. PICK out \in LosablePrefixes : RestartFrom(out, durable_state)
    BY <1>5 DEF RestartAfterPowerCut
  <2>2. out \in SUBSET DOMAIN disk /\ durable_state \in {state, NoState}
    BY DEF LosablePrefixes, StreamInv, StateOK
  <2> QED BY <1>3, <2>1, <2>2
<1>6. CASE RestartWithoutDisk
  <2>1. /\ Opened(NoRecords, 1, [s \in Sinks |-> 0]) /\ has_disk' = FALSE
        /\ epoch' = epochs + 1 /\ epochs' = epochs + 1 /\ UNCHANGED <<disk, state>>
    BY <1>6 DEF RestartWithoutDisk, segVars
  <2>2. /\ DOMAIN records' = {} /\ next_seq' = 1 /\ batch'[Cognition] = NoBatch
        /\ lost'[Cognition] = lost[Cognition] /\ UNCHANGED <<taken, offered, aged>>
    <3>1. DOMAIN NoRecords = {}
      BY DEF NoRecords
    <3>2. /\ next_seq' = 1 /\ batch'[Cognition] = NoBatch /\ UNCHANGED <<taken, offered, aged>>
      BY <2>1, CognitionSink DEF Opened
    <3>3. DOMAIN records' = {}
      BY <2>1, <3>1 DEF Opened, Only
    <3>4. lost'[Cognition] = lost[Cognition]
      BY <2>1, <3>1, CognitionSink DEF Opened
    <3> QED BY <3>2, <3>3, <3>4
  <2>3. Held' = {} /\ Stored' \subseteq Stored
    <3>1. Logged' = {} /\ Filed' = Filed
      BY <2>1, <2>2 DEF Logged, Filed
    <3> QED BY <2>1, <3>1 DEF Held, Stored
  <2> QED BY <1>1, <2>1, <2>2, <2>3, FreshEpoch
<1> QED BY <1>1, <1>4, <1>5, <1>6 DEF AnyRestart

\* The disk thread, the clock and SY.storage's sender leave the call alone.
LEMMA RouterWorksInv ==
    ASSUME RoleRunsCognition, StreamInv, CognitionInv, RouterWorks
    PROVE  CognitionInv'
<1>1. UNCHANGED cognitionVars
  BY DEF RouterWorks
<1>2. UNCHANGED <<rpc, late, stream_seen, accepted>>
  BY <1>1 DEF cognitionVars
<1>3. /\ CognitionTypes /\ CallSafe /\ DeliveredWasAccepted /\ BatchExact /\ HistoryTypeOK
  BY DEF CognitionInv, StreamInv, LogInv
<1>4. late' \in Stray
  BY <1>2 DEF Stray
<1>5. ASSUME StreamMove, ~has_disk => state' = state,
             batch'[Cognition] = batch[Cognition], taken'[Cognition] = taken[Cognition]
      PROVE  CognitionInv'
  <2>1. epoch' = epoch
    BY <1>5 DEF StreamMove
  <2>2. LastSeen(epoch)' = LastSeen(epoch)
    BY <1>2, <2>1 DEF LastSeen
  <2>3. CallSafe'
    BY <1>2, <1>3, <1>5, <2>1, <2>2 DEF CallSafe
  <2>4. DeliveredWasAccepted'
    BY <1>2, <1>3, <1>5 DEF DeliveredWasAccepted
  <2>5. /\ rpc' \in {"none", "sent", "replied", "unanswered"}
        /\ rpc' = "none" <=> ~Waiting(Cognition)'
    BY <1>2, <1>3, <1>5 DEF CognitionTypes, Waiting
  <2> QED BY <1>2, <1>3, <1>4, <1>5, <2>3, <2>4, <2>5, RouterMoves
<1>6. ASSUME SinkStep("SY.storage"), UNCHANGED diskVars PROVE CognitionInv'
  <2>1. "SY.storage" \in Sinks /\ "SY.storage" # Cognition /\ Cognition \in Sinks
    BY UsageSink, CognitionSink
  <2>2. StreamMove
    BY <1>6, <2>1, SenderStreamMove
  <2>3. state' = state
    BY <1>6 DEF diskVars, stateVars
  <2>4. batch'[Cognition] = batch[Cognition] /\ taken'[Cognition] = taken[Cognition]
    BY <1>3, <1>6, <2>1 DEF SinkStep, PlanBatch, BatchResolved, BatchAcked, BatchFailed,
       BatchExact, HistoryTypeOK, historyVars
  <2> QED BY <1>5, <2>2, <2>3, <2>4
<1>7. ASSUME NEW q \in DOMAIN records, Age(q), UNCHANGED diskVars PROVE CognitionInv'
  <2>1. StreamMove
    BY <1>7, AgeStreamMove
  <2>2. UNCHANGED <<state, batch, taken>>
    BY <1>7 DEF diskVars, stateVars, Age, sharedVars, historyVars
  <2> QED BY <1>5, <2>1, <2>2
<1>8. ASSUME NEW subject \in Appended, NEW size \in Sizes, PlaceRecord(subject, size)
      PROVE  CognitionInv'
  <2>1. subject \in Subjects
    BY ConstantsAssumption
  <2>2. StreamMove
    BY <1>8, <2>1, PlaceStreamMove
  <2>3. UNCHANGED <<batch, taken>>
    BY <1>8, Zenon DEF PlaceRecord, TakeIncoming
  <2>4. state' = state
    BY <1>8 DEF PlaceRecord, stateVars
  <2> QED BY <1>5, <2>2, <2>3, <2>4
<1>9. ASSUME \/ AppendStep \/ Fsync \/ FsyncFails
             \/ HousekeepingTrim \/ SaveState \/ SaveStateFails \/ DiskTrim
      PROVE  CognitionInv'
  <2>1. StreamMove
    BY <1>9, DiskStreamMove
  <2>2. ~has_disk => state' = state
    BY <1>9, DiskStateKept DEF DiskStep
  <2>3. UNCHANGED <<batch, taken>>
    BY <1>9 DEF AppendStep, Roll, RollFails, WriteRecord, WriteFails, AppendEnds, Fsync, FsyncFails,
       HousekeepingTrim, Trim, SaveState, SaveStateFails, DiskTrim, logVars, historyVars
  <2> QED BY <1>5, <2>1, <2>2, <2>3
<1> QED BY <1>6, <1>7, <1>8, <1>9 DEF RouterWorks, DiskStep

----------------------------------------------------------------------------

\* The invariant of every behaviour of the system.
SystemInv == orderly /\ ~rewound => StreamInv /\ SegmentsInOrder /\ CognitionInv

\* It holds at the start.
LEMMA CognitionInitInv ==
    ASSUME RoleRunsCognition, SystemInit
    PROVE  SystemInv
<1>1. /\ Init /\ rpc = "none" /\ late = {} /\ stream_seen = NoRecords /\ accepted = {}
  BY DEF SystemInit
<1>2. StreamInv /\ SegmentsInOrder
  BY <1>1, StreamInit DEF Init, SegmentsInOrder, NoRecords
<1>3. /\ records = NoRecords /\ disk = NoRecords /\ next_seq = 1 /\ offered = 0
      /\ batch[Cognition] = NoBatch /\ taken[Cognition] = {} /\ lost[Cognition] = {}
      /\ has_disk
  BY <1>1, CognitionSink DEF Init, LogInit
<1>4. Held = {} /\ Stored = {} /\ Turns = {}
  BY <1>3 DEF Held, Stored, Logged, Filed, Turns, NoRecords
<1>5. DOMAIN stream_seen = {} /\ DOMAIN batch[Cognition].records = {}
  BY <1>1, <1>3 DEF NoRecords, NoBatch
<1>6. CognitionTypes
  BY <1>1, <1>3, <1>5 DEF CognitionTypes, Waiting
<1>7. CognitionInv
  BY <1>1, <1>3, <1>4, <1>5, <1>6 DEF CognitionInv, OneRecord, LostForGood,
     LateFaithful, SeenExcused, SeenBehind, CallSafe, DeliveredWasAccepted
<1> QED BY <1>2, <1>7 DEF SystemInv

\* The router's part of a step of the system is one of RouterStream's.
LEMMA SystemStepsStream ==
    ASSUME RoleRunsCognition, StreamInv, [SystemNext]_systemVars
    PROVE  [Next]_vars
<1>1. Cognition \in Sinks /\ "SY.storage" \in Sinks
  BY CognitionSink, UsageSink
<1>2. ASSUME NEW s \in Sinks, SinkStep(s), UNCHANGED diskVars PROVE Next
  BY <1>2 DEF Next, LogStep
<1>3. CASE SendBatch
  BY <1>1, <1>2, <1>3 DEF SendBatch, SinkStep
<1>4. CASE CallFails
  BY <1>1, <1>2, <1>4 DEF CallFails, SinkStep, BatchResolved
<1>5. CASE AckArrives
  <2>1. BatchAcked(Cognition, batch[Cognition].last_seq) /\ UNCHANGED diskVars
    BY <1>5 DEF AckArrives
  <2>2. batch[Cognition].last_seq = in_flight_up_to[Cognition]
        /\ cursor[Cognition] < batch[Cognition].last_seq
    BY <1>1, <2>1 DEF StreamInv, LogInv, BatchExact, BatchAcked, AckAccepted
  <2>3. in_flight_up_to[Cognition] \in Nat /\ cursor[Cognition] \in Nat
    BY <1>1 DEF StreamInv, LogInv, LogTypeOK
  <2>4. batch[Cognition].last_seq \in 1..batch[Cognition].last_seq
    BY <2>2, <2>3
  <2> QED BY <1>1, <1>2, <2>1, <2>4 DEF SinkStep, BatchResolved
<1>6. CASE RouterRestarts
  BY <1>6 DEF RouterRestarts, Next
<1>7. CASE RouterWorks
  <2>1. CASE SinkStep("SY.storage") /\ UNCHANGED diskVars
    BY <1>1, <1>2, <2>1
  <2>2. CASE (\E q \in DOMAIN records : Age(q)) /\ UNCHANGED diskVars
    BY <2>2 DEF Next, LogStep
  <2>3. CASE DiskStep
    BY <2>3 DEF Next
  <2> QED BY <1>7, <2>1, <2>2, <2>3 DEF RouterWorks
<1>8. CASE CognitionTakes \/ CognitionTakesLate \/ CognitionRestarts \/ UNCHANGED systemVars
  BY <1>8 DEF CognitionTakes, CognitionTakesLate, CognitionRestarts, systemVars
<1> QED BY <1>3, <1>4, <1>5, <1>6, <1>7, <1>8 DEF SystemNext

\* What fell out of order, or went back, stays so.
LEMMA HistoriesStay ==
    ASSUME [SystemNext]_systemVars
    PROVE  (orderly' => orderly) /\ (~rewound' => ~rewound)
<1>1. ASSUME AnyRestart PROVE orderly' => orderly
  <2>1. orderly' = (orderly /\ SegmentsInOrder')
    BY <1>1 DEF AnyRestart, Restart, RestartAfterPowerCut, RestartWithoutDisk, RestartFrom, Started
  <2> QED BY <2>1
<1>2. ASSUME DiskStep PROVE orderly' = orderly
  BY <1>2 DEF DiskStep, AppendStep, PlaceRecord, Roll, RollFails, WriteRecord, WriteFails, AppendEnds,
              Fsync, FsyncFails, HousekeepingTrim, SaveState, SaveStateFails, DiskTrim
<1>3. CASE SendBatch \/ AckArrives \/ CallFails
  BY <1>3 DEF SendBatch, AckArrives, CallFails, diskVars
<1>4. CASE RouterRestarts
  BY <1>1, <1>4 DEF RouterRestarts
<1>5. CASE RouterWorks
  BY <1>2, <1>5 DEF RouterWorks, diskVars, cognitionVars
<1>6. CASE CognitionTakes \/ CognitionTakesLate \/ CognitionRestarts
  BY <1>6 DEF CognitionTakes, CognitionTakesLate, CognitionRestarts, vars, diskVars
<1>7. CASE UNCHANGED systemVars
  BY <1>7 DEF systemVars, cognitionVars, vars, diskVars
<1> QED BY <1>3, <1>4, <1>5, <1>6, <1>7 DEF SystemNext

\* Every step of the system keeps the invariant.
LEMMA CognitionStep ==
    ASSUME RoleRunsCognition, SystemInv, [SystemNext]_systemVars
    PROVE  SystemInv'
<1> SUFFICES ASSUME orderly', ~rewound' PROVE StreamInv' /\ SegmentsInOrder' /\ CognitionInv'
  BY DEF SystemInv
<1>1. StreamInv /\ SegmentsInOrder /\ CognitionInv /\ orderly
  BY HistoriesStay DEF SystemInv
<1>2. [Next]_vars
  BY <1>1, SystemStepsStream
<1>3. StreamInv' /\ SegmentsInOrder'
  BY <1>1, <1>2, OrderlyStep DEF OrderlyInv
<1>4. CASE UNCHANGED systemVars
  <2>1. UNCHANGED <<vars, rpc, late, stream_seen, accepted>>
    BY <1>4 DEF systemVars, cognitionVars
  <2>2. UNCHANGED <<epoch, epochs, has_disk, state, batch, records, disk, aged, next_seq>>
    BY <2>1 DEF vars, logVars, diskVars, sharedVars, segVars, stateVars
  <2>3. Turns' = Turns
    BY <2>2 DEF Turns, Held, Logged, Filed
  <2>4. LastSeen(epoch)' = LastSeen(epoch)
    BY <2>1, <2>2 DEF LastSeen
  <2>5. CognitionTypes' /\ CallSafe'
    BY <1>1, <2>1, <2>2, <2>4 DEF CognitionInv, CognitionTypes, CallSafe, Waiting
  <2>6. SeenExcused'
    BY <1>1, <2>1, <2>2, <2>3, <2>4 DEF CognitionInv, SeenExcused, SeenBehind, Excused, NeverSent
  <2>7. LateFaithful'
    BY <1>1, <2>1, StillFaithful DEF CognitionInv, LateFaithful
  <2>8. OneRecord' /\ LostForGood' /\ DeliveredWasAccepted'
    BY <1>1, <2>1, StillKnown
  <2> QED BY <1>3, <2>5, <2>6, <2>7, <2>8 DEF CognitionInv
<1>5. CASE SendBatch
  BY <1>1, <1>3, <1>5, SendBatchInv
<1>6. CASE AckArrives
  BY <1>1, <1>3, <1>6, AckArrivesInv
<1>7. CASE CallFails
  BY <1>1, <1>3, <1>7, CallFailsInv
<1>8. CASE RouterRestarts
  BY <1>1, <1>3, <1>8, RouterRestartsInv
<1>9. CASE RouterWorks
  BY <1>1, <1>3, <1>9, RouterWorksInv
<1>10. CASE CognitionTakes
  BY <1>1, <1>3, <1>10, TakesInv
<1>11. CASE CognitionTakesLate
  BY <1>1, <1>3, <1>11, TakesLateInv
<1>12. CASE CognitionRestarts
  BY <1>1, <1>3, <1>12, CognitionRestartsInv
<1> QED
  BY <1>4, <1>5, <1>6, <1>7, <1>8, <1>9, <1>10, <1>11, <1>12 DEF SystemNext

\* Over lost, late and repeated batches, lost acks, failing disks, power cuts and restarts
\* of both, what the router counts as delivered to SY.cognition was accepted by it, as long
\* as no restart goes back to a seq of an epoch that may have been sent.
THEOREM CognitionDelivered ==
    ASSUME RoleRunsCognition
    PROVE  SystemSpec => []AcceptedOnward
<1>1. SystemInit => SystemInv
  BY CognitionInitInv
<1>2. SystemInv /\ [SystemNext]_systemVars => SystemInv'
  BY CognitionStep
<1>3. SystemInv => AcceptedOnward
  BY DEF SystemInv, CognitionInv, AcceptedOnward
<1> QED BY <1>1, <1>2, <1>3, PTL DEF SystemSpec

\* And as long, a late batch never moves SY.cognition's last seq past what the stream
\* gave out.
THEOREM CognitionSeen ==
    ASSUME RoleRunsCognition
    PROVE  SystemSpec => []SeenWithinStream
<1>1. SystemInit => SystemInv
  BY CognitionInitInv
<1>2. SystemInv /\ [SystemNext]_systemVars => SystemInv'
  BY CognitionStep
<1>3. SystemInv => SeenWithinStream
  BY DEF SystemInv, CognitionInv, SeenExcused, SeenWithinStream
<1> QED BY <1>1, <1>2, <1>3, PTL DEF SystemSpec

================================================================================
