------------------------------- MODULE StreamLog -------------------------------
(***************************************************************************)
(* The router stream's log in memory and its senders                       *)
(* (src/src/router/stream.rs): the `Shared` state behind one lock, the     *)
(* disk thread's half of it (`take_incoming`, the trim of `run_disk`) and  *)
(* one `run_sink` task per sink.                                           *)
(*                                                                         *)
(* A VecDeque of records in seq order is a function from the seqs it holds *)
(* to its records.  Time is abstracted to the set `aged` of the records    *)
(* whose ts_ms is past STREAM_MAX_AGE_SECS: a record's ts_ms is taken      *)
(* before it is queued, so records need not age in the order of their      *)
(* seqs.  A record is its size and its subject; `id` names the record for  *)
(* the properties and is not in the code.                                  *)
(*                                                                         *)
(* On its own this is the stream without a directory (Disk = None);        *)
(* RouterStream adds the disk.                                             *)
(***************************************************************************)
EXTENDS Integers, FiniteSets, FiniteSetsExt

CONSTANTS
    Role,                     \* the hive's role
    Appended,                 \* the subjects that are appended
    Sizes,                    \* the sizes a record may have
    MaxSize,                  \* a bound on Sizes
    STREAM_MAX_BYTES,
    NODE_CAP,                 \* STREAM_MAX_BYTES * STREAM_NODE_APPENDS_SHARE_PERCENT / 100
    STREAM_USAGE_RESERVE_BYTES,
    STREAM_BATCH_MAX_RECORDS,
    STREAM_BATCH_MAX_BYTES,
    MaxRecords                \* bound: the records offered to the log

Subjects == {"cognition.turns", "storage.turns", "storage.usage"}

AllSinks == {"SY.cognition", "SY.storage"}

Roles == {"motherbee", "worker", "ingress", "egress"}

ASSUME ConstantsAssumption ==
    /\ Role \in Roles
    /\ Appended \subseteq Subjects
    /\ MaxSize \in Nat
    /\ Sizes \subseteq 1..MaxSize
    /\ STREAM_MAX_BYTES \in Nat
    /\ NODE_CAP \in 0..STREAM_MAX_BYTES
    /\ STREAM_USAGE_RESERVE_BYTES \in 0..NODE_CAP
    /\ STREAM_BATCH_MAX_RECORDS \in Nat \ {0}
    /\ STREAM_BATCH_MAX_BYTES \in Nat
    /\ MaxRecords \in Nat

VARIABLES
    records,            \* the log: seq -> [id, subject, size]
    turn_bytes,
    node_bytes,
    next_seq,
    cursor,             \* per sink: up to here everything is taken or passed
    in_flight_up_to,    \* per sink: last seq of the batch waiting for its ack, or 0
    delivered,          \* per sink: counters of SinkState
    expired,
    oversize,
    usage_lost,         \* the status's usage_lost: Shared's plus the counter's
    batch,              \* per sink: run_sink's locals while it waits for the ack
    aged,               \* ids of the records past the window
    offered,            \* how many records were offered to the log (names them)
    taken,              \* history, per sink: ids it acked
    lost,               \* history, per sink: ids counted as expired or oversize for it
    owed,               \* history, per sink: how many records the log has owed it since its start
    usage               \* history since the start: usage records [owed, taken]

sharedVars == <<records, turn_bytes, node_bytes, next_seq, cursor, in_flight_up_to,
                delivered, expired, oversize, usage_lost>>
historyVars == <<offered, taken, lost, owed, usage>>
logVars == <<sharedVars, batch, aged, historyVars>>

Records == [id : Nat \ {0}, subject : Subjects, size : Sizes]

----------------------------------------------------------------------------
(* Subjects, sinks and sources. *)

RoleRunsCognition == Role \in {"motherbee", "worker"}

SinksFor(subject) ==
    CASE subject = "cognition.turns" -> IF RoleRunsCognition THEN {"SY.cognition"} ELSE {}
      [] subject \in {"storage.turns", "storage.usage"} -> {"SY.storage"}
      [] OTHER -> {}

Sinks == UNION {SinksFor(subject) : subject \in Subjects}

\* The router appends turns, the nodes append usage records.
FromNodes(subject) == subject = "storage.usage"

\* The bytes of the records f holds: as many as pairs of a record and a byte of it.
Bytes(f) == Cardinality({c \in (DOMAIN f) \X (1..MaxSize) : c[2] <= f[c[1]].size})

Only(f, S) == [q \in DOMAIN f \cap S |-> f[q]]

TurnsOf(f) == Only(f, {q \in DOMAIN f : ~FromNodes(f[q].subject)})
NodesOf(f) == Only(f, {q \in DOMAIN f : FromNodes(f[q].subject)})

----------------------------------------------------------------------------
(* trim: the leading records that are done leave the log. *)

\* Mutant: past the window a record leaves even while a batch carries it.
RecordDoneInFlight(q) ==
    \A s \in SinksFor(records[q].subject) : cursor[s] >= q \/ records[q].id \in aged

RecordDone(q) ==
    \A s \in SinksFor(records[q].subject) :
        \/ cursor[s] >= q
        \/ records[q].id \in aged /\ in_flight_up_to[s] < q

Leaving == {q \in DOMAIN records : \A p \in DOMAIN records : p <= q => RecordDone(p)}

\* The records of `out` that leave before the sink took them.
MissedBy(s, out) == {q \in out : s \in SinksFor(records[q].subject) /\ cursor[s] < q}

\* Mutant: the trim forgets the usage records.
MissedUsageUncounted(out) == {}

MissedUsage(out) ==
    {q \in out : records[q].subject = "storage.usage" /\ cursor["SY.storage"] < q}

Saturating(a, b) == IF a >= b THEN a - b ELSE 0

\* Mutant: the trim does not give the nodes' bytes back.
NodeBytesKept(out) == node_bytes

\* The shared state without the records of `out`, each counted for the sinks it misses.
TurnBytesWithout(out) == Saturating(turn_bytes, Bytes(TurnsOf(Only(records, out))))
NodeBytesWithout(out) == Saturating(node_bytes, Bytes(NodesOf(Only(records, out))))
ExpiredWith(out) == [s \in Sinks |-> expired[s] + Cardinality(MissedBy(s, out))]
LostWith(out) == [s \in Sinks |-> lost[s] \cup {records[q].id : q \in MissedBy(s, out)}]

----------------------------------------------------------------------------
(* take_incoming: the disk thread places a record in the log. *)

\* Mutant: the turns may use the nodes' share of the cap.
FitsAnywhere(tb, nb, subject, size) == tb + nb + size <= STREAM_MAX_BYTES

Fits(tb, nb, subject, size) ==
    /\ tb + nb + size <= STREAM_MAX_BYTES
    /\ CASE ~FromNodes(subject) -> tb + size <= STREAM_MAX_BYTES - NODE_CAP
         [] subject = "storage.usage" -> nb + size <= NODE_CAP
         [] OTHER -> nb + size <= NODE_CAP - STREAM_USAGE_RESERVE_BYTES

\* What leaves to make room: nothing when the record fits already.
MakeRoom(subject, size) ==
    IF Fits(turn_bytes, node_bytes, subject, size) THEN {} ELSE Leaving

SeqAfter(placed) == IF placed THEN next_seq + 1 ELSE next_seq

TakeIncoming(subject, size) ==
    LET out == MakeRoom(subject, size)
        tb  == TurnBytesWithout(out)
        nb  == NodeBytesWithout(out)
        ok  == Fits(tb, nb, subject, size)
        new == [id |-> offered + 1, subject |-> subject, size |-> size]
        kept == DOMAIN records \ out
    IN  /\ offered < MaxRecords
        /\ offered' = offered + 1
        /\ records' = IF ok THEN [q \in kept \cup {next_seq} |->
                                    IF q = next_seq THEN new ELSE records[q]]
                            ELSE Only(records, kept)
        /\ next_seq' = SeqAfter(ok)
        /\ turn_bytes' = IF ok /\ ~FromNodes(subject) THEN tb + size ELSE tb
        /\ node_bytes' = IF ok /\ FromNodes(subject) THEN nb + size ELSE nb
        /\ expired' = ExpiredWith(out)
        /\ lost' = LostWith(out)
        /\ usage_lost' = usage_lost + Cardinality(MissedUsage(out))
                           + (IF ~ok /\ subject = "storage.usage" THEN 1 ELSE 0)
        /\ owed' = [s \in Sinks |-> IF ok /\ s \in SinksFor(subject) THEN owed[s] + 1 ELSE owed[s]]
        /\ usage' = IF subject = "storage.usage" THEN [usage EXCEPT !.owed = @ + 1] ELSE usage
        /\ UNCHANGED <<cursor, in_flight_up_to, delivered, oversize, batch, aged, taken>>

\* The housekeeping of run_disk trims under the lock.
Trim ==
    /\ records' = Only(records, DOMAIN records \ Leaving)
    /\ turn_bytes' = TurnBytesWithout(Leaving)
    /\ node_bytes' = NodeBytesWithout(Leaving)
    /\ expired' = ExpiredWith(Leaving)
    /\ lost' = LostWith(Leaving)
    /\ usage_lost' = usage_lost + Cardinality(MissedUsage(Leaving))
    /\ UNCHANGED <<next_seq, cursor, in_flight_up_to, delivered, oversize, batch, aged,
                   offered, taken, owed, usage>>

----------------------------------------------------------------------------
(* run_sink: plan a batch, send it, and wait for the ack or its failure. *)

NoRecords == [q \in {} |-> q]

NoBatch == [records |-> NoRecords, last_seq |-> 0, scanned_up_to |-> 0]

Waiting(s) == batch[s] # NoBatch

Later(s) == {q \in DOMAIN records : q > cursor[s]}

Mine(s) == {q \in Later(s) : s \in SinksFor(records[q].subject)}

\* Mutant: the sender sends records past the window.
NeverAged(q) == FALSE

Aged(q) == records[q].id \in aged

TooBig(q) == records[q].size > STREAM_BATCH_MAX_BYTES

Sendable(s) == {q \in Mine(s) : ~Aged(q) /\ ~TooBig(q)}

\* What the cursor passes right away: everything ahead of the first record to send.
Passed(s) == {q \in Later(s) : \A p \in Sendable(s) : q < p}

\* The batch: the records to send, up to the first one of this sink that is
\* lost or for which the batch has no room.
Planned(s) ==
    {q \in Sendable(s) :
        LET run == {p \in Mine(s) \ Passed(s) : p <= q}
        IN  /\ run \subseteq Sendable(s)
            /\ \/ run = {q}
               \/ /\ Cardinality(run) <= STREAM_BATCH_MAX_RECORDS
                  /\ Bytes(Only(records, run)) <= STREAM_BATCH_MAX_BYTES}

\* What a full ack resolves: up to the first record of this sink left out.
Scanned(s) == {q \in Later(s) : \A p \in Mine(s) : p <= q => p \in Passed(s) \cup Planned(s)}

PlanBatch(s) ==
    LET gone == Passed(s) \cap Mine(s)
        send == Planned(s)
    IN  /\ ~Waiting(s)
        /\ Passed(s) # {} \/ send # {}             \* otherwise Idle
        /\ expired' = [expired EXCEPT ![s] = @ + Cardinality({q \in gone : Aged(q)})]
        /\ oversize' = [oversize EXCEPT ![s] = @ + Cardinality({q \in gone : ~Aged(q)})]
        /\ usage_lost' = usage_lost
              + Cardinality({q \in gone : records[q].subject = "storage.usage"})
        /\ lost' = [lost EXCEPT ![s] = @ \cup {records[q].id : q \in gone}]
        /\ cursor' = [cursor EXCEPT ![s] = Max({@} \cup Passed(s))]
        /\ in_flight_up_to' = IF send = {} THEN in_flight_up_to    \* Skipped
                              ELSE [in_flight_up_to EXCEPT ![s] = Max(send)]
        /\ batch' = IF send = {} THEN batch
                    ELSE [batch EXCEPT ![s] = [records |-> Only(records, send),
                                               last_seq |-> Max(send),
                                               scanned_up_to |-> Max(Scanned(s))]]
        /\ UNCHANGED <<records, turn_bytes, node_bytes, next_seq, delivered, aged,
                       offered, taken, owed, usage>>

\* accept_ack, for an ack of the sink's: the new cursor, or no change.
AckAccepted(s, up_to) == cursor[s] < up_to /\ up_to <= batch[s].last_seq

\* Mutant: any accepted ack resolves the whole scan.
AckResolvesAll(s, up_to) == batch[s].scanned_up_to

AckCursor(s, up_to) ==
    IF up_to = batch[s].last_seq THEN batch[s].scanned_up_to ELSE up_to

\* The ack arrives in time and is the sink's.
BatchAcked(s, up_to) ==
    LET seqs == {q \in DOMAIN batch[s].records : q <= AckCursor(s, up_to)}
    IN  /\ Waiting(s)
        /\ AckAccepted(s, up_to)
        /\ in_flight_up_to' = [in_flight_up_to EXCEPT ![s] = 0]
        /\ delivered' = [delivered EXCEPT ![s] = @ + Cardinality(seqs)]
        /\ cursor' = [cursor EXCEPT ![s] = AckCursor(s, up_to)]
        /\ batch' = [batch EXCEPT ![s] = NoBatch]
        /\ taken' = [taken EXCEPT ![s] = @ \cup
                        {batch[s].records[q].id : q \in {p \in DOMAIN batch[s].records : p <= up_to}}]
        /\ usage' = [usage EXCEPT !.taken = @ + Cardinality(
                        {q \in seqs : batch[s].records[q].subject = "storage.usage"})]
        /\ UNCHANGED <<records, turn_bytes, node_bytes, next_seq, expired, oversize, usage_lost,
                       aged, offered, lost, owed>>

\* No ack within STREAM_ACK_TIMEOUT_SECS, an error, or an ack accept_ack refuses.
BatchFailed(s) ==
    /\ Waiting(s)
    /\ in_flight_up_to' = [in_flight_up_to EXCEPT ![s] = 0]
    /\ batch' = [batch EXCEPT ![s] = NoBatch]
    /\ UNCHANGED <<records, turn_bytes, node_bytes, next_seq, cursor, delivered, expired, oversize,
                   usage_lost, aged, historyVars>>

BatchResolved(s) ==
    \/ \E up_to \in 1..batch[s].last_seq : BatchAcked(s, up_to)
    \/ BatchFailed(s)

\* The clock: a record of the log passes the window.
Age(q) ==
    /\ records[q].id \notin aged
    /\ aged' = aged \cup {records[q].id}
    /\ UNCHANGED <<sharedVars, batch, historyVars>>

----------------------------------------------------------------------------
(* The stream in memory only. *)

LogInit ==
    /\ records = NoRecords
    /\ turn_bytes = 0
    /\ node_bytes = 0
    /\ next_seq = 1
    /\ cursor = [s \in Sinks |-> 0]
    /\ in_flight_up_to = [s \in Sinks |-> 0]
    /\ delivered = [s \in Sinks |-> 0]
    /\ expired = [s \in Sinks |-> 0]
    /\ oversize = [s \in Sinks |-> 0]
    /\ usage_lost = 0
    /\ batch = [s \in Sinks |-> NoBatch]
    /\ aged = {}
    /\ offered = 0
    /\ taken = [s \in Sinks |-> {}]
    /\ lost = [s \in Sinks |-> {}]
    /\ owed = [s \in Sinks |-> 0]
    /\ usage = [owed |-> 0, taken |-> 0]

SinkStep(s) ==
    \/ PlanBatch(s)
    \/ BatchResolved(s)

LogNext ==
    \/ \E subject \in Appended, size \in Sizes : TakeIncoming(subject, size)
    \/ Trim
    \/ \E s \in Sinks : SinkStep(s)
    \/ \E q \in DOMAIN records : Age(q)

LogSpec == LogInit /\ [][LogNext]_logVars

----------------------------------------------------------------------------
(* Properties. *)

\* The type invariant: the log, the cursors and the counters of Shared.
LogTypeOK ==
    /\ next_seq \in Nat \ {0}
    /\ DOMAIN records \subseteq 1..next_seq - 1
    /\ \A q \in DOMAIN records : records[q] \in Records
    /\ turn_bytes \in Nat /\ node_bytes \in Nat
    /\ cursor \in [Sinks -> Nat]
    /\ in_flight_up_to \in [Sinks -> Nat]
    /\ delivered \in [Sinks -> Nat]
    /\ expired \in [Sinks -> Nat]
    /\ oversize \in [Sinks -> Nat]
    /\ usage_lost \in Nat
    /\ aged \subseteq Nat
    /\ offered \in Nat

\* Nothing leaves the books: whatever the log has owed a sink since it started
\* was delivered to it, was counted lost for it exactly once (expired or
\* oversize), or still waits in the log past its cursor.  This is what the
\* counters of SinkState promise, however batches, failures and trims interleave.
Accounted ==
    \A s \in Sinks :
        delivered[s] + expired[s] + oversize[s] + Cardinality(Mine(s)) = owed[s]

\* The same for usage records, which are money: each one offered to the log was
\* taken by SY.storage, is in the status's usage_lost, or still waits.
UsageAccounted ==
    usage.owed = usage.taken + usage_lost
                   + Cardinality({q \in Mine("SY.storage") : records[q].subject = "storage.usage"})

\* The byte counters of Shared are the bytes of the records in the log: they
\* do not drift over appends, trims and make-room trims.
BytesExact ==
    /\ turn_bytes = Bytes(TurnsOf(records))
    /\ node_bytes = Bytes(NodesOf(records))

\* The caps of `fits`: the turns and the nodes' appends each stay in their share.
WithinCaps ==
    /\ turn_bytes <= STREAM_MAX_BYTES - NODE_CAP
    /\ node_bytes <= NODE_CAP

\* The records of a batch that waits for its ack stay in the log, unchanged and
\* ahead of the cursor, until the ack (or its failure) says whether the sink
\* took them: no trim takes them away even past the window.
InFlightKept ==
    \A s \in Sinks : Waiting(s) =>
        \A q \in DOMAIN batch[s].records :
            /\ q \in DOMAIN records
            /\ records[q] = batch[s].records[q]
            /\ cursor[s] < q /\ q <= in_flight_up_to[s]

\* A cursor claims no record its sink neither took nor was told it lost.
CursorHonest ==
    \A s \in Sinks : \A q \in DOMAIN records :
        s \in SinksFor(records[q].subject) /\ q <= cursor[s]
            => records[q].id \in taken[s] \cup lost[s]

\* A record counted as lost for a sink is not one that the sink took.
LostNotTaken == \A s \in Sinks : taken[s] \cap lost[s] = {}

\* Every record leaves the log: taken by its sinks or, when a sink never acks,
\* past the window.  A retry that holds the record in flight over and over
\* does not keep it for ever.
LogDrains ==
    \A i \in 1..MaxRecords :
        (\E q \in DOMAIN records : records[q].id = i)
            ~> ~(\E q \in DOMAIN records : records[q].id = i)

----------------------------------------------------------------------------
(* The inductive invariant. *)

\* The histories' types, which the counters are compared with.
HistoryTypeOK ==
    /\ DOMAIN taken = Sinks /\ DOMAIN lost = Sinks
    /\ owed \in [Sinks -> Nat]

\* A cursor stays below the next seq: no record is placed behind one.
CursorsBehind == \A s \in Sinks : cursor[s] < next_seq

\* A waiting batch is exactly what the log owes its sink up to scanned_up_to,
\* so a full ack may move the cursor there and a partial one to what it names.
BatchExact ==
    /\ DOMAIN batch = Sinks
    /\ \A s \in Sinks : Waiting(s) =>
          /\ batch[s].last_seq = in_flight_up_to[s]
          /\ batch[s].scanned_up_to \in batch[s].last_seq..(next_seq - 1)
          /\ \A q \in DOMAIN batch[s].records : s \in SinksFor(records[q].subject)
          /\ \A q \in Mine(s) : q <= batch[s].scanned_up_to => q \in DOMAIN batch[s].records

\* Inductive: the type invariant, InFlightKept, CursorHonest and Accounted with
\* what their preservation rests on.
LogInv ==
    /\ LogTypeOK
    /\ HistoryTypeOK
    /\ CursorsBehind
    /\ InFlightKept
    /\ BatchExact
    /\ CursorHonest
    /\ Accounted

================================================================================
