--------------------------- MODULE StreamCognition ---------------------------
(***************************************************************************)
(* A router stream and the sink of its cognition.turns: SY.cognition takes *)
(* a STREAM_BATCH (src/src/bin/sy_cognition.rs, take_stream_batch), skips  *)
(* what it saw already from that stream and epoch, and acks.               *)
(*                                                                         *)
(* The batch and its ack travel over the hive's router: either may be      *)
(* lost, and a batch whose RPC timed out may still arrive.  What SY.       *)
(* cognition saw is in memory only.  SY.storage keeps to what StreamLog    *)
(* assumes of a sink.  The router's role is one that runs SY.cognition.    *)
(***************************************************************************)
EXTENDS RouterStream

CONSTANTS
    MaxCognitionRestarts,   \* bound: restarts of SY.cognition
    MaxLate                 \* bound: batches on their way after their call ended

VARIABLES
    rpc,                \* run_sink's call: "none", "sent", "replied" or "unanswered"
    late,               \* batches on their way whose call is over
    stream_seen,        \* SY.cognition: epoch -> last seq seen of this stream
    accepted,           \* history: ids SY.cognition accepted (queued, or dropped and counted)
    cognition_restarts,
    rewound             \* history: a restart went back to an earlier epoch, or to a lower seq of its own

cognitionVars == <<rpc, late, stream_seen, accepted, cognition_restarts, rewound>>
systemVars == <<vars, cognitionVars>>

Cognition == "SY.cognition"

Message == [epoch |-> epoch, records |-> batch[Cognition].records]

\* The batch of a call that ends unanswered may be on its way still.
Stray == IF rpc = "sent" /\ Cardinality(late) < MaxLate THEN {late, late \cup {Message}} ELSE {late}

----------------------------------------------------------------------------
(* The router's side. *)

SendBatch ==
    /\ PlanBatch(Cognition)
    /\ rpc' = IF batch'[Cognition] = NoBatch THEN rpc ELSE "sent"
    /\ UNCHANGED <<diskVars, late, stream_seen, accepted, cognition_restarts, rewound>>

AckArrives ==
    /\ rpc = "replied"
    /\ BatchAcked(Cognition, batch[Cognition].last_seq)
    /\ rpc' = "none"
    /\ UNCHANGED <<diskVars, late, stream_seen, accepted, cognition_restarts, rewound>>

CallFails ==
    /\ BatchFailed(Cognition)
    /\ rpc' = "none"
    /\ late' \in Stray
    /\ UNCHANGED <<diskVars, stream_seen, accepted, cognition_restarts, rewound>>

\* The next seq of an epoch goes up only: a restart keeps it or draws a new epoch.
Onward == epochs' # epochs \/ (epoch' = epoch /\ next_seq' >= next_seq)

RouterRestarts ==
    /\ AnyRestart
    /\ rpc' = "none"
    /\ late' \in Stray
    /\ rewound' = (rewound \/ ~Onward)
    /\ UNCHANGED <<stream_seen, accepted, cognition_restarts>>

RouterWorks ==
    /\ \/ SinkStep("SY.storage") /\ UNCHANGED diskVars
       \/ (\E q \in DOMAIN records : Age(q)) /\ UNCHANGED diskVars
       \/ DiskStep
    /\ UNCHANGED cognitionVars

----------------------------------------------------------------------------
(* SY.cognition. *)

LastSeen(e) == IF e \in DOMAIN stream_seen THEN stream_seen[e] ELSE 0

IsRepeat(m, q) == q <= LastSeen(m.epoch)

TakeStreamBatch(m) ==
    LET seqs == DOMAIN m.records
        new == {q \in seqs : ~IsRepeat(m, q)}
    IN  /\ stream_seen' = [e \in DOMAIN stream_seen \cup {m.epoch} |->
                             IF e = m.epoch THEN Max({LastSeen(e)} \cup new) ELSE stream_seen[e]]
        /\ accepted' = accepted \cup {m.records[q].id : q \in new}

\* The batch arrives in time; its ack may be lost.
CognitionTakes ==
    /\ rpc = "sent"
    /\ TakeStreamBatch(Message)
    /\ rpc' \in {"replied", "unanswered"}
    /\ UNCHANGED <<vars, late, cognition_restarts, rewound>>

\* The batch arrives when nobody waits for its ack.
CognitionTakesLate ==
    /\ \E m \in late : TakeStreamBatch(m) /\ late' = late \ {m}
    /\ UNCHANGED <<vars, rpc, cognition_restarts, rewound>>

CognitionRestarts ==
    /\ cognition_restarts < MaxCognitionRestarts
    /\ cognition_restarts' = cognition_restarts + 1
    /\ stream_seen' = NoRecords
    /\ UNCHANGED <<vars, rpc, late, accepted, rewound>>

----------------------------------------------------------------------------

SystemInit ==
    /\ Init
    /\ rpc = "none"
    /\ late = {}
    /\ stream_seen = NoRecords
    /\ accepted = {}
    /\ cognition_restarts = 0
    /\ rewound = FALSE

SystemNext ==
    \/ SendBatch
    \/ AckArrives
    \/ CallFails
    \/ RouterRestarts
    \/ RouterWorks
    \/ CognitionTakes
    \/ CognitionTakesLate
    \/ CognitionRestarts

SystemSpec == SystemInit /\ [][SystemNext]_systemVars

----------------------------------------------------------------------------
(* Properties. *)

\* "a sink keys its last seq by stream and epoch, so a stream whose seq restarts
\* is never mistaken for a repeat": what the router counts as delivered to
\* SY.cognition, SY.cognition accepted at least once.
DeliveredWasAccepted == taken[Cognition] \subseteq accepted

\* Over lost acks, late batches, failing disks and restarts of both sides it is so as
\* long as the router's restarts go onward and leave its segments in order.
AcceptedOnward == orderly /\ ~rewound => DeliveredWasAccepted

SeenBehind == epoch \in DOMAIN stream_seen => stream_seen[epoch] < next_seq

\* A batch that arrives after its call ended takes nothing away: as long as the
\* router's restarts go onward, what it brings is what the stream sent under that
\* seq and epoch, and SY.cognition's last seq stays behind the stream's next.
SeenWithinStream == orderly /\ ~rewound => SeenBehind

================================================================================
