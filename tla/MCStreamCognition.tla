-------------------------- MODULE MCStreamCognition --------------------------
(* A router stream and SY.cognition, for TLC. *)
EXTENDS StreamCognition

\* The log of these runs holds nothing for SY.storage: its cursor decides nothing.
Own(st) ==
    IF st = NoState THEN <<>> ELSE <<st.epoch, st.next_seq, st.cursors[Cognition]>>

OwnWork ==
    IF "state" \in DOMAIN work THEN <<work.keep_from, work.nothing_left, Own(work.state)>>
    ELSE work

\* TRUE: only makes TLC evaluate what the view leaves out.
Evaluated ==
    LET v == <<cursor, in_flight_up_to, batch, state, last_saved, durable_state, work>>
    IN  v = v

\* Nor do the counters and the histories no property of these runs reads, and
\* without power cuts what is synced.
WithoutCounters ==
    <<records, next_seq, cursor[Cognition], batch[Cognition], aged, offered, taken,
      has_disk,
      [q \in DOMAIN disk |-> <<disk[q].rec, disk[q].segment, PowerCuts /\ disk[q].synced>>],
      segments, torn, current, last_written_seq, dirty, fsynced_seq, Own(state), Own(last_saved),
      IF PowerCuts THEN Own(durable_state) ELSE <<>>,
      epoch, epochs, disk_pc, OwnWork, errors, restarts, cognitionVars, Evaluated>>
================================================================================
