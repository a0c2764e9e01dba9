---------------------------- MODULE MCRouterStream ----------------------------
(* The router stream with its disk, for TLC. *)
EXTENDS RouterStream

\* The counters and the histories they are compared with decide no step: leaving
\* them out of the view merges states that differ in nothing else.
WithoutCounters ==
    <<records, turn_bytes, node_bytes, next_seq, cursor, in_flight_up_to, batch, aged, offered,
      taken, lost, diskVars>>
================================================================================
