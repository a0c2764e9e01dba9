------------------------------- MODULE MCSyTimer -------------------------------
(* SY.timer, for TLC. *)
EXTENDS SyTimer, TLC

CONSTANTS owner, t1, t2

Template(ref, kind, policy) ==
    [owner |-> owner, client_ref |-> ref, kind |-> kind, missed_policy |-> policy]

\* Both timers share a client_ref; the first is of either kind, the second is given up
\* when it is missed by more than MissedWithin (drop is the same within nothing).
MCTemplates ==
    t1 :> {Template("ref", "recurring", "fire"), Template("ref", "oneshot", "fire")}
    @@ t2 :> {Template("ref", "oneshot", "fire_if_within")}

\* A fire that no message and no answer is about any more is not looked up in sent.
View ==
    <<now, up, rows, created, items, retries, scheduler, request, network, bounds, books, answers,
      {s \in sent : s.fire \in net \cup {n.fire : n \in notices}}>>
================================================================================
