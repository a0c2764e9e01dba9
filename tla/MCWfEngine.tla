------------------------------ MODULE MCWfEngine ------------------------------
(***************************************************************************)
(* Instances of WfEngine for TLC.                                          *)
(***************************************************************************)
EXTENDS WfEngine

CONSTANTS m1, m2, m3, m4, k1, thread

\* One thread: m1 starts a conversation with a timer it moves by an internal event, m2
\* cancels the timer or starts one of its own, m3 takes the node down, m4 ends it.
MCThreadOf == [m \in Messages |-> thread]
MCMessageScript ==
    [m \in Messages |->
        CASE m = m1 -> <<<<"schedule", k1>>, <<"emit">>>>
          [] m = m2 -> <<<<"cancel", k1>>, <<"send">>>>
          [] m = m3 -> <<<<"die">>>>
          [] OTHER -> <<<<"end">>>>]
MCFireScript == [k \in Keys |-> <<<<"schedule", k>>>>]
MCInternalScript == <<<<"reschedule", k1>>>>

================================================================================
