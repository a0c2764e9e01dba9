------------------------------ MODULE MCWanLinks ------------------------------
(* The WAN link, for TLC. *)
EXTENDS WanLinks, TLC

Symmetry == Permutations(Conns)

\* What an ended session leaves behind and no task reads again tells no two states apart.
Live(e, c) ==
    IF Ended(e, c) THEN <<rejected[e][c] <= accepted[e][c]>>
    ELSE <<wire[c][e], c \in cut, epoch[e][c], rejected[e][c], accepted[e][c]>>

View ==
    <<pc, [e \in Routers |-> [c \in Conns |-> Live(e, c)]], wan_peers, wan_session_epochs,
      sendVars, lsa_state, heard, registered, faults>>
================================================================================
