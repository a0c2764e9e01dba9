--------------------------- MODULE MCNodeRegistry ---------------------------
(* The nodes of one router, for TLC. *)
EXTENDS NodeRegistry, TLC

CONSTANTS c1, c2

Symmetry == Permutations(Conns)

\* A task's locals, as long as they are in scope: what a task will not read
\* again tells no two states apart.
InScope ==
    [t \in Tasks |->
        IF pc[t] \in {"new", "idle", "closed"} THEN <<pc[t]>>
        ELSE <<pc[t],
               IF pc[t] \in Refreshing THEN after[t] ELSE "",
               IF pc[t] \in {"check", "scan", "update_nodes", "assign"} THEN snap[t] ELSE 0,
               updates[t], view[t],
               IF t \in Conns /\ after[t] # "closed"
               THEN <<uuid[t], IF pc[t] \in {"claim", "register"} THEN vpn[t] ELSE 0,
                      IF Holds(t) \/ pc[t] = "claim" THEN connected_at[t] ELSE 0>>
               ELSE <<>>>>]

View == <<tables, configVars, InScope>>
================================================================================
