----------------------------- MODULE MCRouterRegion -----------------------------
(* RouterRegion for TLC. *)
EXTENDS RouterRegion, TLC

Symmetry == Permutations(Uuids)

\* What a reader copied before seq moved is never returned: such states are one.
View ==
    <<writerVars, reading,
      [r \in Readers |-> IF SeqUnmoved(r) THEN copy[r] ELSE Nothing],
      [r \in Readers |-> SeqUnmoved(r)]>>

================================================================================
