------------------------------ MODULE RegionTable ------------------------------
(***************************************************************************)
(* What the router's region is to those who use it: a table of the nodes'  *)
(* VPNs with room for MAX_NODES, as module NodeRegistry takes it, which    *)
(* the process that writes it changes in one step, and of which a reader   *)
(* gets all that is there at one moment.  Module RouterRegion implements   *)
(* it.                                                                     *)
(*                                                                         *)
(* A read is on its way until a write begins: from then on the reader      *)
(* reads again.                                                            *)
(***************************************************************************)
EXTENDS Naturals, FiniteSets

CONSTANTS Uuids, Vpns, MAX_NODES, Readers

VARIABLES
    table,                      \* uuid -> vpn
    owner,                      \* the generation of the process that writes
    seen                        \* per reader: the snapshot it is about to get, if any

vars == <<table, owner, seen>>

Empty == [u \in {} |-> u]
NoSnapshot == [nodes |-> Empty, generation |-> 0]
AllAgain == seen' = [r \in Readers |-> NoSnapshot]

Init ==
    /\ table = Empty
    /\ owner = 1
    /\ seen = [r \in Readers |-> NoSnapshot]

\* register_node: a node that is there is changed, any other takes what room there is.
HasSlot(u) == u \in DOMAIN table \/ Cardinality(DOMAIN table) < MAX_NODES

Register(u, v) ==
    /\ HasSlot(u)
    /\ table' = [n \in DOMAIN table \cup {u} |-> IF n = u THEN v ELSE table[n]]
    /\ UNCHANGED owner /\ AllAgain

Unregister(u) ==
    /\ u \in DOMAIN table
    /\ table' = [n \in DOMAIN table \ {u} |-> table[n]]
    /\ UNCHANGED owner /\ AllAgain

UpdateVpn(u, v) ==
    /\ u \in DOMAIN table
    /\ table' = [table EXCEPT ![u] = v]
    /\ UNCHANGED owner /\ AllAgain

\* A write that changes no entry begins, or a write ends, or a region is opened.
Touch == AllAgain /\ UNCHANGED <<table, owner>>

\* A process that starts has an empty table, under a generation of its own.
TakeOver ==
    /\ table' = Empty
    /\ owner' = owner + 1
    /\ AllAgain

\* The snapshot is of one moment, this one.
Read(r) ==
    /\ seen' = [seen EXCEPT ![r] = [nodes |-> table, generation |-> owner]]
    /\ UNCHANGED <<table, owner>>

\* The reader has it.
Return(r) ==
    /\ seen' = [seen EXCEPT ![r] = NoSnapshot]
    /\ UNCHANGED <<table, owner>>

Next ==
    \/ \E u \in Uuids, v \in Vpns : Register(u, v) \/ UpdateVpn(u, v)
    \/ \E u \in Uuids : Unregister(u)
    \/ Touch \/ TakeOver
    \/ \E r \in Readers : Read(r) \/ Return(r)

Spec == Init /\ [][Next]_vars

================================================================================
