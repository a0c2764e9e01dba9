------------------------------ MODULE RouterRegion ------------------------------
(***************************************************************************)
(* The shared-memory region a router publishes its nodes in                *)
(* (src/src/shm/mod.rs, RouterRegionWriter and read_router_snapshot): one  *)
(* writing process, which may die at any step and be started again, and    *)
(* readers in other processes that only map the memory.  The seqlock is    *)
(* all that keeps them apart.                                              *)
(*                                                                         *)
(* The region is a set of words: of each slot of the node table its uuid   *)
(* (with the name), its vpn_id and its flags; of the header node_count and *)
(* generation.  The stores of one write, and the loads of one read, race:  *)
(* they happen one word at a time in any order, but all between the two    *)
(* changes of seq, whose fetch_add is a full barrier on the amd64 the      *)
(* packages are built for.  A write that touches none of these words       *)
(* (update_heartbeat, update_opa_status) is a write with no stores.        *)
(***************************************************************************)
EXTENDS Naturals, FiniteSets

CONSTANTS
    Uuids,              \* the nodes' UUIDs
    Nil,                \* the UUID of an empty entry
    Vpns,               \* VPNs a node may be in
    MAX_NODES,          \* slots of the node table
    Readers,            \* sibling routers, SY.orchestrator, SY.admin
    MaxSeq              \* bound: seq

ASSUME RegionAssumption ==
    /\ Nil \notin Uuids
    /\ Vpns \subseteq Nat
    /\ MAX_NODES \in Nat
    /\ MaxSeq \in Nat

VARIABLES
    seq,                \* the header's seqlock
    mem,                \* the region's words
    writer,             \* "running", "writing", "down", "opened": between open and take_over
    pending,            \* the stores the open write has yet to make: word -> value
    blanks,             \* those of them that may store a blank first
    torn,               \* an odd seq was made even, and take_over has not begun
    table,              \* what the last write begun says: uuid -> vpn
    owner,              \* the generation of the process it was begun by
    reading,            \* per reader: "idle" or "copying"
    s1,                 \* the seq a reader read first
    copy                \* the words it has copied since

writerVars == <<seq, mem, writer, pending, blanks, torn, table, owner>>
readerVars == <<reading, s1, copy>>
vars == <<writerVars, readerVars>>

Slots == 1 .. MAX_NODES
Fields == {"uuid", "vpn", "flags"}
NodeCount == <<0, "node_count">>
Generation == <<0, "generation">>
Words == (Slots \X Fields) \cup {NodeCount, Generation}

Nothing == [w \in {} |-> w]

With(f, x, value) == [y \in DOMAIN f \cup {x} |-> IF y = x THEN value ELSE f[y]]

Without(f, x) == [y \in DOMAIN f \ {x} |-> f[y]]

\* What empty_node_entry leaves in a word.
Blank(w) == IF w[2] = "uuid" THEN Nil ELSE IF w[2] = "flags" THEN "none" ELSE 0

----------------------------------------------------------------------------
(* The node table. *)

UuidAt(m, i) == m[<<i, "uuid">>]
VpnAt(m, i) == m[<<i, "vpn">>]
FlagsAt(m, i) == m[<<i, "flags">>]

Active(m) == {i \in Slots : FlagsAt(m, i) = "active"}

SlotsOf(m, u) == {i \in Active(m) : UuidAt(m, i) = u}

First(i, S) == i \in S /\ \A j \in S : i <= j

\* Mutant: the first free slot, whether or not the node has one.
SlotsFree(m, u) == Slots \ Active(m)

\* The node's own slot, or one that is free.
SlotsFor(m, u) == IF SlotsOf(m, u) # {} THEN SlotsOf(m, u) ELSE Slots \ Active(m)

EntryStores(i, u, v, flags) ==
    [w \in {i} \X Fields |-> IF w[2] = "uuid" THEN u ELSE IF w[2] = "vpn" THEN v ELSE flags]

\* The memory once the stores are made.
Done(m, stores) == [w \in Words |-> IF w \in DOMAIN stores THEN stores[w] ELSE m[w]]

\* header.node_count = count_active_nodes(nodes), after the entry's stores.
Counted(m, stores) ==
    With(stores, NodeCount, Cardinality(Active(Done(m, stores))))

----------------------------------------------------------------------------
(* The writer. *)

\* SeqlockWriteGuard::new, then the stores.  An entry is emptied before it is
\* written, and the compiler may keep the two apart or not.
BeginWrite(stores, emptied, t) ==
    /\ seq < MaxSeq
    /\ seq' = seq + 1
    /\ writer' = "writing"
    /\ pending' = stores
    /\ blanks' = emptied
    /\ table' = t
    /\ UNCHANGED <<mem, readerVars>>

RegisterNode(u, v) ==
    /\ writer = "running"
    /\ \E i \in Slots :
          /\ First(i, SlotsFor(mem, u))
          /\ BeginWrite(Counted(mem, EntryStores(i, u, v, "active")), {i} \X Fields,
                        With(table, u, v))
    /\ UNCHANGED <<torn, owner>>

\* Makes a write even when there is nothing to unregister.
UnregisterNode(u) ==
    /\ writer = "running"
    /\ \/ \E i \in Slots :
             /\ First(i, SlotsOf(mem, u))
             /\ BeginWrite(Counted(mem, EntryStores(i, Nil, 0, "deleted")), {i} \X Fields,
                           Without(table, u))
       \/ SlotsOf(mem, u) = {} /\ BeginWrite(Nothing, {}, table)
    /\ UNCHANGED <<torn, owner>>

UpdateNodeVpn(u, v) ==
    /\ writer = "running"
    /\ \/ \E i \in Slots :
             /\ First(i, SlotsOf(mem, u))
             /\ BeginWrite([w \in {<<i, "vpn">>} |-> v], {}, With(table, u, v))
       \/ SlotsOf(mem, u) = {} /\ BeginWrite(Nothing, {}, table)
    /\ UNCHANGED <<torn, owner>>

\* update_heartbeat and update_opa_status.
UpdateHeader ==
    /\ writer = "running"
    /\ BeginWrite(Nothing, {}, table)
    /\ UNCHANGED <<torn, owner>>

StoreBlank(w) ==
    /\ w \in blanks
    /\ mem' = [mem EXCEPT ![w] = Blank(w)]
    /\ blanks' = blanks \ {w}
    /\ UNCHANGED <<seq, writer, pending, torn, table, owner, readerVars>>

Store(w) ==
    /\ w \in DOMAIN pending
    /\ mem' = [mem EXCEPT ![w] = pending[w]]
    /\ pending' = Without(pending, w)
    /\ blanks' = blanks \ {w}
    /\ UNCHANGED <<seq, writer, torn, table, owner, readerVars>>

\* SeqlockWriteGuard::drop.
EndWrite ==
    /\ writer = "writing"
    /\ DOMAIN pending = {}
    /\ seq' = seq + 1
    /\ writer' = "running"
    /\ UNCHANGED <<mem, pending, blanks, torn, table, owner, readerVars>>

\* The process dies; the memory stays as it is.
Crash ==
    /\ writer # "down"
    /\ writer' = "down"
    /\ pending' = Nothing
    /\ blanks' = {}
    /\ UNCHANGED <<seq, mem, torn, table, owner, readerVars>>

\* open_or_create of a region that is there: normalize_seq_header ...
Open ==
    /\ writer = "down"
    /\ writer' = "opened"
    /\ seq' = IF seq % 2 = 1 THEN seq + 1 ELSE seq
    /\ torn' = (torn \/ seq % 2 = 1)
    /\ UNCHANGED <<mem, pending, blanks, table, owner, readerVars>>

TakeOverStores ==
    [w \in Words |-> IF w = Generation THEN mem[Generation] + 1 ELSE Blank(w)]

\* ... then take_over, one write.
TakeOver ==
    /\ writer = "opened"
    /\ BeginWrite(TakeOverStores, {}, Nothing)
    /\ torn' = FALSE
    /\ owner' = mem[Generation] + 1

----------------------------------------------------------------------------
(* The readers: read_router_snapshot. *)

\* Mutant: a reader that does not wait for the open write.
AnySeq == TRUE

\* While seq is odd the reader spins, and gives up after SEQLOCK_READ_TIMEOUT_MS.
SeqEven == seq % 2 = 0

LoadSeq(r) ==
    /\ reading[r] = "idle"
    /\ SeqEven
    /\ reading' = [reading EXCEPT ![r] = "copying"]
    /\ s1' = [s1 EXCEPT ![r] = seq]
    /\ copy' = [copy EXCEPT ![r] = Nothing]
    /\ UNCHANGED writerVars

CopyWord(r, w) ==
    /\ reading[r] = "copying"
    /\ w \notin DOMAIN copy[r]
    /\ copy' = [copy EXCEPT ![r] = With(@, w, mem[w])]
    /\ UNCHANGED <<writerVars, reading, s1>>

Copied(r) == reading[r] = "copying" /\ DOMAIN copy[r] = Words

SeqUnmoved(r) == seq = s1[r]

\* The snapshot is returned when seq has not moved, and read again when it has.
EndRead(r) ==
    /\ Copied(r)
    /\ reading' = [reading EXCEPT ![r] = "idle"]
    /\ copy' = [copy EXCEPT ![r] = Nothing]
    /\ UNCHANGED <<writerVars, s1>>

\* The first node_count active entries, wherever their slots are.
Listed(m) ==
    {i \in Active(m) : Cardinality({j \in Active(m) : j < i}) < m[NodeCount]}

----------------------------------------------------------------------------

Init ==
    /\ seq = 0
    /\ mem = [w \in Words |-> IF w = Generation THEN 1 ELSE Blank(w)]
    /\ writer = "running"
    /\ pending = Nothing
    /\ blanks = {}
    /\ torn = FALSE
    /\ table = Nothing
    /\ owner = 1
    /\ reading = [r \in Readers |-> "idle"]
    /\ s1 = [r \in Readers |-> 0]
    /\ copy = [r \in Readers |-> Nothing]

WriterNext ==
    \/ \E u \in Uuids, v \in Vpns : RegisterNode(u, v)
    \/ \E u \in Uuids : UnregisterNode(u)
    \/ \E u \in Uuids, v \in Vpns : UpdateNodeVpn(u, v)
    \/ UpdateHeader
    \/ \E w \in Words : StoreBlank(w)
    \/ \E w \in Words : Store(w)
    \/ EndWrite
    \/ Crash
    \/ Open
    \/ TakeOver

ReaderNext ==
    \E r \in Readers :
        \/ LoadSeq(r)
        \/ \E w \in Words : CopyWord(r, w)
        \/ EndRead(r)

Next == WriterNext \/ ReaderNext

Spec == Init /\ [][Next]_vars

----------------------------------------------------------------------------
(* Properties. *)

\* The type invariant.
TypeOK ==
    /\ seq \in Nat
    /\ DOMAIN mem = Words
    /\ mem[Generation] \in Nat
    /\ writer \in {"running", "writing", "down", "opened"}
    /\ DOMAIN pending \subseteq Words
    /\ blanks \subseteq DOMAIN pending
    /\ torn \in BOOLEAN
    /\ DOMAIN table \subseteq Uuids
    /\ owner \in Nat
    /\ reading \in [Readers -> {"idle", "copying"}]
    /\ s1 \in [Readers -> Nat]
    /\ DOMAIN copy = Readers

\* The nodes a table lists are t's, each once and in t's VPN.
Lists(m, t) ==
    /\ \A i \in Listed(m) : UuidAt(m, i) \in DOMAIN t /\ VpnAt(m, i) = t[UuidAt(m, i)]
    /\ \A u \in DOMAIN t : \E i \in Listed(m) : UuidAt(m, i) = u
    /\ \A i, j \in Listed(m) : UuidAt(m, i) = UuidAt(m, j) => i = j

\* A snapshot that a reader accepts is the table last published, all of it: no
\* word of another write, no node left out behind a hole, none twice, and none of
\* an earlier process once the region is taken over.  The one exception is a
\* region that a process died writing, from its reopening to its take over.
SnapshotIsTable ==
    \A r \in Readers : Copied(r) /\ SeqUnmoved(r) /\ ~torn =>
        Lists(copy[r], table) /\ copy[r][Generation] = owner

\* register_node answers SlotFull exactly when MAX_NODES nodes are registered:
\* holes are found again and no node takes two slots.
SlotFullIsFull ==
    writer = "running" => (Active(mem) = Slots <=> Cardinality(DOMAIN table) = MAX_NODES)

\* A table in which nothing is on its way.
Sound(m, t, generation) ==
    /\ \A i \in Active(m) : UuidAt(m, i) \in DOMAIN t /\ VpnAt(m, i) = t[UuidAt(m, i)]
    /\ \A u \in DOMAIN t : \E i \in Active(m) : UuidAt(m, i) = u
    /\ \A i, j \in Active(m) : UuidAt(m, i) = UuidAt(m, j) => i = j
    /\ m[NodeCount] = Cardinality(Active(m))
    /\ m[Generation] = generation

\* seq is odd while a write is open, and the memory with the stores to come, or
\* alone when seq is even, is a sound table.
WriterInv ==
    /\ writer = "writing" => /\ seq % 2 = 1 /\ ~torn
                             /\ Sound(Done(mem, pending), table, owner)
    /\ writer # "writing" => DOMAIN pending = {}
    /\ writer = "running" => seq % 2 = 0 /\ ~torn
    /\ writer = "opened" => seq % 2 = 0
    /\ seq % 2 = 0 /\ ~torn => Sound(mem, table, owner)

\* A reader whose seq has not moved copied the memory.
ReadersInv ==
    \A r \in Readers : reading[r] = "copying" =>
        /\ s1[r] % 2 = 0 /\ s1[r] <= seq
        /\ DOMAIN copy[r] \subseteq Words
        /\ s1[r] = seq => \A w \in DOMAIN copy[r] : copy[r][w] = mem[w]

\* Inductive.
RegionInv == TypeOK /\ WriterInv /\ ReadersInv

----------------------------------------------------------------------------
(* The region as a table. *)

\* The nodes of a snapshot, with their VPNs.
Snapshot(m) ==
    [u \in {UuidAt(m, i) : i \in Listed(m)} |->
        VpnAt(m, CHOOSE i \in Listed(m) : UuidAt(m, i) = u)]

\* What a reader is about to return.
Seen(r) ==
    IF Copied(r) /\ SeqUnmoved(r) /\ ~torn
    THEN [nodes |-> Snapshot(copy[r]), generation |-> copy[r][Generation]]
    ELSE [nodes |-> Nothing, generation |-> 0]

Region == INSTANCE RegionTable WITH seen <- [r \in Readers |-> Seen(r)]

\* The slots, holes and words of the region, and the seqlock around them, are to the router a
\* table it changes in one step, a node taking a slot only when there is room for it, and to
\* a reader the whole table of one moment.  A region that a process died writing shows its
\* readers nothing in Seen, from its reopening to its take over: see SnapshotIsTable.
ImplementsRegionTable == Region!Spec

================================================================================
