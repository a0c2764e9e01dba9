--------------------------- MODULE RouterRegionProofs ---------------------------
(***************************************************************************)
(* What a reader of the router's region accepts is the table the router    *)
(* published, for any number of slots, nodes and readers: RegionInv is     *)
(* inductive.                                                              *)
(***************************************************************************)
EXTENDS RouterRegion, FiniteSetTheorems, FunctionTheorems, TLAPS

----------------------------------------------------------------------------
(* Slots, words and tables. *)

\* The words of a slot are words, and not the header's.
LEMMA SlotWords ==
    ASSUME NEW i \in Slots, NEW f \in Fields
    PROVE  /\ <<i, f>> \in Words
           /\ <<i, f>> # NodeCount /\ <<i, f>> # Generation
  BY DEF Words, NodeCount, Generation, Fields

\* The header's words are words, and not the same.
LEMMA HeaderWords == NodeCount \in Words /\ Generation \in Words /\ NodeCount # Generation
  BY DEF Words, NodeCount, Generation

\* The active slots are finitely many.
LEMMA ActiveFinite ==
    ASSUME NEW m
    PROVE  IsFiniteSet(Active(m)) /\ Active(m) \subseteq Slots /\ Cardinality(Active(m)) \in Nat
<1>1. IsFiniteSet(Slots)
  BY RegionAssumption, FS_Interval DEF Slots
<1>2. Active(m) \in SUBSET Slots
  BY DEF Active
<1>3. IsFiniteSet(Active(m))
  BY <1>1, <1>2, FS_Subset
<1> QED
  BY <1>2, <1>3, FS_CardinalityType

\* Slot i holds the same in two memories.
SameSlot(m, n, i) ==
    UuidAt(n, i) = UuidAt(m, i) /\ VpnAt(n, i) = VpnAt(m, i) /\ FlagsAt(n, i) = FlagsAt(m, i)

\* Two memories with the same words are sound together.
LEMMA SoundSame ==
    ASSUME NEW m, NEW n, NEW t, NEW g, \A w \in Words : m[w] = n[w], Sound(m, t, g)
    PROVE  Sound(n, t, g)
<1>1. \A i \in Slots : SameSlot(m, n, i)
  BY SlotWords DEF SameSlot, UuidAt, VpnAt, FlagsAt, Fields
<1>2. Active(m) = Active(n)
  BY <1>1 DEF Active, SameSlot
<1>3. \A i \in Active(m) : UuidAt(n, i) = UuidAt(m, i) /\ VpnAt(n, i) = VpnAt(m, i)
  BY <1>1 DEF Active, SameSlot
<1>4. n[NodeCount] = m[NodeCount] /\ n[Generation] = m[Generation]
  BY HeaderWords
<1> QED
  BY <1>2, <1>3, <1>4 DEF Sound

\* In a sound table node_count cuts nothing off.
LEMMA SoundListed ==
    ASSUME NEW m, NEW t, NEW g, Sound(m, t, g)
    PROVE  Listed(m) = Active(m)
<1> SUFFICES ASSUME NEW i \in Active(m)
             PROVE  Cardinality({j \in Active(m) : j < i}) < Cardinality(Active(m))
  BY DEF Listed, Sound
<1> DEFINE before == {j \in Active(m) : j < i}
<1>1. before \in SUBSET Active(m) /\ IsFiniteSet(Active(m))
  BY ActiveFinite
<1>2. i \notin before
  BY ActiveFinite DEF Slots
<1>3. Cardinality(before) <= Cardinality(Active(m)) /\ Cardinality(before) # Cardinality(Active(m))
  BY <1>1, <1>2, FS_Subset
<1>4. Cardinality(before) \in Nat /\ Cardinality(Active(m)) \in Nat
  BY <1>1, FS_Subset, FS_CardinalityType
<1> QED
  BY <1>3, <1>4

\* A sound table is listed whole.
LEMMA SoundLists ==
    ASSUME NEW m, NEW t, NEW g, Sound(m, t, g)
    PROVE  Lists(m, t) /\ m[Generation] = g
  BY SoundListed DEF Sound, Lists

\* A sound table has a slot for each node, and no other active one.
LEMMA SoundCount ==
    ASSUME NEW m, NEW t, NEW g, Sound(m, t, g)
    PROVE  Cardinality(DOMAIN t) = Cardinality(Active(m))
<1> DEFINE f == [i \in Active(m) |-> UuidAt(m, i)]
<1>1. f \in [Active(m) -> DOMAIN t]
  BY DEF Sound
<1>2. \A i, j \in Active(m) : f[i] = f[j] => i = j
  BY DEF Sound
<1>3. \A u \in DOMAIN t : \E i \in Active(m) : f[i] = u
  BY DEF Sound
<1> HIDE DEF f
<1>4. f \in Bijection(Active(m), DOMAIN t)
  BY <1>1, <1>2, <1>3, Fun_IsBij
<1>5. ExistsBijection(Active(m), DOMAIN t)
  BY <1>4, Fun_ExistsBij
<1> QED
  BY <1>5, ActiveFinite, FS_Bijection

----------------------------------------------------------------------------
(* What a write makes of a sound table. *)

\* Writing one entry changes that slot and the count, and nothing else.
LEMMA EntryDone ==
    ASSUME NEW m, NEW i \in Slots, NEW u, NEW v, NEW flags
    PROVE  LET n == Done(m, Counted(m, EntryStores(i, u, v, flags)))
           IN  /\ UuidAt(n, i) = u /\ VpnAt(n, i) = v /\ FlagsAt(n, i) = flags
               /\ \A j \in Slots \ {i} : SameSlot(m, n, j)
               /\ n[NodeCount] = Cardinality(Active(n))
               /\ n[Generation] = m[Generation]
<1> DEFINE e == EntryStores(i, u, v, flags)
           d == Done(m, e)
           n == Done(m, Counted(m, e))
<1>1. DOMAIN e = {i} \X Fields
  BY DEF EntryStores
<1>2. /\ e[<<i, "uuid">>] = u /\ e[<<i, "vpn">>] = v /\ e[<<i, "flags">>] = flags
  BY DEF EntryStores, Fields
<1> HIDE DEF e
<1>3. DOMAIN Counted(m, e) = DOMAIN e \cup {NodeCount}
  BY DEF Counted, With
<1>4. /\ Counted(m, e)[NodeCount] = Cardinality(Active(d))
      /\ \A w \in DOMAIN e : w # NodeCount => Counted(m, e)[w] = e[w]
  BY DEF Counted, With
<1>5. /\ UuidAt(n, i) = u /\ VpnAt(n, i) = v /\ FlagsAt(n, i) = flags
      /\ FlagsAt(d, i) = flags
  BY <1>1, <1>2, <1>3, <1>4, SlotWords DEF Done, Fields, UuidAt, VpnAt, FlagsAt
<1>6. \A j \in Slots \ {i} : SameSlot(m, n, j) /\ SameSlot(m, d, j)
  BY <1>1, <1>3, SlotWords DEF Done, SameSlot, UuidAt, VpnAt, FlagsAt, Fields
<1>7. Active(n) = Active(d)
  BY <1>5, <1>6 DEF Active, SameSlot
<1>8. n[NodeCount] = Cardinality(Active(d))
  BY <1>3, <1>4, HeaderWords DEF Done
<1>9. n[Generation] = m[Generation]
  <2>1. Generation \notin DOMAIN e
    BY <1>1, SlotWords
  <2> QED
    BY <1>3, <2>1, HeaderWords DEF Done
<1> QED
  BY <1>5, <1>6, <1>7, <1>8, <1>9 DEF e

\* register_node: the node's own slot, or one no node has.
LEMMA RegisterSound ==
    ASSUME NEW m, NEW t, NEW g, Sound(m, t, g), NEW u \in Uuids, NEW v, NEW i \in SlotsFor(m, u)
    PROVE  Sound(Done(m, Counted(m, EntryStores(i, u, v, "active"))), With(t, u, v), g)
<1> DEFINE n == Done(m, Counted(m, EntryStores(i, u, v, "active")))
<1>1. i \in Slots
  BY DEF SlotsFor, SlotsOf, Active
<1>2. /\ UuidAt(n, i) = u /\ VpnAt(n, i) = v /\ FlagsAt(n, i) = "active"
      /\ \A j \in Slots \ {i} : SameSlot(m, n, j)
      /\ n[NodeCount] = Cardinality(Active(n)) /\ n[Generation] = m[Generation]
  BY <1>1, EntryDone
<1> HIDE DEF n
<1>3. Active(n) = Active(m) \cup {i}
  BY <1>1, <1>2 DEF Active, SameSlot
<1>4. \A j \in Active(m) : j # i => UuidAt(m, j) # u
  BY DEF SlotsFor, SlotsOf, Sound
<1>5. \A j \in Active(m) : j # i => /\ UuidAt(n, j) = UuidAt(m, j)
                                    /\ VpnAt(n, j) = VpnAt(m, j)
  BY <1>2 DEF Active, SameSlot
<1>6. i \in Active(m) => UuidAt(m, i) = u
  BY DEF SlotsFor, SlotsOf
<1>7. DOMAIN With(t, u, v) = DOMAIN t \cup {u}
      /\ With(t, u, v)[u] = v /\ \A w \in DOMAIN t : w # u => With(t, u, v)[w] = t[w]
  BY DEF With
<1>8. \A j \in Active(n) : /\ UuidAt(n, j) \in DOMAIN With(t, u, v)
                           /\ VpnAt(n, j) = With(t, u, v)[UuidAt(n, j)]
  BY <1>2, <1>3, <1>4, <1>5, <1>7 DEF Sound
<1>9. \A w \in DOMAIN With(t, u, v) : \E j \in Active(n) : UuidAt(n, j) = w
  <2> SUFFICES ASSUME NEW w \in DOMAIN With(t, u, v)
               PROVE  \E j \in Active(n) : UuidAt(n, j) = w
    OBVIOUS
  <2>1. CASE w = u
    BY <1>2, <1>3, <2>1
  <2>2. CASE w # u
    <3>1. PICK j \in Active(m) : UuidAt(m, j) = w
      BY <1>7, <2>2 DEF Sound
    <3>2. j # i
      BY <1>6, <2>2, <3>1
    <3> QED
      BY <1>3, <1>5, <3>1, <3>2
  <2> QED
    BY <2>1, <2>2
<1>10. \A j, k \in Active(n) : UuidAt(n, j) = UuidAt(n, k) => j = k
  BY <1>2, <1>3, <1>4, <1>5 DEF Sound
<1>11. n[Generation] = g
  BY <1>2 DEF Sound
<1>12. Sound(n, With(t, u, v), g)
  BY <1>2, <1>8, <1>9, <1>10, <1>11 DEF Sound
<1> QED
  BY <1>12 DEF n

\* unregister_node: the node's slot becomes a hole.
LEMMA UnregisterSound ==
    ASSUME NEW m, NEW t, NEW g, Sound(m, t, g), NEW u, NEW i \in SlotsOf(m, u)
    PROVE  Sound(Done(m, Counted(m, EntryStores(i, Nil, 0, "deleted"))), Without(t, u), g)
<1> DEFINE n == Done(m, Counted(m, EntryStores(i, Nil, 0, "deleted")))
<1>1. i \in Slots /\ i \in Active(m) /\ UuidAt(m, i) = u
  BY DEF SlotsOf, Active
<1>2. /\ FlagsAt(n, i) = "deleted"
      /\ \A j \in Slots \ {i} : SameSlot(m, n, j)
      /\ n[NodeCount] = Cardinality(Active(n)) /\ n[Generation] = m[Generation]
  BY <1>1, EntryDone
<1> HIDE DEF n
<1>3. Active(n) = Active(m) \ {i}
  BY <1>1, <1>2 DEF Active, SameSlot
<1>4. \A j \in Active(n) : /\ UuidAt(n, j) = UuidAt(m, j)
                           /\ VpnAt(n, j) = VpnAt(m, j)
                           /\ UuidAt(m, j) # u
  BY <1>1, <1>2, <1>3 DEF Active, SameSlot, Sound
<1>5. DOMAIN Without(t, u) = DOMAIN t \ {u} /\ \A w \in DOMAIN t \ {u} : Without(t, u)[w] = t[w]
  BY DEF Without
<1>6. \A j \in Active(n) : /\ UuidAt(n, j) \in DOMAIN Without(t, u)
                           /\ VpnAt(n, j) = Without(t, u)[UuidAt(n, j)]
  BY <1>3, <1>4, <1>5 DEF Sound
<1>7. \A w \in DOMAIN Without(t, u) : \E j \in Active(n) : UuidAt(n, j) = w
  <2> SUFFICES ASSUME NEW w \in DOMAIN Without(t, u)
               PROVE  \E j \in Active(n) : UuidAt(n, j) = w
    OBVIOUS
  <2>1. PICK j \in Active(m) : UuidAt(m, j) = w
    BY <1>5 DEF Sound
  <2>2. j \in Active(n)
    BY <1>1, <1>3, <1>5, <2>1
  <2> QED
    BY <1>4, <2>1, <2>2
<1>8. \A j, k \in Active(n) : UuidAt(n, j) = UuidAt(n, k) => j = k
  BY <1>3, <1>4 DEF Sound
<1>9. n[Generation] = g
  BY <1>2 DEF Sound
<1>10. Sound(n, Without(t, u), g)
  BY <1>2, <1>6, <1>7, <1>8, <1>9 DEF Sound
<1> QED
  BY <1>10 DEF n

\* update_node_vpn: one word of the node's slot.
LEMMA UpdateVpnSound ==
    ASSUME NEW m, NEW t, NEW g, Sound(m, t, g), NEW u, NEW v, NEW i \in SlotsOf(m, u)
    PROVE  Sound(Done(m, [w \in {<<i, "vpn">>} |-> v]), With(t, u, v), g)
<1> DEFINE n == Done(m, [w \in {<<i, "vpn">>} |-> v])
<1>1. i \in Slots /\ i \in Active(m) /\ UuidAt(m, i) = u
  BY DEF SlotsOf, Active
<1>2. VpnAt(n, i) = v /\ \A w \in Words : w # <<i, "vpn">> => n[w] = m[w]
  BY <1>1, SlotWords DEF Done, Fields, VpnAt
<1> HIDE DEF n
<1>3. \A j \in Slots : UuidAt(n, j) = UuidAt(m, j) /\ FlagsAt(n, j) = FlagsAt(m, j)
  BY <1>2, SlotWords DEF Fields, UuidAt, VpnAt, FlagsAt
<1>4. \A j \in Slots : j # i => VpnAt(n, j) = VpnAt(m, j)
  BY <1>2, SlotWords DEF Fields, UuidAt, VpnAt, FlagsAt
<1>5. Active(n) = Active(m) /\ Active(m) \subseteq Slots
  BY <1>3 DEF Active
<1>6. n[NodeCount] = m[NodeCount] /\ n[Generation] = m[Generation]
  BY <1>1, <1>2, SlotWords, HeaderWords DEF Fields
<1>7. DOMAIN With(t, u, v) = DOMAIN t
      /\ With(t, u, v)[u] = v /\ \A w \in DOMAIN t : w # u => With(t, u, v)[w] = t[w]
  BY <1>1 DEF With, Sound
<1>8. \A j \in Active(n) : /\ UuidAt(n, j) \in DOMAIN With(t, u, v)
                           /\ VpnAt(n, j) = With(t, u, v)[UuidAt(n, j)]
  BY <1>1, <1>2, <1>3, <1>4, <1>5, <1>7 DEF Sound
<1>9. Sound(n, With(t, u, v), g)
  BY <1>3, <1>5, <1>6, <1>7, <1>8 DEF Sound
<1> QED
  BY <1>9 DEF n

\* A memory of blank words is a sound empty table.
LEMMA BlankSound ==
    ASSUME NEW m, NEW g, \A w \in Words : m[w] = IF w = Generation THEN g ELSE Blank(w)
    PROVE  Sound(m, Nothing, g)
<1>1. \A i \in Slots : FlagsAt(m, i) = "none"
  BY SlotWords DEF Fields, Blank, FlagsAt
<1>2. Active(m) = {}
  BY <1>1 DEF Active
<1>3. m[NodeCount] = 0 /\ m[Generation] = g
  BY HeaderWords DEF Blank, NodeCount
<1> QED
  BY <1>2, <1>3, FS_EmptySet DEF Sound, Nothing

\* With no stores to come the memory is what it is.
LEMMA NothingDone ==
    ASSUME NEW m, NEW stores, DOMAIN stores = {}
    PROVE  \A w \in Words : Done(m, stores)[w] = m[w]
  BY DEF Done

----------------------------------------------------------------------------
(* The writer's steps. *)

\* A write begins on an even seq, so no reader's seq is the new one.
LEMMA BeginWriteInv ==
    ASSUME RegionInv, writer \in {"running", "opened"}, BeginWrite(pending', blanks', table'),
           DOMAIN pending' \subseteq Words, blanks' \subseteq DOMAIN pending',
           DOMAIN table' \subseteq Uuids, torn' = FALSE, owner' \in Nat,
           Sound(Done(mem, pending'), table', owner')
    PROVE  RegionInv'
<1> USE DEF RegionInv
<1>1. seq \in Nat /\ seq % 2 = 0 /\ seq' = seq + 1 /\ mem' = mem
  BY DEF BeginWrite, WriterInv, TypeOK
<1>2. seq' \in Nat /\ seq' % 2 = 1
  BY <1>1
<1>3. TypeOK'
  BY <1>2 DEF BeginWrite, TypeOK, readerVars
<1>4. WriterInv'
  BY <1>2 DEF BeginWrite, WriterInv
<1>5. ReadersInv'
  <2> SUFFICES ASSUME NEW r \in Readers, reading[r] = "copying"
               PROVE  /\ s1[r] % 2 = 0 /\ s1[r] <= seq' /\ s1[r] # seq'
                      /\ DOMAIN copy[r] \subseteq Words
    BY DEF BeginWrite, ReadersInv, readerVars
  <2>1. s1[r] \in Nat /\ s1[r] % 2 = 0 /\ s1[r] <= seq /\ DOMAIN copy[r] \subseteq Words
    BY DEF ReadersInv, TypeOK
  <2> QED
    BY <1>1, <2>1
<1> QED
  BY <1>3, <1>4, <1>5

\* A running writer's table is sound.
LEMMA RunningSound ==
    ASSUME RegionInv, writer = "running"
    PROVE  Sound(mem, table, owner) /\ ~torn
  BY DEF RegionInv, WriterInv

\* A write with no stores.
LEMMA EmptyWriteInv ==
    ASSUME RegionInv, writer = "running", BeginWrite(Nothing, {}, table), UNCHANGED <<torn, owner>>
    PROVE  RegionInv'
<1>1. DOMAIN Nothing = {}
  BY DEF Nothing
<1>2. Sound(Done(mem, Nothing), table, owner)
  BY <1>1, RunningSound, NothingDone, SoundSame
<1>3. /\ torn' = FALSE /\ owner' \in Nat /\ DOMAIN table \subseteq Uuids
      /\ writer \in {"running", "opened"} /\ {} \subseteq DOMAIN Nothing
      /\ DOMAIN Nothing \subseteq Words
  BY <1>1, RunningSound DEF RegionInv, TypeOK
<1>4. Sound(Done(mem, Nothing), table, owner')
  BY <1>2
<1> QED
  BY <1>3, <1>4, BeginWriteInv DEF BeginWrite

\* The words that writing one entry stores.
LEMMA EntryWords ==
    ASSUME NEW i \in Slots, NEW u, NEW v, NEW flags
    PROVE  /\ DOMAIN Counted(mem, EntryStores(i, u, v, flags)) \subseteq Words
           /\ {i} \X Fields \subseteq DOMAIN Counted(mem, EntryStores(i, u, v, flags))
<1>1. DOMAIN EntryStores(i, u, v, flags) = {i} \X Fields
  BY DEF EntryStores
<1>2. DOMAIN Counted(mem, EntryStores(i, u, v, flags)) = ({i} \X Fields) \cup {NodeCount}
  BY <1>1 DEF Counted, With
<1> QED
  BY <1>2 DEF Words

\* register_node.
LEMMA RegisterNodeInv ==
    ASSUME RegionInv, NEW u \in Uuids, NEW v \in Vpns, RegisterNode(u, v)
    PROVE  RegionInv'
<1>1. PICK i \in Slots :
        /\ i \in SlotsFor(mem, u)
        /\ BeginWrite(Counted(mem, EntryStores(i, u, v, "active")), {i} \X Fields, With(table, u, v))
  BY DEF RegisterNode, First
<1>2. writer = "running" /\ UNCHANGED <<torn, owner>>
  BY DEF RegisterNode
<1>3. Sound(Done(mem, Counted(mem, EntryStores(i, u, v, "active"))), With(table, u, v), owner')
  BY <1>1, <1>2, RunningSound, RegisterSound
<1>4. /\ torn' = FALSE /\ owner' \in Nat /\ writer \in {"running", "opened"}
      /\ DOMAIN With(table, u, v) \subseteq Uuids
  BY <1>2, RunningSound DEF RegionInv, TypeOK, With
<1>5. /\ DOMAIN Counted(mem, EntryStores(i, u, v, "active")) \subseteq Words
      /\ {i} \X Fields \subseteq DOMAIN Counted(mem, EntryStores(i, u, v, "active"))
  BY EntryWords
<1> QED
  BY <1>1, <1>3, <1>4, <1>5, BeginWriteInv DEF BeginWrite

\* unregister_node.
LEMMA UnregisterNodeInv ==
    ASSUME RegionInv, NEW u \in Uuids, UnregisterNode(u)
    PROVE  RegionInv'
<1>1. writer = "running" /\ UNCHANGED <<torn, owner>>
  BY DEF UnregisterNode
<1>2. CASE BeginWrite(Nothing, {}, table)
  BY <1>1, <1>2, EmptyWriteInv
<1>3. ASSUME NEW i \in Slots, i \in SlotsOf(mem, u),
             BeginWrite(Counted(mem, EntryStores(i, Nil, 0, "deleted")), {i} \X Fields,
                        Without(table, u))
      PROVE  RegionInv'
  <2>1. Sound(Done(mem, Counted(mem, EntryStores(i, Nil, 0, "deleted"))), Without(table, u), owner')
    BY <1>1, <1>3, RunningSound, UnregisterSound
  <2>2. /\ torn' = FALSE /\ owner' \in Nat /\ writer \in {"running", "opened"}
        /\ DOMAIN Without(table, u) \subseteq Uuids
    BY <1>1, RunningSound DEF RegionInv, TypeOK, Without
  <2>3. /\ DOMAIN Counted(mem, EntryStores(i, Nil, 0, "deleted")) \subseteq Words
        /\ {i} \X Fields \subseteq DOMAIN Counted(mem, EntryStores(i, Nil, 0, "deleted"))
    BY EntryWords
  <2> QED
    BY <1>3, <2>1, <2>2, <2>3, BeginWriteInv DEF BeginWrite
<1> QED
  BY <1>2, <1>3 DEF UnregisterNode, First

\* update_node_vpn.
LEMMA UpdateNodeVpnInv ==
    ASSUME RegionInv, NEW u \in Uuids, NEW v \in Vpns, UpdateNodeVpn(u, v)
    PROVE  RegionInv'
<1>1. writer = "running" /\ UNCHANGED <<torn, owner>>
  BY DEF UpdateNodeVpn
<1>2. CASE BeginWrite(Nothing, {}, table)
  BY <1>1, <1>2, EmptyWriteInv
<1>3. ASSUME NEW i \in Slots, i \in SlotsOf(mem, u),
             BeginWrite([w \in {<<i, "vpn">>} |-> v], {}, With(table, u, v))
      PROVE  RegionInv'
  <2> DEFINE stores == [w \in {<<i, "vpn">>} |-> v]
  <2>1. Sound(Done(mem, stores), With(table, u, v), owner')
    BY <1>1, <1>3, RunningSound, UpdateVpnSound
  <2>2. /\ torn' = FALSE /\ owner' \in Nat /\ writer \in {"running", "opened"}
        /\ DOMAIN With(table, u, v) \subseteq Uuids
    BY <1>1, RunningSound DEF RegionInv, TypeOK, With
  <2>3. DOMAIN stores \subseteq Words /\ {} \subseteq DOMAIN stores
    BY SlotWords DEF Fields
  <2>4. BeginWrite(stores, {}, With(table, u, v))
    BY <1>3
  <2> HIDE DEF stores
  <2> QED
    BY <2>1, <2>2, <2>3, <2>4, BeginWriteInv DEF BeginWrite
<1> QED
  BY <1>2, <1>3 DEF UpdateNodeVpn, First

\* take_over empties the table.
LEMMA TakeOverInv ==
    ASSUME RegionInv, TakeOver
    PROVE  RegionInv'
<1>1. DOMAIN TakeOverStores = Words
  BY DEF TakeOverStores
<1>2. Sound(Done(mem, TakeOverStores), Nothing, mem[Generation] + 1)
  <2>1. \A w \in Words : Done(mem, TakeOverStores)[w] =
                            IF w = Generation THEN mem[Generation] + 1 ELSE Blank(w)
    BY DEF Done, TakeOverStores
  <2> QED
    BY <2>1, BlankSound
<1>3. /\ DOMAIN Nothing \subseteq Uuids
      /\ DOMAIN TakeOverStores \subseteq Words /\ {} \subseteq DOMAIN TakeOverStores
  BY <1>1 DEF Nothing
<1>4. /\ BeginWrite(TakeOverStores, {}, Nothing) /\ torn' = FALSE
      /\ writer \in {"running", "opened"} /\ owner' \in Nat
      /\ Sound(Done(mem, TakeOverStores), Nothing, owner')
  BY <1>2 DEF TakeOver, RegionInv, TypeOK
<1> QED
  BY <1>3, <1>4, BeginWriteInv DEF BeginWrite

\* A step of the writer that leaves seq odd, and so every reader behind.
LEMMA OddReaders ==
    ASSUME RegionInv, seq % 2 = 1, UNCHANGED <<seq, readerVars>>
    PROVE  ReadersInv'
<1>1. \A r \in Readers : reading[r] = "copying" => s1[r] # seq
  BY DEF RegionInv, ReadersInv
<1> QED
  BY <1>1 DEF RegionInv, ReadersInv, readerVars

\* A store, blank or last, leaves the table that the write makes.
LEMMA StoreInv ==
    ASSUME RegionInv, NEW w \in Words, StoreBlank(w) \/ Store(w)
    PROVE  RegionInv'
<1> USE DEF RegionInv
<1>1. w \in DOMAIN pending
  BY DEF StoreBlank, Store, TypeOK
<1>2. writer = "writing" /\ seq % 2 = 1
  BY <1>1 DEF WriterInv, Nothing
<1>3. \A x \in Words : Done(mem', pending')[x] = Done(mem, pending)[x]
  <2>1. CASE StoreBlank(w)
    BY <1>1, <2>1 DEF StoreBlank, Done, TypeOK
  <2>2. CASE Store(w)
    BY <1>1, <2>2 DEF Store, Done, Without, TypeOK
  <2> QED
    BY <2>1, <2>2
<1>4. UNCHANGED <<seq, writer, torn, table, owner, readerVars>>
  BY DEF StoreBlank, Store
<1>5. TypeOK'
  <2>1. DOMAIN mem' = Words /\ mem'[Generation] \in Nat
    <3>1. DOMAIN mem' = Words
      BY DEF StoreBlank, Store, TypeOK
    <3>2. CASE w # Generation
      BY <3>2, HeaderWords DEF StoreBlank, Store, TypeOK
    <3>3. CASE w = Generation /\ StoreBlank(w)
      BY <3>3, HeaderWords DEF StoreBlank, TypeOK, Blank, Generation
    <3>4. CASE w = Generation /\ Store(w)
      <4>1. mem'[Generation] = Done(mem, pending)[Generation]
        BY <1>1, <3>4, HeaderWords DEF Store, Done, TypeOK
      <4>2. Done(mem, pending)[Generation] = owner
        BY <1>2 DEF WriterInv, Sound
      <4> QED
        BY <3>1, <4>1, <4>2 DEF TypeOK
    <3> QED
      BY <3>1, <3>2, <3>3, <3>4
  <2>2. DOMAIN pending' \subseteq Words /\ blanks' \subseteq DOMAIN pending'
    BY DEF StoreBlank, Store, TypeOK, Without
  <2> QED
    BY <1>4, <2>1, <2>2 DEF TypeOK, readerVars
<1>6. WriterInv'
  <2>1. Sound(Done(mem, pending), table, owner)
    BY <1>2 DEF WriterInv
  <2>2. Sound(Done(mem', pending'), table, owner)
    BY <1>3, <2>1, SoundSame
  <2> QED
    BY <1>2, <1>4, <2>2 DEF WriterInv
<1>7. ReadersInv'
  BY <1>2, <1>4, OddReaders
<1> QED
  BY <1>5, <1>6, <1>7

\* A reader's first seq is even: it cannot be the one a write ends with.
LEMMA EndWriteInv ==
    ASSUME RegionInv, EndWrite
    PROVE  RegionInv'
<1> USE DEF RegionInv
<1>1. seq \in Nat /\ seq % 2 = 1 /\ seq' = seq + 1
  BY DEF EndWrite, WriterInv, TypeOK
<1>2. seq' \in Nat /\ seq' % 2 = 0
  BY <1>1
<1>3. TypeOK'
  BY <1>2 DEF EndWrite, TypeOK, readerVars
<1>4. WriterInv'
  <2>1. Sound(mem, table, owner)
    BY NothingDone, SoundSame DEF EndWrite, WriterInv
  <2> QED
    BY <1>2, <2>1 DEF EndWrite, WriterInv
<1>5. ReadersInv'
  <2> SUFFICES ASSUME NEW r \in Readers, reading[r] = "copying"
               PROVE  /\ s1[r] % 2 = 0 /\ s1[r] <= seq' /\ s1[r] # seq'
                      /\ DOMAIN copy[r] \subseteq Words
    BY DEF EndWrite, ReadersInv, readerVars
  <2>1. s1[r] \in Nat /\ s1[r] % 2 = 0 /\ s1[r] <= seq /\ DOMAIN copy[r] \subseteq Words
    BY DEF ReadersInv, TypeOK
  <2> QED
    BY <1>1, <2>1
<1> QED
  BY <1>3, <1>4, <1>5

\* The process dies: the memory stays, and the stores to come are lost.
LEMMA CrashInv ==
    ASSUME RegionInv, Crash
    PROVE  RegionInv'
<1> USE DEF RegionInv
<1>1. TypeOK'
  BY DEF Crash, TypeOK, readerVars, Nothing
<1>2. WriterInv'
  BY DEF Crash, WriterInv, Nothing
<1>3. ReadersInv'
  BY DEF Crash, ReadersInv, readerVars
<1> QED
  BY <1>1, <1>2, <1>3

\* normalize_seq_header moves an odd seq, and then the table is torn.
LEMMA OpenInv ==
    ASSUME RegionInv, Open
    PROVE  RegionInv'
<1> USE DEF RegionInv
<1>1. seq \in Nat /\ DOMAIN pending = {}
  BY DEF Open, TypeOK, WriterInv
<1>2. CASE seq % 2 = 1
  <2>1. seq' = seq + 1 /\ seq' \in Nat /\ seq' % 2 = 0
    BY <1>1, <1>2 DEF Open
  <2>5. torn' = TRUE
    BY <1>2, Zenon DEF Open
  <2>2. TypeOK'
    BY <2>1, <2>5 DEF Open, TypeOK, readerVars
  <2>3. WriterInv'
    BY <1>1, <2>1, <2>5 DEF Open, WriterInv
  <2>4. ReadersInv'
    <3> SUFFICES ASSUME NEW r \in Readers, reading[r] = "copying"
                 PROVE  /\ s1[r] % 2 = 0 /\ s1[r] <= seq' /\ s1[r] # seq'
                        /\ DOMAIN copy[r] \subseteq Words
      BY DEF Open, ReadersInv, readerVars
    <3>1. s1[r] \in Nat /\ s1[r] % 2 = 0 /\ s1[r] <= seq /\ DOMAIN copy[r] \subseteq Words
      BY DEF ReadersInv, TypeOK
    <3> QED
      BY <1>1, <2>1, <3>1
  <2> QED
    BY <2>2, <2>3, <2>4
<1>3. CASE seq % 2 # 1
  <2>1. seq' = seq /\ seq % 2 = 0 /\ torn' = torn
    BY <1>1, <1>3 DEF Open, TypeOK
  <2>2. TypeOK'
    BY <2>1 DEF Open, TypeOK, readerVars
  <2>3. WriterInv'
    BY <1>1, <2>1 DEF Open, WriterInv
  <2>4. ReadersInv'
    BY <2>1 DEF Open, ReadersInv, readerVars
  <2> QED
    BY <2>2, <2>3, <2>4
<1> QED
  BY <1>2, <1>3

----------------------------------------------------------------------------
(* The readers' steps. *)

\* A step of the readers leaves the writer's part of the invariant.
LEMMA ReaderStepInv ==
    ASSUME RegionInv, NEW r \in Readers,
           \/ LoadSeq(r)
           \/ \E w \in Words : CopyWord(r, w)
           \/ EndRead(r)
    PROVE  RegionInv'
<1> USE DEF RegionInv
<1>1. UNCHANGED writerVars
  BY DEF LoadSeq, CopyWord, EndRead
<1>2. TypeOK'
  BY <1>1 DEF LoadSeq, CopyWord, EndRead, TypeOK, writerVars
<1>3. WriterInv'
  BY <1>1 DEF WriterInv, writerVars
<1>4. ReadersInv'
  <2> SUFFICES ASSUME NEW q \in Readers, reading'[q] = "copying"
               PROVE  /\ s1'[q] % 2 = 0 /\ s1'[q] <= seq
                      /\ DOMAIN copy'[q] \subseteq Words
                      /\ s1'[q] = seq => \A x \in DOMAIN copy'[q] : copy'[q][x] = mem[x]
    BY <1>1 DEF ReadersInv, writerVars
  <2>1. CASE LoadSeq(r)
    BY <2>1 DEF LoadSeq, SeqEven, ReadersInv, TypeOK, Nothing
  <2>2. ASSUME NEW w \in Words, CopyWord(r, w)
        PROVE  /\ s1'[q] % 2 = 0 /\ s1'[q] <= seq
               /\ DOMAIN copy'[q] \subseteq Words
               /\ s1'[q] = seq => \A x \in DOMAIN copy'[q] : copy'[q][x] = mem[x]
    <3>1. reading[q] = "copying" /\ s1' = s1
      BY <2>2 DEF CopyWord
    <3>2. CASE q # r
      BY <2>2, <3>1, <3>2 DEF CopyWord, ReadersInv, TypeOK
    <3>3. CASE q = r
      <4>1. copy'[q] = With(copy[q], w, mem[w])
        BY <2>2, <3>3 DEF CopyWord, TypeOK
      <4> QED
        BY <3>1, <4>1 DEF With, ReadersInv
    <3> QED
      BY <3>2, <3>3
  <2>3. CASE EndRead(r)
    BY <2>3 DEF EndRead, ReadersInv, TypeOK, Nothing
  <2> QED
    BY <2>1, <2>2, <2>3
<1> QED
  BY <1>2, <1>3, <1>4

----------------------------------------------------------------------------
(* The theorems. *)

\* The region as it is created.
LEMMA InitInv == Init => RegionInv
<1> SUFFICES ASSUME Init PROVE RegionInv
  OBVIOUS
<1>1. TypeOK
  BY HeaderWords DEF Init, TypeOK, Nothing
<1>2. Sound(mem, table, owner)
  BY BlankSound DEF Init
<1>3. WriterInv
  BY <1>2 DEF Init, WriterInv, Nothing
<1>4. ReadersInv
  BY DEF Init, ReadersInv
<1> QED
  BY <1>1, <1>3, <1>4 DEF RegionInv

\* Every step of the writer and of the readers keeps the invariant.
LEMMA NextInv == RegionInv /\ [Next]_vars => RegionInv'
<1> SUFFICES ASSUME RegionInv, [Next]_vars PROVE RegionInv'
  OBVIOUS
<1>1. CASE WriterNext
  <2>1. CASE \E u \in Uuids, v \in Vpns : RegisterNode(u, v)
    BY <2>1, RegisterNodeInv
  <2>2. CASE \E u \in Uuids : UnregisterNode(u)
    BY <2>2, UnregisterNodeInv
  <2>3. CASE \E u \in Uuids, v \in Vpns : UpdateNodeVpn(u, v)
    BY <2>3, UpdateNodeVpnInv
  <2>4. CASE UpdateHeader
    BY <2>4, EmptyWriteInv DEF UpdateHeader
  <2>5. CASE \E w \in Words : StoreBlank(w) \/ Store(w)
    BY <2>5, StoreInv
  <2>6. CASE EndWrite
    BY <2>6, EndWriteInv
  <2>7. CASE Crash
    BY <2>7, CrashInv
  <2>8. CASE Open
    BY <2>8, OpenInv
  <2>9. CASE TakeOver
    BY <2>9, TakeOverInv
  <2> QED
    BY <1>1, <2>1, <2>2, <2>3, <2>4, <2>5, <2>6, <2>7, <2>8, <2>9 DEF WriterNext
<1>2. CASE ReaderNext
  BY <1>2, ReaderStepInv DEF ReaderNext
<1>3. CASE UNCHANGED vars
  BY <1>3 DEF vars, writerVars, readerVars, RegionInv, TypeOK, WriterInv, ReadersInv
<1> QED
  BY <1>1, <1>2, <1>3 DEF Next

\* The region's invariant holds in every reachable state, for any number of
\* slots, nodes, readers and writes, and with crashes at any store.
THEOREM RegionInvariant == Spec => []RegionInv
  BY InitInv, NextInv, PTL DEF Spec

\* What read_router_snapshot returns is the table register_node, unregister_node,
\* update_node_vpn and take_over made.
THEOREM RegionSnapshotIsTable == Spec => []SnapshotIsTable
<1>1. RegionInv => SnapshotIsTable
  <2> SUFFICES ASSUME RegionInv, NEW r \in Readers, Copied(r), SeqUnmoved(r), ~torn
               PROVE  Lists(copy[r], table) /\ copy[r][Generation] = owner
    BY DEF SnapshotIsTable
  <2>1. \A w \in Words : mem[w] = copy[r][w]
    BY DEF Copied, SeqUnmoved, RegionInv, ReadersInv
  <2>2. Sound(mem, table, owner)
    BY DEF Copied, SeqUnmoved, RegionInv, ReadersInv, WriterInv
  <2>3. Sound(copy[r], table, owner)
    BY <2>1, <2>2, SoundSame
  <2> QED
    BY <2>3, SoundLists
<1> QED
  BY <1>1, RegionInvariant, PTL

\* register_node answers SlotFull exactly when MAX_NODES nodes are registered.
THEOREM RegionSlotFullIsFull == Spec => []SlotFullIsFull
<1>1. RegionInv => SlotFullIsFull
  <2> SUFFICES ASSUME RegionInv, writer = "running"
               PROVE  Active(mem) = Slots <=> Cardinality(DOMAIN table) = MAX_NODES
    BY DEF SlotFullIsFull
  <2>1. Cardinality(DOMAIN table) = Cardinality(Active(mem))
    BY RunningSound, SoundCount
  <2>2. IsFiniteSet(Slots) /\ Cardinality(Slots) = MAX_NODES
    BY RegionAssumption, FS_Interval DEF Slots
  <2>3. Active(mem) \in SUBSET Slots
    BY DEF Active
  <2>4. Cardinality(Active(mem)) = MAX_NODES => Active(mem) = Slots
    BY <2>2, <2>3, FS_Subset
  <2> QED
    BY <2>1, <2>2, <2>4
<1> QED
  BY <1>1, RegionInvariant, PTL

----------------------------------------------------------------------------
(* The region is a table (RegionTable). *)

\* The table is a function.  The generation in memory is the owner's, or the one before, while
\* the process that takes over has not stored its own: then the table is empty.
TableOk ==
    /\ table = [u \in DOMAIN table |-> table[u]]
    /\ Generation \notin blanks
    /\ mem[Generation] = owner \/ (mem[Generation] + 1 = owner /\ table = Nothing)

\* Functions the writer makes are functions.
LEMMA TableFunctions ==
    ASSUME NEW f, NEW x, NEW v
    PROVE  /\ With(f, x, v) = [u \in DOMAIN With(f, x, v) |-> With(f, x, v)[u]]
           /\ Without(f, x) = [u \in DOMAIN Without(f, x) |-> Without(f, x)[u]]
           /\ Nothing = [u \in DOMAIN Nothing |-> Nothing[u]]
BY DEF With, Without, Nothing

\* A write of a running process.
LEMMA RunningTable ==
    ASSUME RegionInv, TableOk, writer = "running", UNCHANGED <<mem, owner>>,
           Generation \notin blanks', table' = [u \in DOMAIN table' |-> table'[u]]
    PROVE  TableOk'
<1>1. mem[Generation] = owner
  BY RunningSound DEF Sound
<1> QED BY <1>1 DEF TableOk

\* The words of an entry are not the header's.
LEMMA NoHeader ==
    ASSUME NEW i \in Slots
    PROVE  Generation \notin {i} \X Fields
BY RegionAssumption DEF Slots, Generation

\* Every step keeps the table's form.
LEMMA TableStep ==
    ASSUME RegionInv, TableOk, [Next]_vars
    PROVE  TableOk'
<1>1. ASSUME NEW u \in Uuids, NEW v \in Vpns, RegisterNode(u, v)
      PROVE  TableOk'
  <2>1. /\ writer = "running" /\ UNCHANGED <<mem, owner>> /\ table' = With(table, u, v)
        /\ \E i \in Slots : blanks' = {i} \X Fields
    BY <1>1 DEF RegisterNode, BeginWrite
  <2>2. Generation \notin blanks'
    BY <2>1, NoHeader
  <2> QED BY <2>1, <2>2, RunningTable, TableFunctions
<1>2. ASSUME NEW u \in Uuids, UnregisterNode(u)
      PROVE  TableOk'
  <2>1. /\ writer = "running" /\ UNCHANGED <<mem, owner>>
        /\ table' = Without(table, u) \/ table' = table
        /\ blanks' = {} \/ \E i \in Slots : blanks' = {i} \X Fields
    BY <1>2 DEF UnregisterNode, BeginWrite
  <2>2. Generation \notin blanks'
    BY <2>1, NoHeader
  <2>3. table' = [n \in DOMAIN table' |-> table'[n]]
    BY <2>1, TableFunctions DEF TableOk
  <2> QED BY <2>1, <2>2, <2>3, RunningTable
<1>3. ASSUME NEW u \in Uuids, NEW v \in Vpns, UpdateNodeVpn(u, v)
      PROVE  TableOk'
  <2>1. /\ writer = "running" /\ UNCHANGED <<mem, owner>> /\ blanks' = {}
        /\ table' = With(table, u, v) \/ table' = table
    BY <1>3 DEF UpdateNodeVpn, BeginWrite
  <2>3. table' = [n \in DOMAIN table' |-> table'[n]]
    BY <2>1, TableFunctions DEF TableOk
  <2> QED BY <2>1, <2>3, RunningTable
<1>4. CASE UpdateHeader
  <2>1. /\ writer = "running" /\ UNCHANGED <<mem, owner, table>> /\ blanks' = {}
    BY <1>4 DEF UpdateHeader, BeginWrite
  <2> QED BY <2>1, RunningTable DEF TableOk
<1>5. ASSUME NEW w \in Words, StoreBlank(w)
      PROVE  TableOk'
  <2>1. w /= Generation
    BY <1>5 DEF StoreBlank, TableOk
  <2>2. mem'[Generation] = mem[Generation]
    BY <1>5, <2>1 DEF StoreBlank, RegionInv, TypeOK
  <2> QED BY <1>5, <2>2 DEF StoreBlank, TableOk
<1>6. ASSUME NEW w \in Words, Store(w)
      PROVE  TableOk'
  <2>1. UNCHANGED <<table, owner>> /\ blanks' \subseteq blanks /\ mem' = [mem EXCEPT ![w] = pending[w]]
    BY <1>6 DEF Store
  <2>2. CASE w /= Generation
    <3>1. mem'[Generation] = mem[Generation]
      BY <2>1, <2>2 DEF RegionInv, TypeOK
    <3> QED BY <2>1, <3>1 DEF TableOk
  <2>3. CASE w = Generation
    <3>1. writer = "writing" /\ Generation \in DOMAIN pending
      BY <1>6, <2>3 DEF Store, RegionInv, WriterInv
    <3>2. Sound(Done(mem, pending), table, owner)
      BY <3>1 DEF RegionInv, WriterInv
    <3>3. pending[Generation] = owner
      BY <3>1, <3>2, HeaderWords DEF Sound, Done
    <3>4. mem'[Generation] = owner
      BY <2>1, <2>3, <3>3, HeaderWords DEF RegionInv, TypeOK
    <3> QED BY <2>1, <3>4 DEF TableOk
  <2> QED BY <2>2, <2>3
<1>7. CASE EndWrite \/ Crash \/ Open \/ ReaderNext \/ UNCHANGED vars
  <2>1. UNCHANGED <<mem, table, owner>> /\ (blanks' = blanks \/ blanks' = {})
    BY <1>7 DEF EndWrite, Crash, Open, ReaderNext, LoadSeq, CopyWord, EndRead, vars, writerVars
  <2> QED BY <2>1 DEF TableOk
<1>8. CASE TakeOver
  <2>1. mem' = mem /\ table' = Nothing /\ blanks' = {} /\ owner' = mem[Generation] + 1
    BY <1>8 DEF TakeOver, BeginWrite
  <2> QED BY <2>1, TableFunctions DEF TableOk
<1> QED BY <1>1, <1>2, <1>3, <1>4, <1>5, <1>6, <1>7, <1>8 DEF Next, WriterNext

\* A snapshot of a table is the table.
LEMMA SnapshotTable ==
    ASSUME NEW m, NEW t, Lists(m, t), t = [u \in DOMAIN t |-> t[u]]
    PROVE  Snapshot(m) = t
<1>1. {UuidAt(m, i) : i \in Listed(m)} = DOMAIN t
  BY DEF Lists
<1>2. ASSUME NEW u \in DOMAIN t
      PROVE  VpnAt(m, CHOOSE i \in Listed(m) : UuidAt(m, i) = u) = t[u]
  <2>1. \E i \in Listed(m) : UuidAt(m, i) = u
    BY DEF Lists
  <2>2. PICK j : j = CHOOSE i \in Listed(m) : UuidAt(m, i) = u
    OBVIOUS
  <2>3. j \in Listed(m) /\ UuidAt(m, j) = u
    BY <2>1, <2>2
  <2>4. VpnAt(m, j) = t[u]
    BY <2>3 DEF Lists
  <2> QED BY <2>2, <2>4
<1>3. Snapshot(m) = [u \in DOMAIN t |-> t[u]]
  <2>1. Snapshot(m) = [u \in DOMAIN t |-> VpnAt(m, CHOOSE i \in Listed(m) : UuidAt(m, i) = u)]
    BY <1>1 DEF Snapshot
  <2> QED BY <1>2, <2>1
<1> QED BY <1>3

\* What a reader is about to return, if anything, is the table.
LEMMA SeenTable ==
    ASSUME RegionInv, TableOk, NEW r \in Readers
    PROVE  Seen(r) \in {[nodes |-> Nothing, generation |-> 0], [nodes |-> table, generation |-> owner]}
<1>1. CASE Copied(r) /\ SeqUnmoved(r) /\ ~torn
  <2>1. Lists(copy[r], table) /\ copy[r][Generation] = owner
    <3>1. \A w \in Words : mem[w] = copy[r][w]
      BY <1>1 DEF Copied, SeqUnmoved, RegionInv, ReadersInv
    <3>2. Sound(mem, table, owner)
      BY <1>1 DEF Copied, SeqUnmoved, RegionInv, ReadersInv, WriterInv
    <3>3. Sound(copy[r], table, owner)
      BY <3>1, <3>2, SoundSame
    <3> QED BY <3>3, SoundLists DEF Sound
  <2>2. Snapshot(copy[r]) = table
    BY <2>1, SnapshotTable DEF TableOk
  <2> QED BY <1>1, <2>1, <2>2 DEF Seen
<1>2. CASE ~(Copied(r) /\ SeqUnmoved(r) /\ ~torn)
  BY <1>2 DEF Seen
<1> QED BY <1>1, <1>2

\* When seq moves every reader reads again.
LEMMA MovedAgain ==
    ASSUME RegionInv, UNCHANGED <<reading, s1, copy>>, seq' = seq + 1
    PROVE  Region!AllAgain
<1>1. ASSUME NEW r \in Readers
      PROVE  Seen(r)' = [nodes |-> Nothing, generation |-> 0]
  <2>1. Copied(r)' => reading[r] = "copying"
    BY DEF Copied
  <2>2. reading[r] = "copying" => s1[r] \in Nat /\ seq \in Nat /\ s1[r] <= seq
    BY DEF RegionInv, ReadersInv, TypeOK
  <2>3. ~(Copied(r)' /\ SeqUnmoved(r)')
    BY <2>1, <2>2 DEF SeqUnmoved
  <2> QED BY <2>3 DEF Seen
<1> QED BY <1>1 DEF Region!AllAgain, Region!NoSnapshot, Region!Empty, Nothing

\* A write that leaves the table.
LEMMA TouchStep ==
    ASSUME RegionInv, UNCHANGED <<reading, s1, copy, table, owner>>, seq' = seq + 1
    PROVE  Region!Touch
BY MovedAgain DEF Region!Touch

\* A step that neither moves seq nor tears the region leaves what the readers see.
LEMMA SameSeen ==
    ASSUME UNCHANGED <<reading, s1, copy, table, owner, seq, torn>>
    PROVE  UNCHANGED Region!vars
<1>1. \A r \in Readers : Seen(r)' = Seen(r)
  BY DEF Seen, Copied, SeqUnmoved
<1> QED BY <1>1 DEF Region!vars

\* A running process finds a node's slot when the table has it.
LEMMA SlotOfTable ==
    ASSUME RegionInv, writer = "running", NEW u
    PROVE  SlotsOf(mem, u) /= {} <=> u \in DOMAIN table
BY RunningSound DEF Sound, SlotsOf

\* A running process that finds a free slot has room.
LEMMA RoomInTable ==
    ASSUME RegionInv, writer = "running", Slots \ Active(mem) /= {}
    PROVE  Cardinality(DOMAIN table) < MAX_NODES
<1>1. Cardinality(DOMAIN table) = Cardinality(Active(mem))
  BY RunningSound, SoundCount
<1>2. IsFiniteSet(Slots) /\ Cardinality(Slots) = MAX_NODES
  BY RegionAssumption, FS_Interval DEF Slots
<1>3. Active(mem) \in SUBSET Slots
  BY DEF Active
<1>4. /\ IsFiniteSet(Active(mem)) /\ Cardinality(Active(mem)) \in Nat
      /\ Cardinality(Active(mem)) <= MAX_NODES /\ Cardinality(Active(mem)) /= MAX_NODES
  BY <1>2, <1>3, FS_Subset, FS_CardinalityType
<1> QED BY <1>1, <1>4, RegionAssumption

\* register_node.
LEMMA RegisterRefines ==
    ASSUME RegionInv, TableOk, NEW u \in Uuids, NEW v \in Vpns, RegisterNode(u, v)
    PROVE  Region!Register(u, v)
<1>1. /\ writer = "running" /\ seq' = seq + 1 /\ UNCHANGED <<reading, s1, copy, owner>>
      /\ table' = With(table, u, v) /\ SlotsFor(mem, u) /= {}
  BY DEF RegisterNode, BeginWrite, First, readerVars
<1>2. Region!HasSlot(u)
  <2>1. CASE SlotsOf(mem, u) /= {}
    BY <1>1, <2>1, SlotOfTable DEF Region!HasSlot
  <2>2. CASE SlotsOf(mem, u) = {}
    <3>1. SlotsFor(mem, u) = Slots \ Active(mem)
      BY <2>2 DEF SlotsFor
    <3>2. Cardinality(DOMAIN table) < MAX_NODES
      BY <1>1, <3>1, RoomInTable
    <3> QED BY <3>2, Zenon DEF Region!HasSlot, Cardinality, Region!Cardinality
  <2> QED BY <2>1, <2>2
<1> QED BY <1>1, <1>2, MovedAgain DEF Region!Register, With

\* unregister_node.
LEMMA UnregisterRefines ==
    ASSUME RegionInv, TableOk, NEW u \in Uuids, UnregisterNode(u)
    PROVE  Region!Unregister(u) \/ Region!Touch
<1>1. /\ writer = "running" /\ seq' = seq + 1 /\ UNCHANGED <<reading, s1, copy, owner>>
      /\ table' = table \/ (table' = Without(table, u) /\ SlotsOf(mem, u) /= {})
  BY DEF UnregisterNode, BeginWrite, First, readerVars
<1>2. CASE table' = table
  BY <1>1, <1>2, TouchStep
<1>3. CASE table' = Without(table, u) /\ SlotsOf(mem, u) /= {}
  BY <1>1, <1>3, SlotOfTable, MovedAgain DEF Region!Unregister, Without
<1> QED BY <1>1, <1>2, <1>3

\* update_node_vpn.
LEMMA UpdateVpnRefines ==
    ASSUME RegionInv, TableOk, NEW u \in Uuids, NEW v \in Vpns, UpdateNodeVpn(u, v)
    PROVE  Region!UpdateVpn(u, v) \/ Region!Touch
<1>1. /\ writer = "running" /\ seq' = seq + 1 /\ UNCHANGED <<reading, s1, copy, owner>>
      /\ table' = table \/ (table' = With(table, u, v) /\ SlotsOf(mem, u) /= {})
  BY DEF UpdateNodeVpn, BeginWrite, First, readerVars
<1>2. CASE table' = table
  BY <1>1, <1>2, TouchStep
<1>3. CASE table' = With(table, u, v) /\ SlotsOf(mem, u) /= {}
  <2>1. u \in DOMAIN table
    BY <1>1, <1>3, SlotOfTable
  <2>2. table' = [table EXCEPT ![u] = v]
    BY <1>3, <2>1 DEF With, TableOk
  <2> QED BY <1>1, <2>1, <2>2, MovedAgain DEF Region!UpdateVpn
<1> QED BY <1>1, <1>2, <1>3

\* The stores of a write change nothing that was copied.
LEMMA StoreRefines ==
    ASSUME RegionInv, NEW w, Store(w) \/ StoreBlank(w)
    PROVE  UNCHANGED Region!vars
BY SameSeen DEF Store, StoreBlank, readerVars

\* A start: the process makes an odd seq even, then takes the region over.  One that dies
\* before it stored its generation leaves it to the next.
LEMMA StartRefines ==
    ASSUME RegionInv, TableOk, Open \/ TakeOver
    PROVE  [Region!Next]_Region!vars
<1>1. CASE Open
  <2>1. UNCHANGED <<reading, s1, copy, table, owner>>
    BY <1>1 DEF Open, readerVars
  <2>2. CASE seq % 2 = 1
    BY <1>1, <2>1, <2>2, TouchStep DEF Open, Region!Next
  <2>3. CASE seq % 2 /= 1
    <3>1. seq' = seq /\ torn' = torn
      BY <1>1, <2>3 DEF Open, RegionInv, TypeOK
    <3> QED BY <2>1, <3>1, SameSeen
  <2> QED BY <2>2, <2>3
<1>2. CASE TakeOver
  <2>1. /\ UNCHANGED <<reading, s1, copy>> /\ seq' = seq + 1
        /\ table' = Nothing /\ owner' = mem[Generation] + 1
    BY <1>2 DEF TakeOver, BeginWrite, readerVars
  <2>2. Region!AllAgain
    BY <2>1, MovedAgain
  <2>3. CASE mem[Generation] = owner
    BY <2>1, <2>2, <2>3 DEF Region!Next, Region!TakeOver, Region!Empty, Nothing
  <2>4. CASE mem[Generation] + 1 = owner /\ table = Nothing
    BY <2>1, <2>2, <2>4 DEF Region!Next, Region!Touch
  <2> QED BY <2>3, <2>4 DEF TableOk
<1> QED BY <1>1, <1>2

\* read_router_snapshot.
LEMMA ReaderRefines ==
    ASSUME RegionInv, RegionInv', TableOk', NEW r \in Readers,
           LoadSeq(r) \/ (\E w \in Words : CopyWord(r, w)) \/ EndRead(r)
    PROVE  Region!Read(r) \/ Region!Return(r)
<1>1. UNCHANGED <<table, owner, seq, torn>>
  BY DEF LoadSeq, CopyWord, EndRead, writerVars
<1>2. \A q \in Readers \ {r} : reading'[q] = reading[q] /\ s1'[q] = s1[q] /\ copy'[q] = copy[q]
  <2>1. DOMAIN reading = Readers /\ DOMAIN s1 = Readers /\ DOMAIN copy = Readers
    BY DEF RegionInv, TypeOK
  <2>2. CASE LoadSeq(r)
    BY <2>1, <2>2 DEF LoadSeq
  <2>3. CASE \E w \in Words : CopyWord(r, w)
    BY <2>1, <2>3 DEF CopyWord
  <2>4. CASE EndRead(r)
    BY <2>1, <2>4 DEF EndRead
  <2> QED BY <2>2, <2>3, <2>4
<1>3. \A q \in Readers \ {r} : Seen(q)' = Seen(q)
  BY <1>1, <1>2 DEF Seen, Copied, SeqUnmoved
<1>4. Seen(r)' = [nodes |-> Nothing, generation |-> 0] \/ Seen(r)' = [nodes |-> table, generation |-> owner]
  <2>1. (Seen(r) \in {[nodes |-> Nothing, generation |-> 0], [nodes |-> table, generation |-> owner]})'
    BY SeenTable, PTL
  <2> QED BY <1>1, <2>1
<1>5. CASE Seen(r)' = [nodes |-> Nothing, generation |-> 0]
  BY <1>1, <1>3, <1>5 DEF Region!Return, Region!NoSnapshot, Region!Empty, Nothing
<1>6. CASE Seen(r)' = [nodes |-> table, generation |-> owner]
  BY <1>1, <1>3, <1>6 DEF Region!Read
<1> QED BY <1>4, <1>5, <1>6

\* Every step of the writer and of its readers is one of the table, or none.
LEMMA RegionStep ==
    ASSUME RegionInv, TableOk, RegionInv', TableOk', [Next]_vars
    PROVE  [Region!Next]_Region!vars
<1>1. ASSUME NEW u \in Uuids, NEW v \in Vpns, RegisterNode(u, v)
      PROVE  Region!Next
  BY <1>1, RegisterRefines DEF Region!Next
<1>2. ASSUME NEW u \in Uuids, UnregisterNode(u)
      PROVE  Region!Next
  BY <1>2, UnregisterRefines DEF Region!Next
<1>3. ASSUME NEW u \in Uuids, NEW v \in Vpns, UpdateNodeVpn(u, v)
      PROVE  Region!Next
  BY <1>3, UpdateVpnRefines DEF Region!Next
<1>4. CASE UpdateHeader \/ EndWrite
  <2>1. UNCHANGED <<reading, s1, copy, table, owner>> /\ seq' = seq + 1
    BY <1>4 DEF UpdateHeader, EndWrite, BeginWrite, readerVars
  <2> QED BY <2>1, TouchStep DEF Region!Next
<1>5. ASSUME NEW w \in Words, Store(w) \/ StoreBlank(w)
      PROVE  UNCHANGED Region!vars
  BY <1>5, StoreRefines
<1>6. CASE Crash \/ UNCHANGED vars
  BY <1>6, SameSeen DEF Crash, vars, writerVars, readerVars
<1>7. CASE Open \/ TakeOver
  BY <1>7, StartRefines
<1>8. ASSUME NEW r \in Readers, LoadSeq(r) \/ (\E w \in Words : CopyWord(r, w)) \/ EndRead(r)
      PROVE  Region!Next
  BY <1>8, ReaderRefines DEF Region!Next
<1> QED BY <1>1, <1>2, <1>3, <1>4, <1>5, <1>6, <1>7, <1>8 DEF Next, WriterNext, ReaderNext

\* The region, written word by word by a process that may die at any of them and be followed
\* by another, and read in any order, is a table changed in one step and read in one step
\* (register_node, unregister_node, update_node_vpn, take_over, read_router_snapshot).
THEOREM RegionImplementsTable == Spec => ImplementsRegionTable
<1>1. Init => TableOk
  BY TableFunctions, HeaderWords DEF Init, TableOk
<1>2. Init => Region!Init
  <2>1. SUFFICES ASSUME Init
                 PROVE  Region!Init
    OBVIOUS
  <2>2. \A r \in Readers : Seen(r) = [nodes |-> Nothing, generation |-> 0]
    BY <2>1 DEF Init, Seen, Copied
  <2> QED BY <2>1, <2>2 DEF Init, Region!Init, Region!NoSnapshot, Region!Empty, Nothing
<1>3. Spec => []TableOk
  BY <1>1, TableStep, RegionInvariant, PTL DEF Spec
<1> QED
  BY <1>2, <1>3, RegionStep, RegionInvariant, PTL DEF Spec, ImplementsRegionTable, Region!Spec

================================================================================
