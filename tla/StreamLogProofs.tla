---------------------------- MODULE StreamLogProofs ----------------------------
(***************************************************************************)
(* The log in memory and its senders keep their books, for every role,     *)
(* size, cap and number of records: proofs about StreamLog.                *)
(***************************************************************************)
EXTENDS StreamLog, TLAPS, FiniteSetTheorems, WellFoundedInduction

----------------------------------------------------------------------------
(* Facts about the operators. *)

\* A nonempty set of naturals has a least element (the step that turns the
\* library's well-foundedness of < into a fact the provers can use).
LEMMA LeastNatural ==
    ASSUME NEW T \in SUBSET Nat, T # {}
    PROVE  \E m \in T : \A y \in T : m <= y
<1> DEFINE R == {ss \in Nat \X Nat : ss[1] < ss[2]}
<1>1. OpToRel(<, Nat) = R
  BY Zenon DEF OpToRel
<1>2. IsWellFoundedOn(R, Nat)
  BY <1>1, NatLessThanWellFounded
<1>3. PICK m \in T : \A y \in T : ~(<<y, m>> \in R)
  <2> HIDE DEF R
  <2> QED BY <1>2, WFMin
<1>4. ASSUME NEW y \in T PROVE m <= y
  <2>1. y \in Nat /\ m \in Nat /\ <<y, m>> \notin R
    BY <1>3
  <2>2. y < m => <<y, m>> \in R
    BY <2>1
  <2> QED BY <2>1, <2>2
<1> QED BY <1>4

\* A nonempty set of naturals below a bound has a greatest element, and Max
\* (the cursor plan_batch moves to, the last seq of a batch) is it.
LEMMA MaxIsGreatest ==
    ASSUME NEW n \in Nat, NEW S \in SUBSET (0..n), S # {}
    PROVE  Max(S) \in S /\ \A x \in S : x <= Max(S)
<1> DEFINE T == {y \in Nat : n - y \in S}
<1>1. \A x \in S : x \in Nat /\ n - x \in T
  OBVIOUS
<1>2. T \in SUBSET Nat /\ T # {}
  BY <1>1
<1>3. PICK m \in T : \A y \in T : m <= y
  <2> HIDE DEF T
  <2> QED BY <1>2, LeastNatural
<1>4. n - m \in S /\ \A x \in S : x <= n - m
  BY <1>1, <1>3
<1> QED
  BY <1>4, <1>1 DEF Max

\* The sinks of a subject are sinks of the stream.
LEMMA SinksForType ==
    ASSUME NEW subject \in Subjects
    PROVE  SinksFor(subject) \subseteq Sinks
BY DEF Sinks

\* A set of seqs below the next one is finite and its cardinality is a natural.
LEMMA SeqsFinite ==
    ASSUME NEW n \in Nat, NEW S \in SUBSET (1..n)
    PROVE  IsFiniteSet(S) /\ Cardinality(S) \in Nat
<1>1. IsFiniteSet(1..n)
  BY FS_Interval
<1>2. IsFiniteSet(S)
  BY <1>1, FS_Subset
<1> QED
  BY <1>2, FS_CardinalityType

\* What leaves a finite set is subtracted from its cardinality.
LEMMA CardinalityWithout ==
    ASSUME NEW S, IsFiniteSet(S), NEW T \in SUBSET S
    PROVE  /\ Cardinality(S \ T) + Cardinality(T) = Cardinality(S)
           /\ Cardinality(S \ T) \in Nat
           /\ Cardinality(T) \in Nat
<1>1. IsFiniteSet(T) /\ IsFiniteSet(S \ T)
  BY FS_Subset
<1>2. Cardinality(S \ T) = Cardinality(S) - Cardinality(S \cap T)
  BY FS_Difference
<1>3. S \cap T = T
  OBVIOUS
<1>4. Cardinality(S) \in Nat /\ Cardinality(T) \in Nat /\ Cardinality(S \ T) \in Nat
  BY <1>1, FS_CardinalityType
<1>5. Cardinality(S \cap T) = Cardinality(T)
  BY <1>3
<1> QED
  BY <1>2, <1>4, <1>5

\* The bytes of any records are a natural number.
LEMMA BytesType ==
    ASSUME NEW f, IsFiniteSet(DOMAIN f)
    PROVE  Bytes(f) \in Nat
<1> DEFINE P == (DOMAIN f) \X (1..MaxSize)
           C == {c \in P : c[2] <= f[c[1]].size}
<1>1. MaxSize \in Nat
  BY ConstantsAssumption
<1>2. IsFiniteSet(1..MaxSize)
  BY <1>1, FS_Interval
<1>3. IsFiniteSet(P)
  BY <1>2, FS_Product
<1>4. C \subseteq P
  OBVIOUS
<1>5. IsFiniteSet(C)
  <2> HIDE DEF P, C
  <2> QED BY <1>3, <1>4, FS_Subset
<1>6. Cardinality(C) \in Nat
  <2> HIDE DEF C
  <2> QED BY <1>5, FS_CardinalityType
<1> QED
  BY <1>6 DEF Bytes

----------------------------------------------------------------------------
(* The steps of the disk thread: records leave, and one may be placed. *)

\* What a sink is owed after records left and one was placed: what it was owed,
\* less the records that left before it took them, and the one placed for it.
LEMMA LogMoves ==
    ASSUME LogInv,
           NEW out \in SUBSET DOMAIN records,
           NEW placed \in BOOLEAN, NEW new, placed => new \in Records,
           records' = IF placed
                      THEN [q \in (DOMAIN records \ out) \cup {next_seq} |->
                              IF q = next_seq THEN new ELSE records[q]]
                      ELSE Only(records, DOMAIN records \ out),
           next_seq' = SeqAfter(placed),
           cursor' = cursor, NEW s \in Sinks
    PROVE  /\ MissedBy(s, out) \subseteq Mine(s)
           /\ Mine(s)' = (Mine(s) \ MissedBy(s, out))
                  \cup (IF placed /\ s \in SinksFor(new.subject) THEN {next_seq} ELSE {})
           /\ next_seq \notin Mine(s)
<1> USE DEF LogInv
<1>1. /\ DOMAIN records' = (DOMAIN records \ out) \cup (IF placed THEN {next_seq} ELSE {})
      /\ \A q \in DOMAIN records \ out : q # next_seq /\ records'[q] = records[q]
      /\ placed => records'[next_seq] = new
  BY DEF Only, LogTypeOK
<1>2. next_seq \in Nat \ {0} /\ next_seq' \in Nat \ {0} /\ next_seq <= next_seq'
      /\ (placed => next_seq' = next_seq + 1)
  BY DEF SeqAfter, LogTypeOK
<1>3. /\ cursor' = cursor /\ cursor[s] \in Nat /\ cursor[s] < next_seq
      /\ DOMAIN records \subseteq 1..(next_seq - 1)
  BY DEF CursorsBehind, LogTypeOK
<1>4. next_seq \notin Mine(s) /\ MissedBy(s, out) \subseteq Mine(s)
  BY <1>2, <1>3 DEF MissedBy, Mine, Later
<1>5. Mine(s)' = {q \in DOMAIN records' : q > cursor[s] /\ s \in SinksFor(records'[q].subject)}
  BY <1>3 DEF Mine, Later
<1>6. \A q \in DOMAIN records \ out : q \in Mine(s)' <=> q \in Mine(s) \ MissedBy(s, out)
  BY <1>1, <1>3, <1>5 DEF MissedBy, Mine, Later
<1>7. placed => (next_seq \in Mine(s)' <=> s \in SinksFor(new.subject))
  BY <1>1, <1>2, <1>3, <1>5
<1>8. Mine(s) \ MissedBy(s, out) \subseteq DOMAIN records \ out
  BY DEF MissedBy, Mine, Later
<1>9. Mine(s)' \subseteq DOMAIN records'
  BY <1>5
<1> QED BY <1>1, <1>4, <1>6, <1>7, <1>8, <1>9

\* Records that are done leave the log (trim) and one may be placed at next_seq
\* (take_incoming): the books stay right.
LEMMA RemoveAndPlace ==
    ASSUME LogInv,
           NEW out \in SUBSET DOMAIN records, \A q \in out : RecordDone(q),
           NEW placed \in BOOLEAN, NEW new, placed => new \in Records,
           records' = IF placed
                      THEN [q \in (DOMAIN records \ out) \cup {next_seq} |->
                              IF q = next_seq THEN new ELSE records[q]]
                      ELSE Only(records, DOMAIN records \ out),
           next_seq' = SeqAfter(placed),
           turn_bytes' \in Nat, node_bytes' \in Nat, usage_lost' \in Nat, offered' \in Nat,
           expired' = ExpiredWith(out),
           lost' = LostWith(out),
           owed' = [s \in Sinks |-> IF placed /\ s \in SinksFor(new.subject) THEN owed[s] + 1
                                                                         ELSE owed[s]],
           UNCHANGED <<cursor, in_flight_up_to, delivered, oversize, batch, aged, taken>>
    PROVE  LogInv'
<1> USE DEF LogInv
<1>1. /\ DOMAIN records' = (DOMAIN records \ out) \cup (IF placed THEN {next_seq} ELSE {})
      /\ \A q \in DOMAIN records \ out : q # next_seq /\ records'[q] = records[q]
      /\ placed => records'[next_seq] = new
  BY DEF Only, LogTypeOK
<1>2. next_seq \in Nat \ {0} /\ next_seq' \in Nat \ {0} /\ next_seq <= next_seq'
      /\ (placed => next_seq' = next_seq + 1)
  BY DEF SeqAfter, LogTypeOK
<1>3. ASSUME NEW s \in Sinks, Waiting(s), NEW q \in DOMAIN batch[s].records
      PROVE  q \notin out
  BY <1>3 DEF InFlightKept, BatchExact, RecordDone, LogTypeOK
<1>4. ASSUME NEW s \in Sinks
      PROVE  /\ MissedBy(s, out) \subseteq Mine(s)
             /\ Mine(s)' = (Mine(s) \ MissedBy(s, out))
                    \cup (IF placed /\ s \in SinksFor(new.subject) THEN {next_seq} ELSE {})
             /\ next_seq \notin Mine(s)
  BY LogMoves
<1>5. ASSUME NEW s \in Sinks
      PROVE  /\ IsFiniteSet(Mine(s)) /\ Cardinality(Mine(s)) \in Nat
             /\ Cardinality(MissedBy(s, out)) \in Nat
             /\ Cardinality(Mine(s) \ MissedBy(s, out)) + Cardinality(MissedBy(s, out))
                  = Cardinality(Mine(s))
             /\ IsFiniteSet(Mine(s) \ MissedBy(s, out))
             /\ Cardinality(Mine(s) \ MissedBy(s, out)) \in Nat
  <2>1. next_seq - 1 \in Nat /\ Mine(s) \in SUBSET (1..(next_seq - 1))
    BY <1>2 DEF Mine, Later, LogTypeOK
  <2>2. IsFiniteSet(Mine(s)) /\ Cardinality(Mine(s)) \in Nat
    BY <2>1, SeqsFinite
  <2>3. MissedBy(s, out) \in SUBSET Mine(s)
    BY <1>4
  <2>4. IsFiniteSet(Mine(s) \ MissedBy(s, out))
    BY <2>2, FS_Subset
  <2> QED BY <2>2, <2>3, <2>4, CardinalityWithout
<1>6. LogTypeOK'
  <2>1. expired' \in [Sinks -> Nat]
    <3>1. \A s \in Sinks : expired[s] \in Nat
      BY DEF LogTypeOK
    <3>2. \A s \in Sinks : Cardinality(MissedBy(s, out)) \in Nat
      BY <1>5
    <3>3. \A s \in Sinks : expired[s] + Cardinality(MissedBy(s, out)) \in Nat
      BY <3>1, <3>2
    <3> QED BY <3>3 DEF ExpiredWith
  <2>2. DOMAIN records' \subseteq 1..(next_seq' - 1)
    <3>1. \A q \in DOMAIN records : q \in 1..(next_seq - 1)
      BY DEF LogTypeOK
    <3>2. \A q \in DOMAIN records : q \in 1..(next_seq' - 1)
      BY <1>2, <3>1
    <3>3. ASSUME placed PROVE next_seq \in 1..(next_seq' - 1)
      <4>1. next_seq' = next_seq + 1
        BY <1>2, <3>3
      <4> QED BY <1>2, <4>1
    <3> QED BY <1>1, <3>2, <3>3
  <2>3. \A q \in DOMAIN records' : records'[q] \in Records
    BY <1>1 DEF LogTypeOK
  <2> QED BY <1>2, <2>1, <2>2, <2>3 DEF LogTypeOK
<1>7. HistoryTypeOK'
  BY DEF HistoryTypeOK, LostWith
<1>8. CursorsBehind'
  BY <1>2 DEF CursorsBehind, LogTypeOK
<1>9. InFlightKept'
  BY <1>1, <1>3 DEF InFlightKept, Waiting
<1>10. BatchExact'
  <2> SUFFICES ASSUME NEW s \in Sinks, Waiting(s)
               PROVE  /\ batch[s].last_seq = in_flight_up_to[s]
                      /\ batch[s].scanned_up_to \in batch[s].last_seq..(next_seq' - 1)
                      /\ \A q \in DOMAIN batch[s].records : s \in SinksFor(records'[q].subject)
                      /\ \A q \in Mine(s)' : q <= batch[s].scanned_up_to
                                                  => q \in DOMAIN batch[s].records
    BY DEF BatchExact, Waiting
  <2>1. batch[s].last_seq = in_flight_up_to[s] /\ in_flight_up_to[s] \in Nat
    BY DEF BatchExact, LogTypeOK
  <2>2. batch[s].scanned_up_to \in batch[s].last_seq..(next_seq - 1)
    BY DEF BatchExact
  <2>3. batch[s].scanned_up_to \in batch[s].last_seq..(next_seq' - 1)
    BY <1>2, <2>1, <2>2
  <2>4. \A q \in DOMAIN batch[s].records : s \in SinksFor(records'[q].subject)
    BY <1>1, <1>3 DEF BatchExact, InFlightKept
  <2>5. \A q \in Mine(s)' : q <= batch[s].scanned_up_to => q \in DOMAIN batch[s].records
    <3>1. batch[s].scanned_up_to < next_seq
      BY <1>2, <2>1, <2>2
    <3>2. \A q \in Mine(s)' : q <= batch[s].scanned_up_to => q \in Mine(s)
      BY <1>2, <1>4, <2>1, <2>2, <3>1
    <3> QED BY <3>2 DEF BatchExact
  <2> QED BY <2>1, <2>3, <2>4, <2>5
<1>11. CursorHonest'
  <2> SUFFICES ASSUME NEW s \in Sinks, NEW q \in DOMAIN records',
                      s \in SinksFor(records'[q].subject), q <= cursor[s]
               PROVE  records'[q].id \in taken[s] \cup lost'[s]
    BY DEF CursorHonest
  <2>1. q \in DOMAIN records \ out
    <3>1. cursor[s] \in Nat /\ cursor[s] < next_seq
      BY DEF CursorsBehind, LogTypeOK
    <3>2. q # next_seq
      BY <1>2, <3>1
    <3> QED BY <1>1, <3>2
  <2>2. records'[q].id \in taken[s] \cup lost[s]
    BY <1>1, <2>1 DEF CursorHonest
  <2>3. lost[s] \subseteq lost'[s]
    BY DEF LostWith
  <2> QED BY <2>2, <2>3
<1>12. Accounted'
  <2> SUFFICES ASSUME NEW s \in Sinks
               PROVE  delivered[s] + expired'[s] + oversize[s] + Cardinality(Mine(s)') = owed'[s]
    BY DEF Accounted
  <2>1. delivered[s] \in Nat /\ expired[s] \in Nat /\ oversize[s] \in Nat /\ owed[s] \in Nat
    BY DEF LogTypeOK, HistoryTypeOK
  <2>2. delivered[s] + expired[s] + oversize[s] + Cardinality(Mine(s)) = owed[s]
    BY DEF Accounted
  <2>3. expired'[s] = expired[s] + Cardinality(MissedBy(s, out))
    BY DEF ExpiredWith
  <2>4. CASE placed /\ s \in SinksFor(new.subject)
    <3>1. Mine(s)' = (Mine(s) \ MissedBy(s, out)) \cup {next_seq}
      BY <1>4, <2>4
    <3>2. Cardinality(Mine(s)') = Cardinality(Mine(s) \ MissedBy(s, out)) + 1
      BY <1>4, <1>5, <3>1, FS_AddElement
    <3>3. owed'[s] = owed[s] + 1
      BY <2>4
    <3> QED BY <1>5, <2>1, <2>2, <2>3, <3>2, <3>3
  <2>5. CASE ~(placed /\ s \in SinksFor(new.subject))
    <3>1. Mine(s)' = Mine(s) \ MissedBy(s, out)
      BY <1>4, <2>5
    <3>2. owed'[s] = owed[s]
      BY <2>5
    <3>3. Cardinality(Mine(s)') = Cardinality(Mine(s) \ MissedBy(s, out))
      BY <3>1
    <3>4. delivered[s] + (expired[s] + Cardinality(MissedBy(s, out))) + oversize[s]
            + Cardinality(Mine(s) \ MissedBy(s, out)) = owed[s]
      BY <1>5, <2>1, <2>2
    <3> QED BY <2>3, <3>2, <3>3, <3>4
  <2> QED BY <2>4, <2>5
<1> QED BY <1>6, <1>7, <1>8, <1>9, <1>10, <1>11, <1>12

\* The byte counters stay naturals when records leave.
LEMMA BytesWithoutType ==
    ASSUME LogTypeOK, NEW out \in SUBSET DOMAIN records
    PROVE  TurnBytesWithout(out) \in Nat /\ NodeBytesWithout(out) \in Nat
<1>1. next_seq - 1 \in Nat /\ DOMAIN records \in SUBSET (1..(next_seq - 1))
  BY DEF LogTypeOK
<1>2. IsFiniteSet(DOMAIN records)
  BY <1>1, SeqsFinite
<1>3. /\ DOMAIN TurnsOf(Only(records, out)) \subseteq DOMAIN records
      /\ DOMAIN NodesOf(Only(records, out)) \subseteq DOMAIN records
  BY DEF TurnsOf, NodesOf, Only
<1>4. IsFiniteSet(DOMAIN TurnsOf(Only(records, out)))
  BY <1>2, <1>3, FS_Subset
<1>5. IsFiniteSet(DOMAIN NodesOf(Only(records, out)))
  BY <1>2, <1>3, FS_Subset
<1>6. Bytes(TurnsOf(Only(records, out))) \in Nat /\ Bytes(NodesOf(Only(records, out))) \in Nat
  BY <1>4, <1>5, BytesType
<1> QED
  BY <1>6 DEF TurnBytesWithout, NodeBytesWithout, Saturating, LogTypeOK

\* The usage records a trim counts as lost are a natural number.
LEMMA MissedUsageType ==
    ASSUME LogTypeOK, NEW out \in SUBSET DOMAIN records
    PROVE  Cardinality(MissedUsage(out)) \in Nat
<1>1. next_seq - 1 \in Nat /\ MissedUsage(out) \in SUBSET (1..(next_seq - 1))
  BY DEF LogTypeOK, MissedUsage
<1> QED
  BY <1>1, SeqsFinite

\* take_incoming keeps the invariant, whether the record fits, fits after a trim
\* or is dropped.
LEMMA TakeIncomingInv ==
    ASSUME LogInv, NEW subject \in Subjects, NEW size \in Sizes, TakeIncoming(subject, size)
    PROVE  LogInv'
<1> DEFINE out == MakeRoom(subject, size)
           tb  == TurnBytesWithout(out)
           nb  == NodeBytesWithout(out)
           ok  == Fits(tb, nb, subject, size)
           new == [id |-> offered + 1, subject |-> subject, size |-> size]
<1>1. LogTypeOK
  BY DEF LogInv
<1>2. out \in SUBSET DOMAIN records /\ \A q \in out : RecordDone(q)
  <2>1. \A q \in Leaving : q \in DOMAIN records /\ RecordDone(q)
    BY <1>1 DEF Leaving, LogTypeOK
  <2> QED BY <2>1 DEF MakeRoom
<1>3. tb \in Nat /\ nb \in Nat /\ Cardinality(MissedUsage(out)) \in Nat
  <2> HIDE DEF out
  <2> QED BY <1>1, <1>2, BytesWithoutType, MissedUsageType
<1>4. size \in Nat
  BY ConstantsAssumption
<1>5. ok \in BOOLEAN
  BY DEF Fits
<1>6. new \in Records
  BY <1>1 DEF Records, LogTypeOK
<1>7. /\ records' = IF ok THEN [q \in (DOMAIN records \ out) \cup {next_seq} |->
                                   IF q = next_seq THEN new ELSE records[q]]
                           ELSE Only(records, DOMAIN records \ out)
      /\ next_seq' = SeqAfter(ok)
      /\ expired' = ExpiredWith(out)
      /\ lost' = LostWith(out)
      /\ owed' = [s \in Sinks |-> IF ok /\ s \in SinksFor(new.subject) THEN owed[s] + 1
                                                                    ELSE owed[s]]
      /\ UNCHANGED <<cursor, in_flight_up_to, delivered, oversize, batch, aged, taken>>
  BY Zenon DEF TakeIncoming
<1>8. turn_bytes' \in Nat /\ node_bytes' \in Nat
  <2>1. /\ turn_bytes' = IF ok /\ ~FromNodes(subject) THEN tb + size ELSE tb
        /\ node_bytes' = IF ok /\ FromNodes(subject) THEN nb + size ELSE nb
    BY Zenon DEF TakeIncoming
  <2> HIDE DEF tb, nb, ok
  <2> QED BY <1>3, <1>4, <2>1
<1>9. usage_lost' \in Nat /\ offered' \in Nat
  <2>1. /\ usage_lost' = usage_lost + Cardinality(MissedUsage(out))
                           + (IF ~ok /\ subject = "storage.usage" THEN 1 ELSE 0)
        /\ offered' = offered + 1
    BY Zenon DEF TakeIncoming
  <2> HIDE DEF out, ok
  <2> QED BY <1>1, <1>3, <2>1 DEF LogTypeOK
<1> HIDE DEF out, ok, new
<1> QED
  BY <1>2, <1>5, <1>6, <1>7, <1>8, <1>9, RemoveAndPlace

\* The trim of the housekeeping keeps the invariant.
LEMMA TrimInv ==
    ASSUME LogInv, Trim
    PROVE  LogInv'
<1>1. LogTypeOK
  BY DEF LogInv
<1>2. Leaving \in SUBSET DOMAIN records /\ \A q \in Leaving : RecordDone(q)
  BY <1>1 DEF Leaving, LogTypeOK
<1>3. /\ turn_bytes' \in Nat /\ node_bytes' \in Nat /\ usage_lost' \in Nat /\ offered' \in Nat
  <2>1. /\ TurnBytesWithout(Leaving) \in Nat /\ NodeBytesWithout(Leaving) \in Nat
        /\ Cardinality(MissedUsage(Leaving)) \in Nat
    BY <1>1, <1>2, BytesWithoutType, MissedUsageType
  <2> QED BY <1>1, <2>1 DEF Trim, LogTypeOK
<1>4. /\ records' = IF FALSE THEN [q \in (DOMAIN records \ Leaving) \cup {next_seq} |->
                                      IF q = next_seq THEN {} ELSE records[q]]
                              ELSE Only(records, DOMAIN records \ Leaving)
      /\ next_seq' = SeqAfter(FALSE)
      /\ expired' = ExpiredWith(Leaving)
      /\ lost' = LostWith(Leaving)
      /\ UNCHANGED <<cursor, in_flight_up_to, delivered, oversize, batch, aged, taken>>
  BY DEF Trim, SeqAfter
<1>5. owed' = [s \in Sinks |-> IF FALSE /\ s \in SinksFor({}.subject) THEN owed[s] + 1
                                                                   ELSE owed[s]]
  BY DEF Trim, LogInv, HistoryTypeOK
<1> QED
  BY <1>2, <1>3, <1>4, <1>5, RemoveAndPlace

----------------------------------------------------------------------------
(* The steps of a sender. *)

\* Fewer records have no more bytes.
LEMMA BytesMonotone ==
    ASSUME NEW f, IsFiniteSet(DOMAIN f), NEW A, NEW B, A \subseteq B
    PROVE  /\ Bytes(Only(f, A)) \in Nat /\ Bytes(Only(f, B)) \in Nat
           /\ Bytes(Only(f, A)) <= Bytes(Only(f, B))
<1> DEFINE g == Only(f, A)
           h == Only(f, B)
           C == {c \in (DOMAIN g) \X (1..MaxSize) : c[2] <= g[c[1]].size}
           D == {c \in (DOMAIN h) \X (1..MaxSize) : c[2] <= h[c[1]].size}
<1>1. DOMAIN h \subseteq DOMAIN f /\ DOMAIN g \subseteq DOMAIN h
      /\ \A q \in DOMAIN g : g[q] = h[q]
  BY DEF Only
<1> HIDE DEF g, h
<1>2. C \subseteq D
  BY <1>1
<1>3. IsFiniteSet(DOMAIN h)
  BY <1>1, FS_Subset
<1>4. IsFiniteSet(1..MaxSize)
  BY ConstantsAssumption, FS_Interval
<1>5. IsFiniteSet((DOMAIN h) \X (1..MaxSize))
  BY <1>3, <1>4, FS_Product
<1>6. D \subseteq (DOMAIN h) \X (1..MaxSize)
  OBVIOUS
<1> HIDE DEF C, D
<1>7. IsFiniteSet(D)
  BY <1>5, <1>6, FS_Subset
<1>8. IsFiniteSet(C) /\ Cardinality(C) <= Cardinality(D)
  BY <1>2, <1>7, FS_Subset
<1>9. Cardinality(C) \in Nat /\ Cardinality(D) \in Nat
  BY <1>7, <1>8, FS_CardinalityType
<1> QED
  BY <1>8, <1>9 DEF Bytes, C, D, g, h

\* A batch has no gap: what a sink is owed before a record of its batch was
\* passed or is in the batch too.
LEMMA PlannedHasNoGap ==
    ASSUME LogInv, NEW s \in Sinks, NEW q \in Planned(s), NEW p \in Mine(s), p <= q
    PROVE  p \in Passed(s) \cup Planned(s)
<1> DEFINE run(x) == {y \in Mine(s) \ Passed(s) : y <= x}
<1> SUFFICES ASSUME p \notin Passed(s) PROVE p \in Planned(s)
  OBVIOUS
<1>1. /\ DOMAIN records \subseteq 1..(next_seq - 1) /\ next_seq - 1 \in Nat
      /\ Mine(s) \subseteq DOMAIN records
  BY DEF LogInv, LogTypeOK, Mine, Later
<1>2. q \in Sendable(s) /\ q \in Mine(s)
  BY DEF Planned, Sendable
<1>3. p \in Nat /\ q \in Nat
  BY <1>1, <1>2
<1>4. p \in run(q) /\ p \in run(p) /\ run(p) \subseteq run(q)
  BY <1>1, <1>3
<1>5. /\ run(q) \subseteq Sendable(s)
      /\ \/ run(q) = {q}
         \/ /\ Cardinality(run(q)) <= STREAM_BATCH_MAX_RECORDS
            /\ Bytes(Only(records, run(q))) <= STREAM_BATCH_MAX_BYTES
  BY DEF Planned
<1>6. p \in Sendable(s) /\ run(p) \subseteq Sendable(s)
  BY <1>4, <1>5
<1>7. IsFiniteSet(run(q))
  <2>1. run(q) \in SUBSET (1..(next_seq - 1))
    BY <1>1
  <2> HIDE DEF run
  <2> QED BY <1>1, <2>1, SeqsFinite
<1>8. /\ Cardinality(run(p)) \in Nat /\ Cardinality(run(q)) \in Nat
      /\ Cardinality(run(p)) <= Cardinality(run(q))
  <2> HIDE DEF run
  <2>1. IsFiniteSet(run(p)) /\ Cardinality(run(p)) <= Cardinality(run(q))
    BY <1>4, <1>7, FS_Subset
  <2> QED BY <1>7, <2>1, FS_CardinalityType
<1>9. /\ Bytes(Only(records, run(p))) \in Nat /\ Bytes(Only(records, run(q))) \in Nat
      /\ Bytes(Only(records, run(p))) <= Bytes(Only(records, run(q)))
  <2> HIDE DEF run
  <2>1. IsFiniteSet(DOMAIN records)
    BY <1>1, SeqsFinite
  <2> QED BY <1>4, <2>1, BytesMonotone
<1>10. \/ run(p) = {p}
       \/ /\ Cardinality(run(p)) <= STREAM_BATCH_MAX_RECORDS
          /\ Bytes(Only(records, run(p))) <= STREAM_BATCH_MAX_BYTES
  <2>1. STREAM_BATCH_MAX_RECORDS \in Nat /\ STREAM_BATCH_MAX_BYTES \in Nat
    BY ConstantsAssumption
  <2>2. CASE run(q) = {q}
    BY <1>4, <2>2
  <2>3. CASE run(q) # {q}
    <3> HIDE DEF run
    <3> QED BY <1>5, <1>8, <1>9, <2>1, <2>3
  <2> QED BY <2>2, <2>3
<1> QED
  BY <1>6, <1>10 DEF Planned

\* plan_batch takes the records it passes from what the sink is owed, and moves
\* its cursor past them and past no other record of the sink.
LEMMA PlanMoves ==
    ASSUME LogInv, NEW s \in Sinks, PlanBatch(s)
    PROVE  LET c == Max({cursor[s]} \cup Passed(s))
           IN  /\ c \in Nat /\ cursor[s] <= c /\ c < next_seq
               /\ c = cursor[s] \/ c \in Passed(s)
               /\ \A q \in Passed(s) : q <= c
               /\ \A q \in Mine(s) : q > c <=> q \notin Passed(s) \cap Mine(s)
               /\ cursor'[s] = c
               /\ \A t \in Sinks : t # s => cursor'[t] = cursor[t]
               /\ cursor' \in [Sinks -> Nat]
               /\ Mine(s)' = Mine(s) \ (Passed(s) \cap Mine(s))
               /\ \A t \in Sinks : t # s => Mine(t)' = Mine(t)
<1> DEFINE gone == Passed(s) \cap Mine(s)
           c == Max({cursor[s]} \cup Passed(s))
<1> USE DEF LogInv
<1>1. /\ next_seq \in Nat \ {0} /\ next_seq - 1 \in Nat
      /\ DOMAIN records \subseteq 1..(next_seq - 1)
      /\ cursor[s] \in Nat /\ cursor[s] < next_seq
  BY DEF LogTypeOK, CursorsBehind
<1>2. /\ Passed(s) \subseteq DOMAIN records /\ Mine(s) \subseteq DOMAIN records
      /\ Sendable(s) \subseteq Mine(s)
      /\ \A q \in Mine(s) : q > cursor[s] /\ s \in SinksFor(records[q].subject)
  BY DEF Passed, Mine, Later, Planned, Sendable
<1>3. /\ c \in Nat /\ cursor[s] <= c /\ c < next_seq
      /\ c = cursor[s] \/ c \in Passed(s)
      /\ \A q \in Passed(s) : q <= c
  <2>1. {cursor[s]} \cup Passed(s) \in SUBSET (0..(next_seq - 1))
    BY <1>1, <1>2
  <2>2. /\ c \in {cursor[s]} \cup Passed(s)
        /\ \A x \in {cursor[s]} \cup Passed(s) : x <= c
    BY <1>1, <2>1, MaxIsGreatest
  <2> HIDE DEF c
  <2> QED BY <1>1, <2>1, <2>2
<1> HIDE DEF c
<1>4. \A q \in Mine(s) : q > c <=> q \notin gone
  <2>1. ASSUME NEW q \in Mine(s), q <= c PROVE q \in Passed(s)
    <3>1. c \in Passed(s)
      BY <1>1, <1>2, <1>3, <2>1
    <3>2. \A p \in Sendable(s) : c < p
      BY <3>1 DEF Passed
    <3>3. \A p \in Sendable(s) : q < p
      <4>1. q \in Nat /\ \A p \in Sendable(s) : p \in Nat
        BY <1>1, <1>2
      <4> QED BY <1>3, <2>1, <3>2, <4>1
    <3> QED BY <3>3 DEF Passed, Mine
  <2>2. \A q \in Mine(s) : q \in Nat
    BY <1>1, <1>2
  <2> QED BY <1>3, <2>1, <2>2
<1>5. cursor' = [cursor EXCEPT ![s] = c] /\ records' = records
  BY DEF PlanBatch, c
<1>6. /\ cursor'[s] = c
      /\ \A t \in Sinks : t # s => cursor'[t] = cursor[t]
      /\ cursor' \in [Sinks -> Nat]
  BY <1>3, <1>5 DEF LogTypeOK
<1>7. /\ Mine(s)' = Mine(s) \ gone
      /\ \A t \in Sinks : t # s => Mine(t)' = Mine(t)
  <2>1. \A t \in Sinks : Mine(t)' =
            {q \in DOMAIN records : q > cursor'[t] /\ t \in SinksFor(records[q].subject)}
    BY <1>5 DEF Mine, Later
  <2>2. ASSUME NEW t \in Sinks, t # s PROVE Mine(t)' = Mine(t)
    BY <1>6, <2>1, <2>2 DEF Mine, Later
  <2>3. \A q \in DOMAIN records : q \in Mine(s)' <=> q \in Mine(s) \ gone
    <3>1. \A q \in DOMAIN records : q > c => q > cursor[s]
      BY <1>1, <1>3
    <3>2. ASSUME NEW q \in DOMAIN records, q \in Mine(s)' PROVE q \in Mine(s) \ gone
      <4>1. q > c /\ s \in SinksFor(records[q].subject)
        BY <1>6, <2>1, <3>2
      <4>2. q \in Mine(s)
        BY <3>1, <4>1 DEF Mine, Later
      <4> QED BY <1>4, <4>1, <4>2
    <3>3. ASSUME NEW q \in DOMAIN records, q \in Mine(s) \ gone PROVE q \in Mine(s)'
      BY <1>2, <1>4, <1>6, <2>1, <3>3
    <3> QED BY <3>2, <3>3
  <2>4. Mine(s)' \subseteq DOMAIN records
    BY <2>1
  <2> QED BY <1>2, <2>2, <2>3, <2>4
<1> QED
  BY <1>3, <1>4, <1>6, <1>7 DEF c

\* plan_batch moves the cursor past exactly what it counts as lost, and what it
\* sends is all that the sink is owed up to scanned_up_to.
LEMMA PlanBatchInv ==
    ASSUME LogInv, NEW s \in Sinks, PlanBatch(s)
    PROVE  LogInv'
<1> DEFINE gone == Passed(s) \cap Mine(s)
           send == Planned(s)
           c == Max({cursor[s]} \cup Passed(s))
<1> USE DEF LogInv
<1>1. /\ next_seq \in Nat \ {0} /\ next_seq - 1 \in Nat
      /\ DOMAIN records \subseteq 1..(next_seq - 1)
      /\ cursor[s] \in Nat /\ cursor[s] < next_seq
  BY DEF LogTypeOK, CursorsBehind
<1>2. /\ Passed(s) \subseteq DOMAIN records /\ Mine(s) \subseteq DOMAIN records
      /\ send \subseteq Sendable(s) /\ Sendable(s) \subseteq Mine(s)
      /\ \A q \in Mine(s) : q > cursor[s] /\ s \in SinksFor(records[q].subject)
  BY DEF Passed, Mine, Later, Planned, Sendable
<1>3. /\ c \in Nat /\ cursor[s] <= c /\ c < next_seq
      /\ c = cursor[s] \/ c \in Passed(s)
      /\ \A q \in Passed(s) : q <= c
  BY PlanMoves
<1>4. \A q \in Mine(s) : q > c <=> q \notin gone
  BY PlanMoves
<1>5. /\ cursor' = [cursor EXCEPT ![s] = c]
      /\ expired' = [expired EXCEPT ![s] = @ + Cardinality({q \in gone : Aged(q)})]
      /\ oversize' = [oversize EXCEPT ![s] = @ + Cardinality({q \in gone : ~Aged(q)})]
      /\ lost' = [lost EXCEPT ![s] = @ \cup {records[q].id : q \in gone}]
      /\ usage_lost' = usage_lost
            + Cardinality({q \in gone : records[q].subject = "storage.usage"})
      /\ UNCHANGED <<records, turn_bytes, node_bytes, next_seq, delivered, aged,
                     offered, taken, owed>>
  BY DEF PlanBatch, c
<1>6. /\ cursor'[s] = c
      /\ \A t \in Sinks : t # s => cursor'[t] = cursor[t]
      /\ cursor' \in [Sinks -> Nat]
  BY PlanMoves
<1>7. /\ Mine(s)' = Mine(s) \ gone
      /\ \A t \in Sinks : t # s => Mine(t)' = Mine(t)
  BY PlanMoves
<1> HIDE DEF c
<1>8. /\ IsFiniteSet(Mine(s)) /\ IsFiniteSet(gone)
      /\ Cardinality(Mine(s)) \in Nat
      /\ Cardinality({q \in gone : Aged(q)}) \in Nat
      /\ Cardinality({q \in gone : ~Aged(q)}) \in Nat
      /\ Cardinality({q \in gone : records[q].subject = "storage.usage"}) \in Nat
  <2>1. /\ Mine(s) \in SUBSET (1..(next_seq - 1))
        /\ gone \in SUBSET (1..(next_seq - 1))
        /\ {q \in gone : Aged(q)} \in SUBSET (1..(next_seq - 1))
        /\ {q \in gone : ~Aged(q)} \in SUBSET (1..(next_seq - 1))
        /\ {q \in gone : records[q].subject = "storage.usage"} \in SUBSET (1..(next_seq - 1))
    BY <1>1, <1>2
  <2> QED BY <1>1, <2>1, SeqsFinite
<1>9. LogTypeOK'
  <2>1. in_flight_up_to' \in [Sinks -> Nat]
    <3>1. CASE send = {}
      BY <3>1 DEF PlanBatch, LogTypeOK
    <3>2. CASE send # {}
      <4>1. send \in SUBSET (0..(next_seq - 1))
        BY <1>1, <1>2
      <4>2. Max(send) \in send
        <5> HIDE DEF send
        <5> QED BY <1>1, <3>2, <4>1, MaxIsGreatest
      <4>3. Max(send) \in Nat
        BY <4>1, <4>2
      <4>4. in_flight_up_to' = [in_flight_up_to EXCEPT ![s] = Max(send)]
        BY <3>2 DEF PlanBatch
      <4> QED BY <4>3, <4>4 DEF LogTypeOK
    <3> QED BY <3>1, <3>2
  <2>2. /\ expired' \in [Sinks -> Nat] /\ oversize' \in [Sinks -> Nat] /\ usage_lost' \in Nat
    <3> HIDE DEF gone
    <3> QED BY <1>5, <1>8 DEF LogTypeOK
  <2> QED BY <1>5, <1>6, <2>1, <2>2 DEF LogTypeOK
<1>10. HistoryTypeOK'
  BY <1>5 DEF HistoryTypeOK
<1>11. CursorsBehind'
  BY <1>3, <1>5, <1>6 DEF CursorsBehind
<1>12. CursorHonest'
  <2> SUFFICES ASSUME NEW t \in Sinks, NEW q \in DOMAIN records,
                      t \in SinksFor(records[q].subject), q <= cursor'[t]
               PROVE  records[q].id \in taken[t] \cup lost'[t]
    BY <1>5 DEF CursorHonest
  <2>1. lost[t] \subseteq lost'[t]
    BY <1>5 DEF HistoryTypeOK
  <2>2. CASE q <= cursor[t]
    BY <2>1, <2>2 DEF CursorHonest
  <2>3. CASE q > cursor[t]
    <3>1. t = s
      BY <1>6, <2>3, <1>1 DEF LogTypeOK
    <3>2. q \in Mine(s)
      BY <2>3, <3>1 DEF Mine, Later
    <3>3. q \in gone
      <4>1. q \in Nat /\ q <= c
        BY <1>1, <1>6, <3>1
      <4> QED BY <1>3, <1>4, <3>2, <4>1
    <3>4. records[q].id \in lost'[s]
      BY <1>5, <3>3 DEF HistoryTypeOK
    <3> QED BY <3>1, <3>4
  <2>4. q \in Nat /\ cursor[t] \in Nat
    BY <1>1 DEF LogTypeOK
  <2> QED BY <2>2, <2>3, <2>4
<1>13. Accounted'
  <2> SUFFICES ASSUME NEW t \in Sinks
               PROVE  delivered[t] + expired'[t] + oversize'[t] + Cardinality(Mine(t)') = owed[t]
    BY <1>5 DEF Accounted
  <2>1. delivered[t] + expired[t] + oversize[t] + Cardinality(Mine(t)) = owed[t]
    BY DEF Accounted
  <2>2. CASE t # s
    BY <1>5, <1>7, <2>1, <2>2 DEF LogTypeOK
  <2>3. CASE t = s
    <3> DEFINE old == {q \in gone : Aged(q)}
               big == {q \in gone : ~Aged(q)}
    <3>1. gone \in SUBSET Mine(s) /\ old \in SUBSET gone /\ big = gone \ old
      OBVIOUS
    <3>2. /\ Cardinality(Mine(s) \ gone) + Cardinality(gone) = Cardinality(Mine(s))
          /\ Cardinality(gone \ old) + Cardinality(old) = Cardinality(gone)
          /\ Cardinality(gone) \in Nat /\ Cardinality(Mine(s) \ gone) \in Nat
      <4> HIDE DEF gone, old
      <4> QED BY <1>8, <3>1, CardinalityWithout
    <3>3. expired'[s] = expired[s] + Cardinality(old) /\ oversize'[s] = oversize[s] + Cardinality(big)
      <4> HIDE DEF gone
      <4> QED BY <1>5 DEF LogTypeOK
    <3>4. /\ delivered[s] \in Nat /\ expired[s] \in Nat /\ oversize[s] \in Nat /\ owed[s] \in Nat
          /\ Cardinality(old) \in Nat /\ Cardinality(big) \in Nat
      BY <1>8 DEF LogTypeOK, HistoryTypeOK
    <3>5. Cardinality(Mine(s)') = Cardinality(Mine(s) \ gone)
      BY <1>7
    <3>6. Cardinality(big) = Cardinality(gone \ old)
      BY <3>1
    <3> HIDE DEF old, big, gone
    <3>7. delivered[s] + (expired[s] + Cardinality(old)) + (oversize[s] + Cardinality(big))
             + Cardinality(Mine(s) \ gone) = owed[s]
      BY <1>8, <2>1, <2>3, <3>2, <3>4, <3>6
    <3> QED BY <2>3, <3>3, <3>5, <3>7
  <2> QED BY <2>2, <2>3
<1>14. InFlightKept' /\ BatchExact'
  <2>1. \A t \in Sinks : t # s =>
            batch'[t] = batch[t] /\ in_flight_up_to'[t] = in_flight_up_to[t]
    BY DEF PlanBatch, BatchExact, LogTypeOK
  <2>2. DOMAIN batch' = Sinks
    BY DEF PlanBatch, BatchExact
  <2>3. CASE send = {}
    <3>1. batch' = batch /\ in_flight_up_to' = in_flight_up_to /\ ~Waiting(s)
      BY <2>3 DEF PlanBatch
    <3> QED BY <1>5, <1>6, <1>7, <3>1 DEF InFlightKept, BatchExact, Waiting
  <2>4. CASE send # {}
    <3>1. /\ Max(send) \in send
          /\ \A q \in send : q <= Max(send)
      <4>1. send \in SUBSET (0..(next_seq - 1))
        BY <1>1, <1>2
      <4> HIDE DEF send
      <4> QED BY <1>1, <2>4, <4>1, MaxIsGreatest
    <3>2. \A q \in send : q \in Scanned(s)
      BY <1>2, PlannedHasNoGap DEF Scanned, Mine
    <3>3. /\ Max(Scanned(s)) \in Scanned(s)
          /\ \A q \in Scanned(s) : q <= Max(Scanned(s))
      <4>1. Scanned(s) \in SUBSET (0..(next_seq - 1))
        BY <1>1 DEF Scanned, Later
      <4>2. Scanned(s) # {}
        BY <2>4, <3>2
      <4> QED BY <1>1, <4>1, <4>2, MaxIsGreatest
    <3>4. /\ in_flight_up_to'[s] = Max(send)
          /\ batch'[s] = [records |-> Only(records, send), last_seq |-> Max(send),
                          scanned_up_to |-> Max(Scanned(s))]
      BY <2>4 DEF PlanBatch, BatchExact, LogTypeOK
    <3>5. /\ DOMAIN batch'[s].records = send
          /\ \A q \in send : batch'[s].records[q] = records[q]
          /\ batch'[s].last_seq = Max(send)
          /\ batch'[s].scanned_up_to = Max(Scanned(s))
      BY <1>2, <3>4 DEF Only
    <3>6. \A q \in send : c < q
      BY <1>1, <1>2, <1>3 DEF Passed
    <3>7. Max(Scanned(s)) \in Max(send)..(next_seq - 1)
      <4>1. Max(Scanned(s)) \in DOMAIN records
        BY <3>3 DEF Scanned, Later
      <4>2. Max(send) <= Max(Scanned(s))
        BY <3>1, <3>2, <3>3
      <4>3. Max(send) \in DOMAIN records
        BY <1>2, <3>1
      <4> QED BY <1>1, <4>1, <4>2, <4>3
    <3>8. \A q \in Mine(s)' : q <= Max(Scanned(s)) => q \in send
      BY <1>7, <3>3 DEF Scanned
    <3> HIDE DEF send
    <3>9. InFlightKept'
      <4> SUFFICES ASSUME NEW t \in Sinks, Waiting(t)', NEW q \in DOMAIN batch'[t].records
                   PROVE  /\ q \in DOMAIN records
                          /\ records[q] = batch'[t].records[q]
                          /\ cursor'[t] < q /\ q <= in_flight_up_to'[t]
        BY <1>5 DEF InFlightKept
      <4>1. CASE t # s
        BY <1>6, <2>1, <4>1 DEF InFlightKept, Waiting
      <4>2. CASE t = s
        BY <1>2, <1>6, <3>1, <3>4, <3>5, <3>6, <4>2
      <4> QED BY <4>1, <4>2
    <3>10. BatchExact'
      <4> SUFFICES ASSUME NEW t \in Sinks, Waiting(t)'
                   PROVE  /\ batch'[t].last_seq = in_flight_up_to'[t]
                          /\ batch'[t].scanned_up_to \in batch'[t].last_seq..(next_seq - 1)
                          /\ \A q \in DOMAIN batch'[t].records : t \in SinksFor(records[q].subject)
                          /\ \A q \in Mine(t)' : q <= batch'[t].scanned_up_to
                                                      => q \in DOMAIN batch'[t].records
        BY <1>5, <2>2 DEF BatchExact
      <4>1. CASE t # s
        BY <1>7, <2>1, <4>1 DEF BatchExact, Waiting
      <4>2. CASE t = s
        BY <1>2, <3>4, <3>5, <3>7, <3>8, <4>2
      <4> QED BY <4>1, <4>2
    <3> QED BY <3>9, <3>10
  <2> QED BY <2>3, <2>4
<1> QED
  BY <1>9, <1>10, <1>11, <1>12, <1>13, <1>14

\* An accepted ack takes from what the sink is owed exactly the records of the
\* batch that it covers, whether it is full or partial.
LEMMA AckMoves ==
    ASSUME LogInv, NEW s \in Sinks, NEW up_to \in Nat, BatchAcked(s, up_to)
    PROVE  LET c == AckCursor(s, up_to)
               b == batch[s].records
               seqs == {q \in DOMAIN b : q <= c}
           IN  /\ c \in Nat /\ cursor[s] < c /\ c < next_seq /\ c <= batch[s].scanned_up_to
               /\ \A q \in DOMAIN b : q <= c <=> q <= up_to
               /\ cursor'[s] = c
               /\ \A t \in Sinks : t # s => cursor'[t] = cursor[t]
               /\ cursor' \in [Sinks -> Nat]
               /\ seqs \in SUBSET Mine(s) /\ \A q \in Mine(s) : q > c <=> q \notin seqs
               /\ Mine(s)' = Mine(s) \ seqs
               /\ \A t \in Sinks : t # s => Mine(t)' = Mine(t)
<1> DEFINE c == AckCursor(s, up_to)
           b == batch[s].records
           seqs == {q \in DOMAIN b : q <= c}
<1> USE DEF LogInv
<1>1. /\ next_seq \in Nat \ {0} /\ next_seq - 1 \in Nat
      /\ DOMAIN records \subseteq 1..(next_seq - 1)
      /\ cursor[s] \in Nat /\ in_flight_up_to[s] \in Nat
  BY DEF LogTypeOK
<1>2. /\ batch[s].last_seq = in_flight_up_to[s]
      /\ batch[s].scanned_up_to \in batch[s].last_seq..(next_seq - 1)
      /\ \A q \in Mine(s) : q <= batch[s].scanned_up_to => q \in DOMAIN b
      /\ \A q \in DOMAIN b : /\ q \in DOMAIN records /\ records[q] = b[q]
                             /\ cursor[s] < q /\ q <= batch[s].last_seq
                             /\ s \in SinksFor(records[q].subject)
  BY DEF BatchAcked, BatchExact, InFlightKept
<1>3. /\ cursor[s] < up_to /\ up_to <= batch[s].last_seq
      /\ c = IF up_to = batch[s].last_seq THEN batch[s].scanned_up_to ELSE up_to
  BY DEF BatchAcked, AckAccepted, AckCursor
<1> HIDE DEF c
<1>4. /\ c \in Nat /\ cursor[s] < c /\ c < next_seq /\ c <= batch[s].scanned_up_to
      /\ \A q \in DOMAIN b : q <= c <=> q <= up_to
  <2>1. batch[s].scanned_up_to \in Nat /\ batch[s].last_seq \in Nat
    BY <1>1, <1>2
  <2>2. \A q \in DOMAIN b : q \in Nat /\ q <= batch[s].last_seq
    BY <1>1, <1>2
  <2> QED BY <1>1, <1>2, <1>3, <2>1, <2>2
<1>5. cursor' = [cursor EXCEPT ![s] = c] /\ records' = records
  BY DEF BatchAcked, c
<1>6. /\ cursor'[s] = c
      /\ \A t \in Sinks : t # s => cursor'[t] = cursor[t]
      /\ cursor' \in [Sinks -> Nat]
  BY <1>4, <1>5 DEF LogTypeOK
<1>7. seqs \in SUBSET Mine(s) /\ \A q \in Mine(s) : q > c <=> q \notin seqs
  <2>1. \A q \in DOMAIN b : q \in Mine(s)
    BY <1>1, <1>2 DEF Mine, Later
  <2>2. \A q \in Mine(s) : q \in Nat
    BY <1>1 DEF Mine, Later
  <2>3. \A q \in Mine(s) : q <= c => q \in DOMAIN b
    <3>1. batch[s].scanned_up_to \in Nat
      BY <1>1, <1>2
    <3> QED BY <1>2, <1>4, <2>2, <3>1
  <2> QED BY <1>4, <2>1, <2>2, <2>3
<1> HIDE DEF seqs
<1>8. /\ Mine(s)' = Mine(s) \ seqs
      /\ \A t \in Sinks : t # s => Mine(t)' = Mine(t)
  <2>1. \A t \in Sinks : Mine(t)' =
            {q \in DOMAIN records : q > cursor'[t] /\ t \in SinksFor(records[q].subject)}
    BY <1>5 DEF Mine, Later
  <2>2. ASSUME NEW t \in Sinks, t # s PROVE Mine(t)' = Mine(t)
    BY <1>6, <2>1, <2>2 DEF Mine, Later
  <2>3. \A q \in DOMAIN records : q > c => q > cursor[s]
    BY <1>1, <1>4
  <2>4. ASSUME NEW q \in Mine(s)' PROVE q \in Mine(s) \ seqs
    <3>1. q \in DOMAIN records /\ q > c /\ s \in SinksFor(records[q].subject)
      BY <1>6, <2>1
    <3>2. q \in Mine(s)
      BY <2>3, <3>1 DEF Mine, Later
    <3> QED BY <1>7, <3>1, <3>2
  <2>5. ASSUME NEW q \in Mine(s) \ seqs PROVE q \in Mine(s)'
    <3>1. q \in DOMAIN records /\ s \in SinksFor(records[q].subject) /\ q > c
      BY <1>7 DEF Mine, Later
    <3> QED BY <1>6, <2>1, <3>1
  <2> QED BY <2>2, <2>4, <2>5
<1> QED
  BY <1>4, <1>6, <1>7, <1>8 DEF c, seqs

\* An accepted ack, full or partial, moves the cursor past exactly the records of
\* the batch it counts as delivered.
LEMMA BatchAckedInv ==
    ASSUME LogInv, NEW s \in Sinks, NEW up_to \in Nat, BatchAcked(s, up_to)
    PROVE  LogInv'
<1> DEFINE c == AckCursor(s, up_to)
           b == batch[s].records
           seqs == {q \in DOMAIN b : q <= c}
<1> USE DEF LogInv
<1>1. /\ next_seq \in Nat \ {0} /\ next_seq - 1 \in Nat
      /\ DOMAIN records \subseteq 1..(next_seq - 1)
      /\ cursor[s] \in Nat /\ in_flight_up_to[s] \in Nat
  BY DEF LogTypeOK
<1>2. /\ batch[s].last_seq = in_flight_up_to[s]
      /\ batch[s].scanned_up_to \in batch[s].last_seq..(next_seq - 1)
      /\ \A q \in Mine(s) : q <= batch[s].scanned_up_to => q \in DOMAIN b
      /\ \A q \in DOMAIN b : /\ q \in DOMAIN records /\ records[q] = b[q]
                             /\ cursor[s] < q /\ q <= batch[s].last_seq
                             /\ s \in SinksFor(records[q].subject)
  BY DEF BatchAcked, BatchExact, InFlightKept
<1>3. /\ cursor[s] < up_to /\ up_to <= batch[s].last_seq
      /\ c = IF up_to = batch[s].last_seq THEN batch[s].scanned_up_to ELSE up_to
  BY DEF BatchAcked, AckAccepted, AckCursor
<1>4. /\ c \in Nat /\ cursor[s] < c /\ c < next_seq /\ c <= batch[s].scanned_up_to
      /\ \A q \in DOMAIN b : q <= c <=> q <= up_to
  BY AckMoves
<1>5. /\ cursor' = [cursor EXCEPT ![s] = c]
      /\ in_flight_up_to' = [in_flight_up_to EXCEPT ![s] = 0]
      /\ batch' = [batch EXCEPT ![s] = NoBatch]
      /\ delivered' = [delivered EXCEPT ![s] = @ + Cardinality(seqs)]
      /\ taken' = [taken EXCEPT ![s] = @ \cup {b[q].id : q \in {p \in DOMAIN b : p <= up_to}}]
      /\ UNCHANGED <<records, turn_bytes, node_bytes, next_seq, expired, oversize, usage_lost,
                     aged, offered, lost, owed>>
  BY DEF BatchAcked, c
<1>6. /\ cursor'[s] = c
      /\ \A t \in Sinks : t # s => cursor'[t] = cursor[t]
      /\ cursor' \in [Sinks -> Nat]
  BY AckMoves
<1>7. seqs \in SUBSET Mine(s) /\ \A q \in Mine(s) : q > c <=> q \notin seqs
  BY AckMoves
<1>8. /\ Mine(s)' = Mine(s) \ seqs
      /\ \A t \in Sinks : t # s => Mine(t)' = Mine(t)
  BY AckMoves
<1> HIDE DEF c, seqs
<1>9. /\ IsFiniteSet(Mine(s)) /\ Cardinality(Mine(s)) \in Nat
      /\ Cardinality(Mine(s) \ seqs) + Cardinality(seqs) = Cardinality(Mine(s))
      /\ Cardinality(Mine(s) \ seqs) \in Nat /\ Cardinality(seqs) \in Nat
  <2>1. Mine(s) \in SUBSET (1..(next_seq - 1))
    BY <1>1 DEF Mine, Later
  <2>2. IsFiniteSet(Mine(s)) /\ Cardinality(Mine(s)) \in Nat
    BY <1>1, <2>1, SeqsFinite
  <2> QED BY <1>7, <2>2, CardinalityWithout
<1>10. LogTypeOK'
  <2>1. delivered' \in [Sinks -> Nat] /\ in_flight_up_to' \in [Sinks -> Nat]
    BY <1>5, <1>9 DEF LogTypeOK
  <2> QED BY <1>5, <1>6, <2>1 DEF LogTypeOK
<1>11. HistoryTypeOK'
  BY <1>5 DEF HistoryTypeOK
<1>12. CursorsBehind'
  BY <1>4, <1>5, <1>6 DEF CursorsBehind
<1>13. InFlightKept' /\ BatchExact'
  <2>1. /\ batch'[s] = NoBatch
        /\ \A t \in Sinks : t # s =>
              batch'[t] = batch[t] /\ in_flight_up_to'[t] = in_flight_up_to[t]
        /\ DOMAIN batch' = Sinks
    BY <1>5 DEF BatchExact, LogTypeOK
  <2>2. InFlightKept'
    BY <1>5, <1>6, <2>1 DEF InFlightKept, Waiting
  <2>3. BatchExact'
    BY <1>5, <1>8, <2>1 DEF BatchExact, Waiting
  <2> QED BY <2>2, <2>3
<1>14. CursorHonest'
  <2> SUFFICES ASSUME NEW t \in Sinks, NEW q \in DOMAIN records,
                      t \in SinksFor(records[q].subject), q <= cursor'[t]
               PROVE  records[q].id \in taken'[t] \cup lost[t]
    BY <1>5 DEF CursorHonest
  <2>1. taken[t] \subseteq taken'[t]
    BY <1>5 DEF HistoryTypeOK
  <2>2. CASE q <= cursor[t]
    BY <2>1, <2>2 DEF CursorHonest
  <2>3. CASE q > cursor[t]
    <3>1. t = s
      BY <1>1, <1>6, <2>3 DEF LogTypeOK
    <3>2. q \in Mine(s)
      BY <2>3, <3>1 DEF Mine, Later
    <3>3. q \in Nat /\ q <= c
      BY <1>1, <1>6, <3>1
    <3>4. q \in DOMAIN b /\ q <= up_to /\ b[q] = records[q]
      BY <1>2, <1>4, <1>7, <3>2, <3>3 DEF seqs
    <3>5. records[q].id \in taken'[s]
      BY <1>5, <3>4 DEF HistoryTypeOK
    <3> QED BY <3>1, <3>5
  <2>4. q \in Nat /\ cursor[t] \in Nat
    BY <1>1 DEF LogTypeOK
  <2> QED BY <2>2, <2>3, <2>4
<1>15. Accounted'
  <2> SUFFICES ASSUME NEW t \in Sinks
               PROVE  delivered'[t] + expired[t] + oversize[t] + Cardinality(Mine(t)') = owed[t]
    BY <1>5 DEF Accounted
  <2>1. delivered[t] + expired[t] + oversize[t] + Cardinality(Mine(t)) = owed[t]
    BY DEF Accounted
  <2>2. CASE t # s
    BY <1>5, <1>8, <2>1, <2>2 DEF LogTypeOK
  <2>3. CASE t = s
    <3>1. delivered'[s] = delivered[s] + Cardinality(seqs)
      BY <1>5 DEF LogTypeOK
    <3>2. delivered[s] \in Nat /\ expired[s] \in Nat /\ oversize[s] \in Nat /\ owed[s] \in Nat
      BY DEF LogTypeOK, HistoryTypeOK
    <3>3. Cardinality(Mine(s)') = Cardinality(Mine(s) \ seqs)
      BY <1>8
    <3>4. (delivered[s] + Cardinality(seqs)) + expired[s] + oversize[s]
             + Cardinality(Mine(s) \ seqs) = owed[s]
      BY <1>9, <2>1, <2>3, <3>2
    <3> QED BY <2>3, <3>1, <3>3, <3>4
  <2> QED BY <2>2, <2>3
<1> QED
  BY <1>10, <1>11, <1>12, <1>13, <1>14, <1>15

\* A failed call only gives its batch up: the records wait for the next plan.
LEMMA BatchFailedInv ==
    ASSUME LogInv, NEW s \in Sinks, BatchFailed(s)
    PROVE  LogInv'
<1> USE DEF LogInv
<1>1. /\ in_flight_up_to' = [in_flight_up_to EXCEPT ![s] = 0]
      /\ batch' = [batch EXCEPT ![s] = NoBatch]
      /\ UNCHANGED <<records, turn_bytes, node_bytes, next_seq, cursor, delivered, expired,
                     oversize, usage_lost, aged, offered, taken, lost, owed>>
  BY DEF BatchFailed, historyVars
<1>2. \A t \in Sinks : Mine(t)' = Mine(t)
  BY <1>1 DEF Mine, Later
<1>3. /\ batch'[s] = NoBatch
      /\ \A t \in Sinks : t # s =>
            batch'[t] = batch[t] /\ in_flight_up_to'[t] = in_flight_up_to[t]
      /\ DOMAIN batch' = Sinks
  BY <1>1 DEF BatchExact, LogTypeOK
<1>4. LogTypeOK' /\ HistoryTypeOK' /\ CursorsBehind' /\ CursorHonest' /\ Accounted'
  BY <1>1, <1>2 DEF LogTypeOK, HistoryTypeOK, CursorsBehind, CursorHonest, Accounted
<1>5. InFlightKept'
  BY <1>1, <1>3 DEF InFlightKept, Waiting
<1>6. BatchExact'
  BY <1>1, <1>2, <1>3 DEF BatchExact, Waiting
<1> QED
  BY <1>4, <1>5, <1>6

\* The clock touches nothing but `aged`.
LEMMA AgeInv ==
    ASSUME LogInv, NEW q \in DOMAIN records, Age(q)
    PROVE  LogInv'
<1> USE DEF LogInv
<1>1. /\ aged' = aged \cup {records[q].id}
      /\ UNCHANGED <<records, turn_bytes, node_bytes, next_seq, cursor, in_flight_up_to, delivered,
                     expired, oversize, usage_lost, batch, offered, taken, lost, owed>>
  BY DEF Age, sharedVars, historyVars
<1>2. \A t \in Sinks : Mine(t)' = Mine(t)
  BY <1>1 DEF Mine, Later
<1>3. LogTypeOK'
  <2>1. records[q].id \in Nat
    BY DEF LogTypeOK, Records
  <2> QED BY <1>1, <2>1 DEF LogTypeOK
<1>4. HistoryTypeOK' /\ CursorsBehind' /\ CursorHonest' /\ Accounted'
  BY <1>1, <1>2 DEF HistoryTypeOK, CursorsBehind, CursorHonest, Accounted
<1>5. InFlightKept' /\ BatchExact'
  BY <1>1, <1>2 DEF InFlightKept, BatchExact, Waiting
<1> QED
  BY <1>3, <1>4, <1>5

----------------------------------------------------------------------------
(* The theorems. *)

\* The stream in memory starts with right books.
LEMMA LogInitInv ==
    LogInit => LogInv
<1> SUFFICES ASSUME LogInit PROVE LogInv
  OBVIOUS
<1>1. DOMAIN records = {}
  BY DEF LogInit, NoRecords
<1>2. \A s \in Sinks : Mine(s) = {} /\ ~Waiting(s)
  BY <1>1 DEF LogInit, Mine, Later, Waiting
<1>3. Cardinality({}) = 0
  BY FS_EmptySet
<1>4. LogTypeOK /\ HistoryTypeOK /\ CursorsBehind
  BY <1>1 DEF LogInit, LogTypeOK, HistoryTypeOK, CursorsBehind
<1>5. InFlightKept /\ BatchExact /\ CursorHonest
  BY <1>1, <1>2 DEF LogInit, InFlightKept, BatchExact, CursorHonest
<1>6. Accounted
  BY <1>2, <1>3 DEF LogInit, Accounted
<1> QED
  BY <1>4, <1>5, <1>6 DEF LogInv

\* A step of a sender keeps the invariant.
LEMMA SinkStepInv ==
    ASSUME LogInv, NEW s \in Sinks, SinkStep(s)
    PROVE  LogInv'
<1>1. CASE PlanBatch(s)
  BY <1>1, PlanBatchInv
<1>2. CASE \E up_to \in 1..batch[s].last_seq : BatchAcked(s, up_to)
  <2>1. PICK up_to \in 1..batch[s].last_seq : BatchAcked(s, up_to)
    BY <1>2
  <2>2. up_to \in Nat
    <3>1. batch[s].last_seq \in Nat
      BY <2>1 DEF BatchAcked, LogInv, BatchExact, LogTypeOK
    <3> QED BY <3>1
  <2> QED BY <2>1, <2>2, BatchAckedInv
<1>3. CASE BatchFailed(s)
  BY <1>3, BatchFailedInv
<1> QED
  BY <1>1, <1>2, <1>3 DEF SinkStep, BatchResolved

\* A step that leaves the stream alone keeps the invariant.
LEMMA LogFrame ==
    ASSUME LogInv, UNCHANGED logVars
    PROVE  LogInv'
<1>1. UNCHANGED <<records, turn_bytes, node_bytes, next_seq, cursor, in_flight_up_to, delivered,
                  expired, oversize, usage_lost, batch, aged, offered, taken, lost, owed>>
  BY DEF logVars, sharedVars, historyVars
<1>2. \A t \in Sinks : Mine(t)' = Mine(t)
  BY <1>1 DEF Mine, Later
<1> QED
  BY <1>1, <1>2 DEF LogInv, LogTypeOK, HistoryTypeOK, CursorsBehind, InFlightKept,
                    BatchExact, Waiting, CursorHonest, Accounted

\* The invariant of the stream in memory is inductive.
THEOREM LogInvariant == LogSpec => []LogInv
<1>1. LogInit => LogInv
  BY LogInitInv
<1>2. LogInv /\ [LogNext]_logVars => LogInv'
  <2> SUFFICES ASSUME LogInv, [LogNext]_logVars PROVE LogInv'
    OBVIOUS
  <2>1. ASSUME NEW subject \in Appended, NEW size \in Sizes, TakeIncoming(subject, size)
        PROVE  LogInv'
    <3>1. subject \in Subjects
      BY ConstantsAssumption
    <3> QED BY <2>1, <3>1, TakeIncomingInv
  <2>2. CASE Trim
    BY <2>2, TrimInv
  <2>3. ASSUME NEW s \in Sinks, SinkStep(s) PROVE LogInv'
    BY <2>3, SinkStepInv
  <2>4. ASSUME NEW q \in DOMAIN records, Age(q) PROVE LogInv'
    BY <2>4, AgeInv
  <2>5. CASE UNCHANGED logVars
    BY <2>5, LogFrame
  <2> QED BY <2>1, <2>2, <2>3, <2>4, <2>5 DEF LogNext
<1> QED
  BY <1>1, <1>2, PTL DEF LogSpec

\* The counters of SinkState account for every record the log owed a sink: each
\* was delivered, counted lost exactly once, or still waits.
THEOREM LogAccounted == LogSpec => []Accounted
<1>1. LogInv => Accounted
  BY DEF LogInv
<1> QED
  BY <1>1, LogInvariant, PTL

\* A batch's records stay in the log until its ack or its failure.
THEOREM LogInFlightKept == LogSpec => []InFlightKept
<1>1. LogInv => InFlightKept
  BY DEF LogInv
<1> QED
  BY <1>1, LogInvariant, PTL

\* No cursor claims a record its sink neither took nor was told it lost.
THEOREM LogCursorHonest == LogSpec => []CursorHonest
<1>1. LogInv => CursorHonest
  BY DEF LogInv
<1> QED
  BY <1>1, LogInvariant, PTL

\* The type invariant of the log.
THEOREM LogTypeCorrect == LogSpec => []LogTypeOK
<1>1. LogInv => LogTypeOK
  BY DEF LogInv
<1> QED
  BY <1>1, LogInvariant, PTL

----------------------------------------------------------------------------
(* No record is both taken and lost. *)

\* Records are told apart by their ids, and what a sink is still owed it has
\* neither taken nor lost: the strengthening LostNotTaken needs.
IdsKnown ==
    /\ \A q \in DOMAIN records : records[q].id <= offered
    /\ \A p, q \in DOMAIN records : records[p].id = records[q].id => p = q
    /\ \A s \in Sinks : taken[s] \cup lost[s] \subseteq 1..offered
    /\ \A s \in Sinks : \A q \in Mine(s) : records[q].id \notin taken[s] \cup lost[s]
    /\ LostNotTaken

\* A record that leaves before its sink took it is lost to that sink, and a new
\* record has an id of its own.
LEMMA RemoveAndPlaceIds ==
    ASSUME LogInv, IdsKnown,
           NEW out \in SUBSET DOMAIN records,
           NEW placed \in BOOLEAN, NEW new,
           placed => new \in Records /\ new.id = offered + 1 /\ offered' = offered + 1,
           offered' \in {offered, offered + 1},
           records' = IF placed
                      THEN [q \in (DOMAIN records \ out) \cup {next_seq} |->
                              IF q = next_seq THEN new ELSE records[q]]
                      ELSE Only(records, DOMAIN records \ out),
           next_seq' = SeqAfter(placed),
           lost' = LostWith(out),
           UNCHANGED <<cursor, taken>>
    PROVE  IdsKnown'
<1>1. /\ DOMAIN records' = (DOMAIN records \ out) \cup (IF placed THEN {next_seq} ELSE {})
      /\ \A q \in DOMAIN records \ out : q # next_seq /\ records'[q] = records[q]
      /\ placed => records'[next_seq] = new
  BY DEF Only, LogTypeOK, LogInv
<1>2. /\ offered \in Nat /\ \A q \in DOMAIN records : records[q].id \in Nat \ {0}
      /\ offered' \in Nat /\ offered <= offered'
  BY DEF LogInv, LogTypeOK, Records
<1>3. /\ \A q \in DOMAIN records : records[q].id <= offered
      /\ \A p, q \in DOMAIN records : records[p].id = records[q].id => p = q
  BY DEF IdsKnown
<1>4. ASSUME NEW q \in DOMAIN records'
      PROVE  /\ records'[q].id <= offered'
             /\ q \in DOMAIN records \ out \/ (placed /\ q = next_seq)
             /\ (placed /\ q = next_seq) => records'[q].id = offered + 1
             /\ q \in DOMAIN records => records'[q].id = records[q].id
  <2>1. CASE q \in DOMAIN records \ out
    <3>1. records'[q].id = records[q].id /\ q # next_seq
      BY <1>1, <2>1
    <3>2. records[q].id \in Nat /\ records[q].id <= offered
      BY <1>2, <1>3, <2>1
    <3> QED BY <1>2, <2>1, <3>1, <3>2
  <2>2. CASE placed /\ q = next_seq
    BY <1>1, <1>2, <2>2 DEF LogInv, LogTypeOK
  <2> QED BY <1>1, <2>1, <2>2
<1>5. ASSUME NEW p \in DOMAIN records', NEW q \in DOMAIN records',
             records'[p].id = records'[q].id
      PROVE  p = q
  <2>1. CASE p \in DOMAIN records /\ q \in DOMAIN records
    BY <1>3, <1>4, <1>5, <2>1
  <2>2. CASE p \notin DOMAIN records \/ q \notin DOMAIN records
    <3>1. \A r \in DOMAIN records : records[r].id # offered + 1
      BY <1>2, <1>3
    <3> QED BY <1>4, <1>5, <2>2, <3>1
  <2> QED BY <2>1, <2>2
<1>6. ASSUME NEW s \in Sinks
      PROVE  /\ taken'[s] \cup lost'[s] \subseteq 1..offered'
             /\ \A q \in Mine(s)' : records'[q].id \notin taken'[s] \cup lost'[s]
             /\ taken'[s] \cap lost'[s] = {}
  <2>1. lost'[s] = lost[s] \cup {records[q].id : q \in MissedBy(s, out)} /\ taken'[s] = taken[s]
    BY DEF LostWith
  <2>2. /\ taken[s] \cup lost[s] \subseteq 1..offered
        /\ \A q \in Mine(s) : records[q].id \notin taken[s] \cup lost[s]
        /\ taken[s] \cap lost[s] = {}
    BY DEF IdsKnown, LostNotTaken
  <2>3. /\ MissedBy(s, out) \subseteq Mine(s)
        /\ Mine(s)' = (Mine(s) \ MissedBy(s, out))
               \cup (IF placed /\ s \in SinksFor(new.subject) THEN {next_seq} ELSE {})
    BY LogMoves
  <2>4. /\ Mine(s) \subseteq DOMAIN records
        /\ Mine(s) \ MissedBy(s, out) \subseteq DOMAIN records \ out
    BY DEF Mine, Later, MissedBy
  <2>5. taken'[s] \cup lost'[s] \subseteq 1..offered
    <3>1. \A q \in MissedBy(s, out) : records[q].id \in 1..offered
      BY <1>2, <1>3, <2>3, <2>4
    <3> QED BY <2>1, <2>2, <3>1
  <2>6. taken'[s] \cap lost'[s] = {}
    BY <2>1, <2>2, <2>3
  <2>7. ASSUME NEW q \in Mine(s)' PROVE records'[q].id \notin taken'[s] \cup lost'[s]
    <3>1. CASE q \in Mine(s) \ MissedBy(s, out)
      <4>1. records'[q] = records[q] /\ q \in DOMAIN records
        BY <1>1, <2>4, <3>1
      <4>2. records[q].id \notin {records[p].id : p \in MissedBy(s, out)}
        BY <1>3, <2>3, <2>4, <3>1
      <4> QED BY <2>1, <2>2, <3>1, <4>1, <4>2
    <3>2. CASE placed /\ q = next_seq
      <4>1. records'[q].id = offered + 1
        BY <1>1, <3>2
      <4> QED BY <1>2, <2>5, <4>1
    <3> QED BY <2>3, <3>1, <3>2
  <2>8. 1..offered \subseteq 1..offered'
    BY <1>2
  <2> QED BY <2>5, <2>6, <2>7, <2>8
<1> QED
  BY <1>4, <1>5, <1>6 DEF IdsKnown, LostNotTaken

\* plan_batch loses, and an ack takes, only records the sink was still owed.
LEMMA SettleIds ==
    ASSUME LogInv, IdsKnown, NEW s \in Sinks, NEW S \in SUBSET Mine(s),
           NEW T, NEW L, T \cup L = {records[q].id : q \in S}, T \cap L = {},
           taken'[s] = taken[s] \cup T, lost'[s] = lost[s] \cup L,
           \A t \in Sinks : t # s => taken'[t] = taken[t] /\ lost'[t] = lost[t],
           Mine(s)' = Mine(s) \ S,
           \A t \in Sinks : t # s => Mine(t)' = Mine(t),
           UNCHANGED <<records, offered>>
    PROVE  IdsKnown'
<1>1. taken'[s] = taken[s] \cup T /\ lost'[s] = lost[s] \cup L
  OBVIOUS
<1>2. /\ \A q \in DOMAIN records : records[q].id <= offered
      /\ \A p, q \in DOMAIN records : records[p].id = records[q].id => p = q
      /\ \A t \in Sinks : /\ taken[t] \cup lost[t] \subseteq 1..offered
                          /\ \A q \in Mine(t) : records[q].id \notin taken[t] \cup lost[t]
                          /\ taken[t] \cap lost[t] = {}
  BY DEF IdsKnown, LostNotTaken
<1>3. /\ S \subseteq DOMAIN records /\ Mine(s) \subseteq DOMAIN records
      /\ offered \in Nat /\ \A q \in DOMAIN records : records[q].id \in Nat \ {0}
  BY DEF Mine, Later, LogInv, LogTypeOK, Records
<1>4. T \cup L \subseteq 1..offered
  BY <1>2, <1>3
<1>5. (T \cup L) \cap (taken[s] \cup lost[s]) = {}
  BY <1>2
<1>6. \A q \in Mine(s) \ S : records[q].id \notin T \cup L
  BY <1>2, <1>3
<1>7. /\ taken'[s] \cup lost'[s] \subseteq 1..offered
      /\ taken'[s] \cap lost'[s] = {}
      /\ \A q \in Mine(s)' : records[q].id \notin taken'[s] \cup lost'[s]
  <2>1. taken'[s] \cup lost'[s] \subseteq 1..offered
    BY <1>1, <1>2, <1>4
  <2>2. taken'[s] \cap lost'[s] = {}
    BY <1>1, <1>2, <1>5
  <2>3. \A q \in Mine(s)' : records[q].id \notin taken'[s] \cup lost'[s]
    BY <1>1, <1>2, <1>6
  <2> QED BY <2>1, <2>2, <2>3
<1> QED
  BY <1>1, <1>2, <1>7 DEF IdsKnown, LostNotTaken

\* A step that changes nothing IdsKnown reads keeps it.
LEMMA IdsFrame ==
    ASSUME IdsKnown, UNCHANGED <<records, offered, taken, lost, cursor>>
    PROVE  IdsKnown'
<1>1. \A t \in Sinks : Mine(t)' = Mine(t)
  BY DEF Mine, Later
<1> QED
  BY <1>1 DEF IdsKnown, LostNotTaken

----------------------------------------------------------------------------
(* The usage records' books. *)

\* The usage records that still wait for SY.storage.
UsageOwed == {q \in Mine("SY.storage") : records[q].subject = "storage.usage"}

\* The history of the usage records and what it is compared with.
UsageBooks ==
    /\ usage \in [owed : Nat, taken : Nat]
    /\ UsageAccounted

\* SY.storage is a sink in every role, and the only sink of the usage records.
LEMMA UsageSink ==
    /\ "SY.storage" \in Sinks
    /\ SinksFor("storage.usage") = {"SY.storage"}
<1>1. SinksFor("storage.usage") = {"SY.storage"} /\ "storage.usage" \in Subjects
  BY DEF SinksFor, Subjects
<1> QED
  BY <1>1 DEF Sinks

\* What waits for SY.storage is finite.
LEMMA UsageOwedFinite ==
    ASSUME LogInv
    PROVE  IsFiniteSet(UsageOwed) /\ Cardinality(UsageOwed) \in Nat
<1>1. next_seq - 1 \in Nat /\ UsageOwed \in SUBSET (1..(next_seq - 1))
  BY DEF UsageOwed, Mine, Later, LogInv, LogTypeOK
<1> QED
  BY <1>1, SeqsFinite

\* Every usage record offered to the log is placed or counted at once, and one
\* that leaves before SY.storage took it is counted when it leaves.
LEMMA RemoveAndPlaceUsage ==
    ASSUME LogInv, UsageBooks,
           NEW out \in SUBSET DOMAIN records,
           NEW placed \in BOOLEAN, NEW new, placed => new \in Records,
           NEW dropped \in Nat, NEW asked \in Nat,
           asked = dropped + (IF placed /\ new.subject = "storage.usage" THEN 1 ELSE 0),
           records' = IF placed
                      THEN [q \in (DOMAIN records \ out) \cup {next_seq} |->
                              IF q = next_seq THEN new ELSE records[q]]
                      ELSE Only(records, DOMAIN records \ out),
           next_seq' = SeqAfter(placed),
           cursor' = cursor,
           usage_lost' = usage_lost + Cardinality(MissedUsage(out)) + dropped,
           usage' = [owed |-> usage.owed + asked, taken |-> usage.taken]
    PROVE  UsageBooks'
<1> DEFINE s == "SY.storage"
<1>1. s \in Sinks /\ SinksFor("storage.usage") = {s}
  BY UsageSink
<1>2. /\ DOMAIN records' = (DOMAIN records \ out) \cup (IF placed THEN {next_seq} ELSE {})
      /\ \A q \in DOMAIN records \ out : q # next_seq /\ records'[q] = records[q]
      /\ placed => records'[next_seq] = new
      /\ next_seq \notin DOMAIN records
  BY DEF Only, LogTypeOK, LogInv
<1>3. /\ MissedBy(s, out) \subseteq Mine(s)
      /\ Mine(s)' = (Mine(s) \ MissedBy(s, out))
             \cup (IF placed /\ s \in SinksFor(new.subject) THEN {next_seq} ELSE {})
      /\ next_seq \notin Mine(s)
  BY <1>1, LogMoves
<1>4. MissedUsage(out) = {q \in MissedBy(s, out) : records[q].subject = "storage.usage"}
  BY <1>1 DEF MissedUsage, MissedBy
<1>5. Mine(s) \ MissedBy(s, out) \subseteq DOMAIN records \ out
  BY DEF Mine, Later, MissedBy
<1>6. UsageOwed' = {q \in Mine(s)' : records'[q].subject = "storage.usage"}
  BY DEF UsageOwed
<1>7. MissedUsage(out) \in SUBSET UsageOwed
  BY <1>3, <1>4 DEF UsageOwed
<1>8. UsageOwed' = (UsageOwed \ MissedUsage(out))
          \cup (IF placed /\ new.subject = "storage.usage" THEN {next_seq} ELSE {})
  <2>1. \A q : q \in UsageOwed' =>
            \/ q \in UsageOwed \ MissedUsage(out)
            \/ placed /\ new.subject = "storage.usage" /\ q = next_seq
    BY <1>2, <1>3, <1>4, <1>5, <1>6 DEF UsageOwed
  <2>2. \A q \in UsageOwed \ MissedUsage(out) : q \in UsageOwed'
    BY <1>2, <1>3, <1>4, <1>5, <1>6 DEF UsageOwed
  <2>3. placed /\ new.subject = "storage.usage" => next_seq \in UsageOwed'
    BY <1>1, <1>2, <1>3, <1>6
  <2> QED BY <2>1, <2>2, <2>3
<1>9. /\ Cardinality(UsageOwed \ MissedUsage(out)) + Cardinality(MissedUsage(out))
           = Cardinality(UsageOwed)
      /\ Cardinality(UsageOwed \ MissedUsage(out)) \in Nat
      /\ Cardinality(MissedUsage(out)) \in Nat
      /\ IsFiniteSet(UsageOwed \ MissedUsage(out))
  <2>1. IsFiniteSet(UsageOwed)
    BY UsageOwedFinite
  <2>2. IsFiniteSet(UsageOwed \ MissedUsage(out))
    BY <2>1, FS_Subset
  <2> QED BY <1>7, <2>1, <2>2, CardinalityWithout
<1>10. Cardinality(UsageOwed') = Cardinality(UsageOwed \ MissedUsage(out)) + (asked - dropped)
  <2>1. CASE placed /\ new.subject = "storage.usage"
    <3>1. UsageOwed' = (UsageOwed \ MissedUsage(out)) \cup {next_seq}
      BY <1>8, <2>1
    <3>2. next_seq \notin UsageOwed
      BY <1>3 DEF UsageOwed
    <3>3. Cardinality(UsageOwed') = Cardinality(UsageOwed \ MissedUsage(out)) + 1
      BY <1>9, <3>1, <3>2, FS_AddElement
    <3>4. asked - dropped = 1
      BY <2>1
    <3> QED BY <3>3, <3>4
  <2>2. CASE ~(placed /\ new.subject = "storage.usage")
    <3>1. UsageOwed' = UsageOwed \ MissedUsage(out)
      BY <1>8, <2>2
    <3>2. asked - dropped = 0
      BY <2>2
    <3> QED BY <1>9, <3>1, <3>2
  <2> QED BY <2>1, <2>2
<1>11. /\ usage.owed \in Nat /\ usage.taken \in Nat /\ usage_lost \in Nat
       /\ usage.owed = usage.taken + usage_lost + Cardinality(UsageOwed)
       /\ usage'.owed = usage.owed + asked /\ usage'.taken = usage.taken
  BY DEF UsageBooks, UsageAccounted, UsageOwed, LogInv, LogTypeOK
<1>12. usage'.owed = usage'.taken + usage_lost' + Cardinality(UsageOwed')
  BY <1>9, <1>10, <1>11
<1>13. usage' \in [owed : Nat, taken : Nat]
  BY <1>11
<1> QED
  BY <1>12, <1>13 DEF UsageBooks, UsageAccounted, UsageOwed

\* What a sink is no longer owed moves to the taken or to the lost usage records.
LEMMA SettleUsage ==
    ASSUME LogInv, UsageBooks, NEW s \in Sinks, NEW S \in SUBSET Mine(s),
           Mine(s)' = Mine(s) \ S,
           \A t \in Sinks : t # s => Mine(t)' = Mine(t),
           records' = records,
           usage_lost' \in Nat,
           usage' \in [owed : Nat, taken : Nat],
           usage'.owed = usage.owed,
           usage'.taken + usage_lost' = usage.taken + usage_lost
                + Cardinality({q \in S : records[q].subject = "storage.usage"})
    PROVE  UsageBooks'
<1> DEFINE U == {q \in S : records[q].subject = "storage.usage"}
<1>1. "SY.storage" \in Sinks /\ SinksFor("storage.usage") = {"SY.storage"}
  BY UsageSink
<1>2. UsageOwed' = {q \in Mine("SY.storage")' : records[q].subject = "storage.usage"}
  BY DEF UsageOwed
<1>3. UsageOwed' = UsageOwed \ U /\ U \subseteq UsageOwed
  <2>1. CASE s = "SY.storage"
    BY <1>2, <2>1 DEF UsageOwed
  <2>2. CASE s # "SY.storage"
    <3>1. U = {}
      BY <1>1, <2>2 DEF Mine
    <3> QED BY <1>1, <1>2, <2>2, <3>1 DEF UsageOwed
  <2> QED BY <2>1, <2>2
<1>4. IsFiniteSet(UsageOwed)
  BY UsageOwedFinite
<1> HIDE DEF U
<1>5. /\ Cardinality(UsageOwed \ U) + Cardinality(U) = Cardinality(UsageOwed)
      /\ Cardinality(UsageOwed \ U) \in Nat /\ Cardinality(U) \in Nat
  BY <1>3, <1>4, CardinalityWithout
<1>6. /\ usage.owed \in Nat /\ usage.taken \in Nat /\ usage_lost \in Nat
      /\ usage.owed = usage.taken + usage_lost + Cardinality(UsageOwed)
      /\ usage'.owed \in Nat /\ usage'.taken \in Nat
  BY DEF UsageBooks, UsageAccounted, UsageOwed, LogInv, LogTypeOK
<1>7. usage'.taken + usage_lost' = usage.taken + usage_lost + Cardinality(U)
  BY DEF U
<1>8. Cardinality(UsageOwed') = Cardinality(UsageOwed \ U)
  BY <1>3
<1>9. usage'.owed = usage'.taken + usage_lost' + Cardinality(UsageOwed')
  BY <1>5, <1>6, <1>7, <1>8
<1> QED
  BY <1>9 DEF UsageBooks, UsageAccounted, UsageOwed

\* A step that changes nothing UsageBooks reads keeps it.
LEMMA UsageFrame ==
    ASSUME UsageBooks, UNCHANGED <<records, cursor, usage_lost, usage>>
    PROVE  UsageBooks'
<1>1. Mine("SY.storage")' = Mine("SY.storage")
  BY DEF Mine, Later
<1> QED
  BY <1>1 DEF UsageBooks, UsageAccounted

----------------------------------------------------------------------------
(* The byte counters. *)

\* The bytes of records held apart add up.
LEMMA BytesSum ==
    ASSUME NEW f, NEW g, NEW h, IsFiniteSet(DOMAIN f),
           DOMAIN f = DOMAIN g \cup DOMAIN h, DOMAIN g \cap DOMAIN h = {},
           \A q \in DOMAIN g : f[q] = g[q],
           \A q \in DOMAIN h : f[q] = h[q]
    PROVE  /\ Bytes(f) = Bytes(g) + Bytes(h)
           /\ Bytes(f) \in Nat /\ Bytes(g) \in Nat /\ Bytes(h) \in Nat
<1> DEFINE C(x) == {c \in (DOMAIN x) \X (1..MaxSize) : c[2] <= x[c[1]].size}
<1>1. C(f) = C(g) \cup C(h)
  <2>1. \A c : c \in C(f) <=> c \in C(g) \/ c \in C(h)
    OBVIOUS
  <2> QED BY <2>1
<1>2. C(g) \cap C(h) = {}
  OBVIOUS
<1>3. IsFiniteSet(C(f))
  <2>1. IsFiniteSet(1..MaxSize)
    BY ConstantsAssumption, FS_Interval
  <2>2. IsFiniteSet((DOMAIN f) \X (1..MaxSize))
    BY <2>1, FS_Product
  <2>3. C(f) \in SUBSET ((DOMAIN f) \X (1..MaxSize))
    OBVIOUS
  <2> HIDE DEF C
  <2> QED BY <2>2, <2>3, FS_Subset
<1>4. Bytes(f) = Cardinality(C(f)) /\ Bytes(g) = Cardinality(C(g)) /\ Bytes(h) = Cardinality(C(h))
  BY DEF Bytes
<1> HIDE DEF C
<1>5. C(g) \in SUBSET C(f) /\ C(h) = C(f) \ C(g)
  BY <1>1, <1>2
<1> QED
  BY <1>3, <1>4, <1>5, CardinalityWithout, FS_CardinalityType

\* A record has as many bytes as its size says.
LEMMA BytesOfOne ==
    ASSUME NEW f, NEW q, DOMAIN f = {q}, f[q].size \in 1..MaxSize
    PROVE  Bytes(f) = f[q].size
<1> DEFINE n == f[q].size
           C == {c \in (DOMAIN f) \X (1..MaxSize) : c[2] <= f[c[1]].size}
           m == [i \in 1..n |-> <<q, i>>]
<1>1. MaxSize \in Nat /\ n \in Nat /\ n <= MaxSize
  BY ConstantsAssumption
<1>2. m \in [1..n -> C]
  BY <1>1
<1>3. \A i, j \in 1..n : m[i] = m[j] => i = j
  OBVIOUS
<1>4. \A c \in C : \E i \in 1..n : m[i] = c
  <2> SUFFICES ASSUME NEW c \in C PROVE c[2] \in 1..n /\ m[c[2]] = c
    OBVIOUS
  <2>1. c = <<c[1], c[2]>> /\ c[1] = q /\ c[2] \in 1..MaxSize /\ c[2] <= n
    OBVIOUS
  <2>2. c[2] \in 1..n
    BY <1>1, <2>1
  <2> QED BY <2>1, <2>2
<1> HIDE DEF m, C, n
<1>5. m \in Bijection(1..n, C)
  BY <1>2, <1>3, <1>4 DEF Bijection, Injection, Surjection, IsInjective
<1>6. IsFiniteSet(1..n) /\ Cardinality(1..n) = n
  BY <1>1, FS_Interval
<1>7. Cardinality(C) = n
  BY <1>5, <1>6, FS_Bijection DEF ExistsBijection
<1> QED
  BY <1>7 DEF Bytes, C, n

\* The same records have the same bytes.
LEMMA BytesSame ==
    ASSUME NEW f, NEW g, DOMAIN f = DOMAIN g, \A q \in DOMAIN f : f[q] = g[q]
    PROVE  Bytes(f) = Bytes(g)
<1>1. {c \in (DOMAIN f) \X (1..MaxSize) : c[2] <= f[c[1]].size}
        = {c \in (DOMAIN g) \X (1..MaxSize) : c[2] <= g[c[1]].size}
  <2>1. \A c : c \in (DOMAIN f) \X (1..MaxSize) => f[c[1]] = g[c[1]]
    OBVIOUS
  <2> QED BY <2>1
<1> QED
  BY <1>1 DEF Bytes

\* The byte counters and the caps.
BytesBooks == BytesExact /\ WithinCaps

\* A trim takes from the counters exactly the bytes of the records that leave,
\* so the saturating subtraction never saturates.
LEMMA BytesLeft ==
    ASSUME LogTypeOK, BytesExact, NEW out \in SUBSET DOMAIN records
    PROVE  LET kept == Only(records, DOMAIN records \ out)
           IN  /\ TurnBytesWithout(out) = Bytes(TurnsOf(kept))
               /\ NodeBytesWithout(out) = Bytes(NodesOf(kept))
               /\ TurnBytesWithout(out) \in Nat /\ TurnBytesWithout(out) <= turn_bytes
               /\ NodeBytesWithout(out) \in Nat /\ NodeBytesWithout(out) <= node_bytes
<1> DEFINE kept == Only(records, DOMAIN records \ out)
           gone == Only(records, out)
<1>1. IsFiniteSet(DOMAIN records)
  <2>1. next_seq - 1 \in Nat /\ DOMAIN records \in SUBSET (1..(next_seq - 1))
    BY DEF LogTypeOK
  <2> QED BY <2>1, SeqsFinite
<1>2. /\ Bytes(TurnsOf(records)) = Bytes(TurnsOf(kept)) + Bytes(TurnsOf(gone))
      /\ Bytes(TurnsOf(kept)) \in Nat /\ Bytes(TurnsOf(gone)) \in Nat
  <2>1. IsFiniteSet(DOMAIN TurnsOf(records))
    <3>1. DOMAIN TurnsOf(records) \in SUBSET DOMAIN records
      BY DEF TurnsOf, Only
    <3> QED BY <1>1, <3>1, FS_Subset
  <2>2. /\ DOMAIN TurnsOf(records) = DOMAIN TurnsOf(kept) \cup DOMAIN TurnsOf(gone)
        /\ DOMAIN TurnsOf(kept) \cap DOMAIN TurnsOf(gone) = {}
        /\ \A q \in DOMAIN TurnsOf(kept) : TurnsOf(records)[q] = TurnsOf(kept)[q]
        /\ \A q \in DOMAIN TurnsOf(gone) : TurnsOf(records)[q] = TurnsOf(gone)[q]
    BY DEF TurnsOf, Only
  <2> HIDE DEF kept, gone
  <2> QED BY <2>1, <2>2, BytesSum
<1>3. /\ Bytes(NodesOf(records)) = Bytes(NodesOf(kept)) + Bytes(NodesOf(gone))
      /\ Bytes(NodesOf(kept)) \in Nat /\ Bytes(NodesOf(gone)) \in Nat
  <2>1. IsFiniteSet(DOMAIN NodesOf(records))
    <3>1. DOMAIN NodesOf(records) \in SUBSET DOMAIN records
      BY DEF NodesOf, Only
    <3> QED BY <1>1, <3>1, FS_Subset
  <2>2. /\ DOMAIN NodesOf(records) = DOMAIN NodesOf(kept) \cup DOMAIN NodesOf(gone)
        /\ DOMAIN NodesOf(kept) \cap DOMAIN NodesOf(gone) = {}
        /\ \A q \in DOMAIN NodesOf(kept) : NodesOf(records)[q] = NodesOf(kept)[q]
        /\ \A q \in DOMAIN NodesOf(gone) : NodesOf(records)[q] = NodesOf(gone)[q]
    BY DEF NodesOf, Only
  <2> HIDE DEF kept, gone
  <2> QED BY <2>1, <2>2, BytesSum
<1>4. turn_bytes = Bytes(TurnsOf(records)) /\ node_bytes = Bytes(NodesOf(records))
  BY DEF BytesExact
<1> HIDE DEF kept
<1>5. /\ TurnBytesWithout(out) = Saturating(turn_bytes, Bytes(TurnsOf(gone)))
      /\ NodeBytesWithout(out) = Saturating(node_bytes, Bytes(NodesOf(gone)))
  BY DEF TurnBytesWithout, NodeBytesWithout
<1> HIDE DEF gone
<1>6. /\ TurnBytesWithout(out) = Bytes(TurnsOf(kept)) /\ TurnBytesWithout(out) <= turn_bytes
      /\ NodeBytesWithout(out) = Bytes(NodesOf(kept)) /\ NodeBytesWithout(out) <= node_bytes
  BY <1>2, <1>3, <1>4, <1>5 DEF Saturating
<1> QED
  BY <1>2, <1>3, <1>6 DEF kept

\* A placed record adds its size to the bytes of its source, and nothing to the other's.
LEMMA BytesPlaced ==
    ASSUME NEW f, NEW g, NEW n, NEW r,
           IsFiniteSet(DOMAIN f), n \notin DOMAIN f, r.size \in 1..MaxSize,
           DOMAIN g = DOMAIN f \cup {n}, g[n] = r, \A q \in DOMAIN f : g[q] = f[q]
    PROVE  /\ Bytes(TurnsOf(g)) = IF FromNodes(r.subject) THEN Bytes(TurnsOf(f))
                                                          ELSE Bytes(TurnsOf(f)) + r.size
           /\ Bytes(NodesOf(g)) = IF FromNodes(r.subject) THEN Bytes(NodesOf(f)) + r.size
                                                          ELSE Bytes(NodesOf(f))
<1> DEFINE one == [q \in {n} |-> r]
<1>1. Bytes(one) = r.size
  <2>1. DOMAIN one = {n} /\ one[n].size = r.size
    OBVIOUS
  <2> HIDE DEF one
  <2> QED BY <2>1, BytesOfOne
<1>2. IsFiniteSet(DOMAIN g)
  BY FS_AddElement
<1>3. IsFiniteSet(DOMAIN TurnsOf(g)) /\ IsFiniteSet(DOMAIN NodesOf(g))
  <2>1. DOMAIN TurnsOf(g) \in SUBSET DOMAIN g /\ DOMAIN NodesOf(g) \in SUBSET DOMAIN g
    BY DEF TurnsOf, NodesOf, Only
  <2> QED BY <1>2, <2>1, FS_Subset
<1>4. CASE FromNodes(r.subject)
  <2>1. /\ DOMAIN TurnsOf(g) = DOMAIN TurnsOf(f)
        /\ \A q \in DOMAIN TurnsOf(g) : TurnsOf(g)[q] = TurnsOf(f)[q]
    BY <1>4 DEF TurnsOf, Only
  <2>2. Bytes(TurnsOf(g)) = Bytes(TurnsOf(f))
    BY <2>1, BytesSame
  <2>3. /\ DOMAIN NodesOf(g) = DOMAIN NodesOf(f) \cup DOMAIN one
        /\ DOMAIN NodesOf(f) \cap DOMAIN one = {}
        /\ \A q \in DOMAIN NodesOf(f) : NodesOf(g)[q] = NodesOf(f)[q]
        /\ \A q \in DOMAIN one : NodesOf(g)[q] = one[q]
    BY <1>4 DEF NodesOf, Only
  <2> HIDE DEF one
  <2>4. Bytes(NodesOf(g)) = Bytes(NodesOf(f)) + Bytes(one)
    BY <1>3, <2>3, BytesSum
  <2> QED BY <1>1, <1>4, <2>2, <2>4
<1>5. CASE ~FromNodes(r.subject)
  <2>1. /\ DOMAIN NodesOf(g) = DOMAIN NodesOf(f)
        /\ \A q \in DOMAIN NodesOf(g) : NodesOf(g)[q] = NodesOf(f)[q]
    BY <1>5 DEF NodesOf, Only
  <2>2. Bytes(NodesOf(g)) = Bytes(NodesOf(f))
    BY <2>1, BytesSame
  <2>3. /\ DOMAIN TurnsOf(g) = DOMAIN TurnsOf(f) \cup DOMAIN one
        /\ DOMAIN TurnsOf(f) \cap DOMAIN one = {}
        /\ \A q \in DOMAIN TurnsOf(f) : TurnsOf(g)[q] = TurnsOf(f)[q]
        /\ \A q \in DOMAIN one : TurnsOf(g)[q] = one[q]
    BY <1>5 DEF TurnsOf, Only
  <2> HIDE DEF one
  <2>4. Bytes(TurnsOf(g)) = Bytes(TurnsOf(f)) + Bytes(one)
    BY <1>3, <2>3, BytesSum
  <2> QED BY <1>1, <1>5, <2>2, <2>4
<1> QED
  BY <1>4, <1>5

\* The trim keeps the counters exact and within the caps.
LEMMA TrimBytes ==
    ASSUME LogInv, BytesBooks, Trim
    PROVE  BytesBooks'
<1>1. LogTypeOK /\ Leaving \in SUBSET DOMAIN records /\ BytesExact /\ WithinCaps
  BY DEF LogInv, Leaving, BytesBooks
<1>2. /\ records' = Only(records, DOMAIN records \ Leaving)
      /\ turn_bytes' = TurnBytesWithout(Leaving) /\ node_bytes' = NodeBytesWithout(Leaving)
  BY DEF Trim
<1>3. /\ turn_bytes' = Bytes(TurnsOf(records')) /\ turn_bytes' <= turn_bytes /\ turn_bytes' \in Nat
      /\ node_bytes' = Bytes(NodesOf(records')) /\ node_bytes' <= node_bytes /\ node_bytes' \in Nat
  BY <1>1, <1>2, BytesLeft
<1>4. BytesExact'
  BY <1>3 DEF BytesExact
<1>5. WithinCaps'
  BY <1>1, <1>3, ConstantsAssumption DEF WithinCaps, LogTypeOK
<1> QED
  BY <1>4, <1>5 DEF BytesBooks

\* take_incoming keeps the counters exact, and places a record only where `fits`
\* leaves room for it in its source's share.
LEMMA TakeIncomingBytes ==
    ASSUME LogInv, BytesBooks, NEW subject \in Subjects, NEW size \in Sizes,
           TakeIncoming(subject, size)
    PROVE  BytesBooks'
<1> DEFINE out == MakeRoom(subject, size)
           kept == Only(records, DOMAIN records \ out)
           tb  == TurnBytesWithout(out)
           nb  == NodeBytesWithout(out)
           ok  == Fits(tb, nb, subject, size)
           new == [id |-> offered + 1, subject |-> subject, size |-> size]
<1>1. LogTypeOK /\ BytesExact /\ WithinCaps
  BY DEF LogInv, BytesBooks
<1>2. out \in SUBSET DOMAIN records
  BY DEF MakeRoom, Leaving
<1>3. /\ records' = IF ok THEN [q \in (DOMAIN records \ out) \cup {next_seq} |->
                                   IF q = next_seq THEN new ELSE records[q]]
                           ELSE kept
      /\ turn_bytes' = IF ok /\ ~FromNodes(subject) THEN tb + size ELSE tb
      /\ node_bytes' = IF ok /\ FromNodes(subject) THEN nb + size ELSE nb
  BY Zenon DEF TakeIncoming
<1>4. size \in 1..MaxSize /\ MaxSize \in Nat
  BY ConstantsAssumption
<1>5. new.size = size /\ new.subject = subject
  OBVIOUS
<1>6. /\ DOMAIN kept = DOMAIN records \ out
      /\ \A q \in DOMAIN kept : kept[q] = records[q]
      /\ next_seq \notin DOMAIN kept
      /\ IsFiniteSet(DOMAIN kept)
  <2>1. DOMAIN kept = DOMAIN records \ out /\ \A q \in DOMAIN kept : kept[q] = records[q]
    BY DEF Only
  <2>2. /\ next_seq - 1 \in Nat
        /\ DOMAIN kept \in SUBSET (1..(next_seq - 1)) /\ next_seq \notin DOMAIN kept
    <3> HIDE DEF kept
    <3> QED BY <1>1, <2>1 DEF LogTypeOK
  <2> HIDE DEF kept
  <2> QED BY <2>1, <2>2, SeqsFinite
<1> HIDE DEF out
<1>7. /\ tb = Bytes(TurnsOf(kept)) /\ tb \in Nat /\ tb <= turn_bytes
      /\ nb = Bytes(NodesOf(kept)) /\ nb \in Nat /\ nb <= node_bytes
  BY <1>1, <1>2, BytesLeft
<1> HIDE DEF kept, tb, nb, new
<1>8. /\ turn_bytes \in Nat /\ node_bytes \in Nat
      /\ turn_bytes <= STREAM_MAX_BYTES - NODE_CAP /\ node_bytes <= NODE_CAP
      /\ STREAM_MAX_BYTES \in Nat /\ NODE_CAP \in Nat
  BY <1>1, ConstantsAssumption DEF WithinCaps, LogTypeOK
<1>9. CASE ok
  <2>1. /\ DOMAIN records' = DOMAIN kept \cup {next_seq} /\ records'[next_seq] = new
        /\ \A q \in DOMAIN kept : records'[q] = kept[q]
    BY <1>3, <1>6, <1>9
  <2>2. /\ Bytes(TurnsOf(records')) = IF FromNodes(subject) THEN Bytes(TurnsOf(kept))
                                                            ELSE Bytes(TurnsOf(kept)) + size
        /\ Bytes(NodesOf(records')) = IF FromNodes(subject) THEN Bytes(NodesOf(kept)) + size
                                                            ELSE Bytes(NodesOf(kept))
    BY <1>4, <1>5, <1>6, <2>1, BytesPlaced
  <2>3. BytesExact'
    BY <1>3, <1>7, <1>9, <2>2 DEF BytesExact
  <2>4. /\ ~FromNodes(subject) => tb + size <= STREAM_MAX_BYTES - NODE_CAP
        /\ FromNodes(subject) => nb + size <= NODE_CAP
    BY <1>9 DEF Fits, FromNodes
  <2>5. WithinCaps'
    BY <1>3, <1>4, <1>7, <1>8, <1>9, <2>4 DEF WithinCaps
  <2> QED BY <2>3, <2>5 DEF BytesBooks
<1>10. CASE ~ok
  <2>1. records' = kept /\ turn_bytes' = tb /\ node_bytes' = nb
    BY <1>3, <1>10
  <2> HIDE DEF ok
  <2>2. BytesExact'
    BY <1>7, <2>1 DEF BytesExact
  <2>3. WithinCaps'
    BY <1>7, <1>8, <2>1 DEF WithinCaps
  <2> QED BY <2>2, <2>3 DEF BytesBooks
<1> QED
  BY <1>9, <1>10

----------------------------------------------------------------------------
(* The books, all of them. *)

\* Inductive with LogInv.
BooksInv ==
    /\ LogInv
    /\ IdsKnown
    /\ UsageBooks
    /\ BytesBooks

\* take_incoming keeps the ids apart and counts a dropped usage record at once.
LEMMA TakeIncomingBooks ==
    ASSUME BooksInv, NEW subject \in Subjects, NEW size \in Sizes, TakeIncoming(subject, size)
    PROVE  BooksInv'
<1> DEFINE out == MakeRoom(subject, size)
           ok  == Fits(TurnBytesWithout(out), NodeBytesWithout(out), subject, size)
           new == [id |-> offered + 1, subject |-> subject, size |-> size]
           dropped == IF ~ok /\ subject = "storage.usage" THEN 1 ELSE 0
           asked == IF subject = "storage.usage" THEN 1 ELSE 0
<1>1. LogInv /\ LogTypeOK /\ IdsKnown /\ UsageBooks /\ BytesBooks
  BY DEF BooksInv, LogInv
<1>2. out \in SUBSET DOMAIN records
  BY DEF MakeRoom, Leaving
<1>3. ok \in BOOLEAN
  BY DEF Fits
<1>4. new \in Records /\ new.id = offered + 1 /\ new.subject = subject
  BY <1>1 DEF Records, LogTypeOK
<1>5. /\ records' = IF ok THEN [q \in (DOMAIN records \ out) \cup {next_seq} |->
                                   IF q = next_seq THEN new ELSE records[q]]
                           ELSE Only(records, DOMAIN records \ out)
      /\ next_seq' = SeqAfter(ok)
      /\ lost' = LostWith(out)
      /\ offered' = offered + 1
      /\ usage_lost' = usage_lost + Cardinality(MissedUsage(out)) + dropped
      /\ usage' = IF subject = "storage.usage" THEN [usage EXCEPT !.owed = @ + 1] ELSE usage
      /\ UNCHANGED <<cursor, taken>>
  BY Zenon DEF TakeIncoming
<1>6. usage' = [owed |-> usage.owed + asked, taken |-> usage.taken]
  <2>1. usage \in [owed : Nat, taken : Nat]
    BY <1>1 DEF UsageBooks
  <2> QED BY <1>5, <2>1
<1>7. dropped \in Nat /\ asked \in Nat
      /\ asked = dropped + (IF ok /\ new.subject = "storage.usage" THEN 1 ELSE 0)
  <2> HIDE DEF ok
  <2> QED BY <1>4
<1> HIDE DEF out, ok, new, dropped, asked
<1>8. IdsKnown'
  <2>1. offered' \in {offered, offered + 1}
    BY <1>5
  <2> QED BY <1>1, <1>2, <1>3, <1>4, <1>5, <2>1, RemoveAndPlaceIds
<1>9. UsageBooks'
  BY <1>1, <1>2, <1>3, <1>4, <1>5, <1>6, <1>7, RemoveAndPlaceUsage
<1>10. LogInv' /\ BytesBooks'
  BY <1>1, TakeIncomingInv, TakeIncomingBytes
<1> QED
  BY <1>8, <1>9, <1>10 DEF BooksInv

\* The trim counts what leaves too early as lost, for usage too.
LEMMA TrimBooks ==
    ASSUME BooksInv, Trim
    PROVE  BooksInv'
<1>1. LogInv /\ LogTypeOK /\ IdsKnown /\ UsageBooks /\ BytesBooks
  BY DEF BooksInv, LogInv
<1>2. Leaving \in SUBSET DOMAIN records
  BY DEF Leaving
<1>3. /\ records' = IF FALSE THEN [q \in (DOMAIN records \ Leaving) \cup {next_seq} |->
                                      IF q = next_seq THEN {} ELSE records[q]]
                              ELSE Only(records, DOMAIN records \ Leaving)
      /\ next_seq' = SeqAfter(FALSE)
      /\ lost' = LostWith(Leaving)
      /\ offered' \in {offered, offered + 1}
      /\ UNCHANGED <<cursor, taken>>
  BY DEF Trim, SeqAfter
<1>4. /\ usage_lost' = usage_lost + Cardinality(MissedUsage(Leaving)) + 0
      /\ usage' = [owed |-> usage.owed + 0, taken |-> usage.taken]
  <2>1. /\ usage \in [owed : Nat, taken : Nat] /\ usage_lost \in Nat
        /\ Cardinality(MissedUsage(Leaving)) \in Nat
    BY <1>1, <1>2, MissedUsageType DEF UsageBooks, LogTypeOK
  <2> QED BY <2>1 DEF Trim
<1>5. IdsKnown'
  BY <1>1, <1>2, <1>3, RemoveAndPlaceIds
<1>6. UsageBooks'
  <2>1. 0 = 0 + (IF FALSE /\ {}.subject = "storage.usage" THEN 1 ELSE 0)
    OBVIOUS
  <2> QED BY <1>1, <1>2, <1>3, <1>4, <2>1, RemoveAndPlaceUsage
<1>7. LogInv' /\ BytesBooks'
  BY <1>1, TrimInv, TrimBytes
<1> QED
  BY <1>5, <1>6, <1>7 DEF BooksInv

\* A step of a sender settles records the sink was still owed, each once.
LEMMA SinkStepBooks ==
    ASSUME BooksInv, NEW s \in Sinks, SinkStep(s)
    PROVE  BooksInv'
<1>1. LogInv /\ LogTypeOK /\ IdsKnown /\ UsageBooks /\ BytesBooks /\ HistoryTypeOK
      /\ usage \in [owed : Nat, taken : Nat] /\ usage_lost \in Nat
  BY DEF BooksInv, LogInv, LogTypeOK, UsageBooks
<1>2. LogInv'
  BY <1>1, SinkStepInv
<1>3. BytesBooks'
  <2>1. UNCHANGED <<records, turn_bytes, node_bytes>>
    BY DEF SinkStep, PlanBatch, BatchResolved, BatchAcked, BatchFailed
  <2> QED BY <1>1, <2>1 DEF BytesBooks, BytesExact, WithinCaps
<1>4. CASE PlanBatch(s)
  <2> DEFINE gone == Passed(s) \cap Mine(s)
             U == {q \in gone : records[q].subject = "storage.usage"}
  <2>1. /\ Mine(s)' = Mine(s) \ gone
        /\ \A t \in Sinks : t # s => Mine(t)' = Mine(t)
    BY <1>1, <1>4, PlanMoves
  <2>2. /\ lost' = [lost EXCEPT ![s] = @ \cup {records[q].id : q \in gone}]
        /\ usage_lost' = usage_lost + Cardinality(U)
        /\ UNCHANGED <<records, offered, taken, usage>>
    BY <1>4 DEF PlanBatch
  <2>3. /\ taken'[s] = taken[s] \cup {} /\ lost'[s] = lost[s] \cup {records[q].id : q \in gone}
        /\ \A t \in Sinks : t # s => taken'[t] = taken[t] /\ lost'[t] = lost[t]
    BY <1>1, <2>2 DEF HistoryTypeOK
  <2>4. gone \in SUBSET Mine(s)
    OBVIOUS
  <2>5. IdsKnown'
    <3>1. /\ {} \cup {records[q].id : q \in gone} = {records[q].id : q \in gone}
          /\ {} \cap {records[q].id : q \in gone} = {}
      OBVIOUS
    <3> HIDE DEF gone
    <3> QED BY <1>1, <2>1, <2>2, <2>3, <2>4, <3>1, SettleIds
  <2>6. UsageBooks'
    <3>1. Cardinality(U) \in Nat
      <4>1. next_seq - 1 \in Nat /\ U \in SUBSET (1..(next_seq - 1))
        BY <1>1 DEF Mine, Later, LogTypeOK
      <4> QED BY <4>1, SeqsFinite
    <3>2. /\ usage_lost' \in Nat /\ usage' \in [owed : Nat, taken : Nat]
          /\ usage'.owed = usage.owed
          /\ usage'.taken + usage_lost' = usage.taken + usage_lost + Cardinality(U)
      <4> HIDE DEF U
      <4> QED BY <1>1, <2>2, <3>1
    <3> HIDE DEF gone
    <3> QED BY <1>1, <2>1, <2>2, <2>4, <3>2, SettleUsage
  <2> QED BY <1>2, <1>3, <2>5, <2>6 DEF BooksInv
<1>5. ASSUME NEW up_to \in Nat, BatchAcked(s, up_to) PROVE BooksInv'
  <2> DEFINE b == batch[s].records
             seqs == {q \in DOMAIN b : q <= AckCursor(s, up_to)}
             U == {q \in seqs : records[q].subject = "storage.usage"}
  <2>1. /\ Mine(s)' = Mine(s) \ seqs /\ seqs \in SUBSET Mine(s)
        /\ \A t \in Sinks : t # s => Mine(t)' = Mine(t)
        /\ \A q \in DOMAIN b : q <= AckCursor(s, up_to) <=> q <= up_to
    BY <1>1, <1>5, AckMoves
  <2>2. \A q \in DOMAIN b : b[q] = records[q]
    BY <1>1, <1>5 DEF LogInv, InFlightKept, BatchAcked
  <2>3. {b[q].id : q \in {p \in DOMAIN b : p <= up_to}} = {records[q].id : q \in seqs}
    BY <2>1, <2>2
  <2>4. {q \in seqs : b[q].subject = "storage.usage"} = U
    BY <2>2
  <2>5. /\ taken' = [taken EXCEPT ![s] = @ \cup {b[q].id : q \in {p \in DOMAIN b : p <= up_to}}]
        /\ usage' = [usage EXCEPT !.taken = @ + Cardinality(
                        {q \in seqs : b[q].subject = "storage.usage"})]
        /\ UNCHANGED <<records, offered, lost, usage_lost>>
    BY <1>5 DEF BatchAcked
  <2>6. /\ taken' = [taken EXCEPT ![s] = @ \cup {records[q].id : q \in seqs}]
        /\ usage' = [usage EXCEPT !.taken = @ + Cardinality(U)]
    BY <2>3, <2>4, <2>5
  <2>7. /\ taken'[s] = taken[s] \cup {records[q].id : q \in seqs} /\ lost'[s] = lost[s] \cup {}
        /\ \A t \in Sinks : t # s => taken'[t] = taken[t] /\ lost'[t] = lost[t]
    BY <1>1, <2>5, <2>6 DEF HistoryTypeOK
  <2>8. Cardinality(U) \in Nat
    <3>1. next_seq - 1 \in Nat /\ U \in SUBSET (1..(next_seq - 1))
      BY <1>1, <2>1 DEF Mine, Later, LogTypeOK
    <3> QED BY <3>1, SeqsFinite
  <2>9. IdsKnown'
    <3>1. /\ {records[q].id : q \in seqs} \cup {} = {records[q].id : q \in seqs}
          /\ {records[q].id : q \in seqs} \cap {} = {}
      OBVIOUS
    <3>2. records' = records /\ offered' = offered
      BY <2>5
    <3> HIDE DEF seqs, b, U
    <3> QED BY <1>1, <2>1, <2>7, <3>1, <3>2, SettleIds
  <2>10. UsageBooks'
    <3>1. /\ usage_lost' \in Nat /\ usage' \in [owed : Nat, taken : Nat]
          /\ usage'.owed = usage.owed
          /\ usage'.taken + usage_lost' = usage.taken + usage_lost + Cardinality(U)
      <4> HIDE DEF U
      <4> QED BY <1>1, <2>5, <2>6, <2>8
    <3> HIDE DEF seqs
    <3> QED BY <1>1, <2>1, <2>5, <3>1, SettleUsage
  <2> QED BY <1>2, <1>3, <2>9, <2>10 DEF BooksInv
<1>6. CASE BatchFailed(s)
  <2>1. UNCHANGED <<records, offered, taken, lost, cursor, usage_lost, usage>>
    BY <1>6 DEF BatchFailed, historyVars
  <2> QED BY <1>1, <1>2, <1>3, <2>1, IdsFrame, UsageFrame DEF BooksInv
<1>7. ASSUME NEW up_to \in 1..batch[s].last_seq, BatchAcked(s, up_to) PROVE up_to \in Nat
  BY <1>1, <1>7 DEF BatchAcked, LogInv, BatchExact, LogTypeOK
<1> QED
  BY <1>4, <1>5, <1>6, <1>7 DEF SinkStep, BatchResolved

\* All the books of the stream in memory are right, in every reachable state.
THEOREM LogBooks == LogSpec => []BooksInv
<1>1. LogInit => BooksInv
  <2> SUFFICES ASSUME LogInit PROVE BooksInv
    OBVIOUS
  <2>1. DOMAIN records = {} /\ turn_bytes = 0 /\ node_bytes = 0 /\ offered = 0
        /\ usage = [owed |-> 0, taken |-> 0] /\ usage_lost = 0
    BY DEF LogInit, NoRecords
  <2>2. \A s \in Sinks : Mine(s) = {} /\ taken[s] = {} /\ lost[s] = {}
    BY <2>1 DEF LogInit, Mine, Later
  <2>3. IdsKnown
    BY <2>1, <2>2 DEF IdsKnown, LostNotTaken
  <2>4. UsageBooks
    <3>1. {q \in Mine("SY.storage") : records[q].subject = "storage.usage"} = {}
      BY <2>2, UsageSink
    <3>2. Cardinality({}) = 0
      BY FS_EmptySet
    <3>3. usage.owed = 0 /\ usage.taken = 0 /\ usage \in [owed : Nat, taken : Nat]
      BY <2>1
    <3>4. Cardinality({q \in Mine("SY.storage") : records[q].subject = "storage.usage"}) = 0
      BY <3>1, <3>2
    <3> QED BY <2>1, <3>3, <3>4 DEF UsageBooks, UsageAccounted
  <2>5. BytesBooks
    <3>1. \A f : DOMAIN f = {} => Bytes(f) = 0
      <4> SUFFICES ASSUME NEW f, DOMAIN f = {} PROVE Bytes(f) = 0
        OBVIOUS
      <4>1. {c \in (DOMAIN f) \X (1..MaxSize) : c[2] <= f[c[1]].size} = {}
        OBVIOUS
      <4> QED BY <4>1, FS_EmptySet DEF Bytes
    <3>2. DOMAIN TurnsOf(records) = {} /\ DOMAIN NodesOf(records) = {}
      BY <2>1 DEF TurnsOf, NodesOf, Only
    <3> QED BY <2>1, <3>1, <3>2, ConstantsAssumption DEF BytesBooks, BytesExact, WithinCaps
  <2> QED BY <2>3, <2>4, <2>5, LogInitInv DEF BooksInv
<1>2. BooksInv /\ [LogNext]_logVars => BooksInv'
  <2> SUFFICES ASSUME BooksInv, [LogNext]_logVars PROVE BooksInv'
    OBVIOUS
  <2>1. ASSUME NEW subject \in Appended, NEW size \in Sizes, TakeIncoming(subject, size)
        PROVE  BooksInv'
    <3>1. subject \in Subjects
      BY ConstantsAssumption
    <3> QED BY <2>1, <3>1, TakeIncomingBooks
  <2>2. CASE Trim
    BY <2>2, TrimBooks
  <2>3. ASSUME NEW s \in Sinks, SinkStep(s) PROVE BooksInv'
    BY <2>3, SinkStepBooks
  <2>4. ASSUME UNCHANGED <<sharedVars, historyVars>>, LogInv' PROVE BooksInv'
    <3>1. UNCHANGED <<records, turn_bytes, node_bytes, offered, taken, lost, cursor, usage_lost,
                      usage>>
      BY <2>4 DEF sharedVars, historyVars
    <3>2. BytesBooks'
      BY <3>1 DEF BooksInv, BytesBooks, BytesExact, WithinCaps
    <3> QED BY <2>4, <3>1, <3>2, IdsFrame, UsageFrame DEF BooksInv
  <2>5. ASSUME NEW q \in DOMAIN records, Age(q) PROVE BooksInv'
    BY <2>4, <2>5, AgeInv DEF Age, BooksInv
  <2>6. CASE UNCHANGED logVars
    <3>1. LogInv'
      BY <2>6, LogFrame DEF BooksInv
    <3> QED BY <2>4, <2>6, <3>1 DEF logVars
  <2> QED BY <2>1, <2>2, <2>3, <2>5, <2>6 DEF LogNext
<1> QED
  BY <1>1, <1>2, PTL DEF LogSpec

\* Every usage record offered to the log was taken by SY.storage, is in the
\* status's usage_lost, or still waits.
THEOREM LogUsageAccounted == LogSpec => []UsageAccounted
<1>1. BooksInv => UsageAccounted
  BY DEF BooksInv, UsageBooks
<1> QED
  BY <1>1, LogBooks, PTL

\* No record is counted as lost for a sink that took it.
THEOREM LogLostNotTaken == LogSpec => []LostNotTaken
<1>1. BooksInv => LostNotTaken
  BY DEF BooksInv, IdsKnown
<1> QED
  BY <1>1, LogBooks, PTL

\* The byte counters of Shared are the bytes of the records in the log.
THEOREM LogBytesExact == LogSpec => []BytesExact
<1>1. BooksInv => BytesExact
  BY DEF BooksInv, BytesBooks
<1> QED
  BY <1>1, LogBooks, PTL

\* The turns and the nodes' appends each stay within their share of the cap.
THEOREM LogWithinCaps == LogSpec => []WithinCaps
<1>1. BooksInv => WithinCaps
  BY DEF BooksInv, BytesBooks
<1> QED
  BY <1>1, LogBooks, PTL

================================================================================
