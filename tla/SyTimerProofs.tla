----------------------------- MODULE SyTimerProofs -----------------------------
(***************************************************************************)
(* SY.timer keeps its promises, for any timers, owners, times and number   *)
(* of faults.  The invariant comes in layers, each inductive given those   *)
(* before it:                                                              *)
(*   Types     what every variable holds, and that a process that is down  *)
(*             holds nothing;                                              *)
(*   Held      a row that a goroutine read and will write back: it is the  *)
(*             same timer's, and what is decided about it holds until then;*)
(*   Order     a timer's saved fires are for times before the one it is    *)
(*             pending for, and before the one of the fire in hand;        *)
(*   OnePlace  a saved fire is in one place;                               *)
(*   Refs      no two pending timers share a client_ref, nor will they     *)
(*             when the reschedule in hand is written;                     *)
(*   Promised  what was answered holds of the rows and the fire in hand.   *)
(***************************************************************************)
EXTENDS SyTimer, FiniteSetTheorems, TLAPS

ClientRefs == UNION {{p.client_ref : p \in Templates[t]} : t \in Timers}

Rows ==
    [owner : Owners, client_ref : ClientRefs, kind : {"oneshot", "recurring"},
     missed_policy : {"fire", "drop", "fire_if_within"}, fire_at : Nat,
     status : {"pending", "fired", "canceled"}, stamp : Nat, fire_count : Nat]

Fires == [timer : Timers, scheduled : Nat, count : Nat, attempt : Nat \ {0}, deadline : Nat]

Identities == [timer : Timers, scheduled : Nat, count : Nat]

\* The process that is down holds nothing.
Down ==
    ~up => items = {} /\ retries = {} /\ notices = {} /\ scheduler = Idle /\ request = Idle

Types ==
    /\ now \in 0 .. MaxTime /\ up \in BOOLEAN
    /\ created \subseteq Timers
    /\ rows \in [DOMAIN rows -> Rows] /\ DOMAIN rows \subseteq created
    /\ items \subseteq [timer : created, at : Nat]
    /\ retries \subseteq [at : Nat, fire : Fires]
    /\ scheduler \in {Idle} \cup [at : {"save"}, row : Rows, read_at : Nat, fire : Fires]
                            \cup [at : {"send"}, fire : Fires]
    /\ scheduler.at = "save" => scheduler.fire.timer \in created
    /\ request \in {Idle} \cup [at : {"cancel", "reschedule"}, timer : created, row : Rows,
                                overlapped : BOOLEAN]
    /\ net \subseteq Fires
    /\ notices \subseteq [fire : Fires, transient : BOOLEAN]
    /\ fired \subseteq Identities /\ arrived \subseteq Identities /\ gone \subseteq Identities
    /\ silenced \subseteq created
    /\ agreed \in [DOMAIN agreed -> Nat] /\ DOMAIN agreed \subseteq created
    /\ Down

\* Two rows of one timer: what an update never changes.
SameTimer(a, b) == a.owner = b.owner /\ a.client_ref = b.client_ref /\ a.kind = b.kind

\* The row of the scheduler's next update: the timer goes on to a later instance, or it is done.
SaveHeld ==
    scheduler.at = "save" =>
        LET t == scheduler.fire.timer
            row == scheduler.row
        IN  /\ t \in DOMAIN rows => SameTimer(row, rows[t])
            /\ scheduler.read_at <= now /\ scheduler.fire.scheduled <= now
            /\ row.kind = "recurring" => row.status = "pending" /\ row.fire_at > scheduler.fire.scheduled
            /\ row.kind = "oneshot" => row.status = "fired"

\* The row of the request's update.
RequestHeld ==
    request /= Idle =>
        /\ request.timer \in DOMAIN rows
        /\ SameTimer(request.row, rows[request.timer])
        /\ request.at = "reschedule" => request.row.status = "pending" /\ request.row.kind = "oneshot"

Held == SaveHeld /\ RequestHeld

Order ==
    /\ \A f \in fired : f.scheduled <= now
    /\ \A f \in fired : Pending(f.timer) => f.scheduled < rows[f.timer].fire_at
    /\ scheduler.at = "save" =>
          \A f \in fired : f.timer = scheduler.fire.timer => f.scheduled < scheduler.fire.scheduled
    /\ \A f, g \in fired : f.timer = g.timer /\ f.scheduled = g.scheduled => f = g

\* Every place of every fire, as the place, what is there, and the fire's identity:
\* where a fire waits to go on, and where it waits to be sent again or was given up.
OnItsWay ==
    {<<"hand", s, Identity(s.fire)>> : s \in {s \in {scheduler} : s.at = "send"}}
    \cup {<<"net", fire, Identity(fire)>> : fire \in net}
    \cup {<<"notice", n, Identity(n.fire)>> : n \in notices}
    \cup {<<"arrived", f, f>> : f \in arrived}

Tokens ==
    OnItsWay
    \cup {<<"retry", r, Identity(r.fire)>> : r \in retries}
    \cup {<<"gone", f, f>> : f \in gone}

OnePlace ==
    /\ \A a, b \in Tokens : a[3] = b[3] => a = b
    /\ fired = {a[3] : a \in Tokens}
    /\ doubled = {}

SameRef(a, b) == a.owner = b.owner /\ a.client_ref = b.client_ref /\ a.client_ref /= NoRef

\* The reschedule in hand may be written: nobody else has its client_ref, nor can the
\* scheduler's update give it to another timer, for the index would refuse it.
RescheduleFree ==
    request.at = "reschedule" =>
        /\ \A u \in DOMAIN rows \ {request.timer} : Pending(u) => ~SameRef(request.row, rows[u])
        /\ scheduler.at = "save" /\ scheduler.fire.timer /= request.timer
           /\ scheduler.row.status = "pending" /\ SameRef(request.row, scheduler.row)
             => Pending(request.timer)

Refs == RefsUnique /\ RescheduleFree

\* A timer that was silenced is not pending or fired any more.
Silence ==
    \A t \in silenced : ~Firing(t) /\ (t \in DOMAIN rows => rows[t].status = "canceled")

\* A one-shot is pending, and first sent, for the time that was answered.
Agreement ==
    \A t \in DOMAIN agreed :
        /\ t \in DOMAIN rows => rows[t].kind = "oneshot"
        /\ Pending(t) => rows[t].fire_at = agreed[t]
        /\ Firing(t) /\ scheduler.fire.attempt = 1 => scheduler.fire.scheduled = agreed[t]

Promised ==
    /\ Silence /\ Agreement
    /\ \A r \in retries : r.fire.attempt > 1
    /\ scheduler /= Idle /\ scheduler.fire.attempt = 1 => scheduler.fire.timer \in created
    /\ request /= Idle /\ ~request.overlapped => ~Firing(request.timer)
    /\ request.at = "reschedule" => request.timer \notin silenced

IInv == Types /\ Held /\ Order /\ OnePlace /\ Refs /\ PendingQueued /\ Promised

----------------------------------------------------------------------------
(* Times. *)

\* The lesser of two times is a time.
LEMMA MinOfTwo ==
    ASSUME NEW a \in Nat, NEW b \in Nat
    PROVE  Min({a, b}) \in Nat
  BY DEF Min

\* The next instance of a recurring timer is ahead.
LEMMA NextInstanceAfter ==
    ASSUME NEW n \in Nat
    PROVE  NextInstance(n) \in Nat /\ NextInstance(n) > n
<1> DEFINE q == n \div Period
<1>1. Period \in Nat \ {0}
  BY TimerAssumption
<1>2. q \in Nat /\ n = Period * q + (n % Period) /\ n % Period \in 0 .. Period - 1
  BY <1>1
<1>3. Period * (q + 1) = Period * q + Period /\ Period * q \in Nat
  <2> HIDE DEF q
  <2> QED BY <1>1, <1>2
<1> QED
  BY <1>1, <1>2, <1>3 DEF NextInstance

\* The deadline of a fire is a time.
LEMMA DeadlineIsTime ==
    ASSUME now \in Nat, NEW row \in Rows
    PROVE  DeliveryDeadline(row) \in Nat
<1>1. now + DeliveryRetryWindow \in Nat /\ MissedWithin \in Nat
  BY TimerAssumption
<1>2. row.fire_at + MissedWithin \in Nat /\ NextInstance(now) \in Nat
  BY <1>1, NextInstanceAfter DEF Rows
<1>3. /\ Min({now + DeliveryRetryWindow, NextInstance(now)}) \in Nat
      /\ Min({now + DeliveryRetryWindow, row.fire_at + MissedWithin}) \in Nat
  BY <1>1, <1>2, MinOfTwo
<1>4. row.missed_policy \in {"fire", "drop", "fire_if_within"}
  BY DEF Rows
<1> QED
  BY <1>1, <1>3, <1>4 DEF DeliveryDeadline

----------------------------------------------------------------------------
(* Types. *)

\* What is saved for a fire is a row.
LEMMA FiredRowIsRow ==
    ASSUME now \in Nat, NEW row \in Rows
    PROVE  /\ FiredRow(row) \in Rows
           /\ SameTimer(FiredRow(row), row)
           /\ row.kind = "recurring" => FiredRow(row).status = row.status
                                        /\ FiredRow(row).fire_at = NextInstance(now)
           /\ row.kind = "oneshot" => FiredRow(row).status = "fired"
<1>1. NextInstance(now) \in Nat
  BY NextInstanceAfter
<1> DEFINE counted == [row EXCEPT !.fire_count = @ + 1, !.stamp = now]
<1>2. counted \in Rows /\ SameTimer(counted, row) /\ counted.status = row.status
  <2>1. row.fire_count + 1 \in Nat
    BY DEF Rows
  <2>2. counted = [[row EXCEPT !.fire_count = row.fire_count + 1] EXCEPT !.stamp = now]
    BY DEF Rows
  <2> QED
    BY <2>1, <2>2 DEF Rows, SameTimer
<1>3. FiredRow(row) = IF row.kind = "recurring" THEN [counted EXCEPT !.fire_at = NextInstance(now)]
                      ELSE [counted EXCEPT !.status = "fired"]
  BY DEF FiredRow
<1> HIDE DEF counted
<1> QED
  BY <1>1, <1>2, <1>3 DEF Rows, SameTimer

\* Replaying a row leaves it, moves it to its next instance, or cancels it.
LEMMA ReplayedIsRow ==
    ASSUME now \in Nat, NEW row \in Rows
    PROVE  /\ Replayed(row) \in Rows
           /\ SameTimer(Replayed(row), row)
           /\ row.status /= "pending" => Replayed(row) = row
           /\ row.status = "pending" => Replayed(row).status \in {"pending", "canceled"}
           /\ row.kind = "oneshot" => Replayed(row).fire_at = row.fire_at
           /\ \/ Replayed(row).status /= "pending"
              \/ Replayed(row).fire_at = row.fire_at
              \/ Replayed(row).fire_at > now
<1>1. NextInstance(now) \in Nat /\ NextInstance(now) > now
  BY NextInstanceAfter
<1>2. row.kind \in {"oneshot", "recurring"}
  BY DEF Rows
<1>3. CASE row.status /= "pending"
  BY <1>3 DEF Replayed, SameTimer
<1>4. CASE row.status = "pending" /\ row.kind = "recurring"
  <2>1. Replayed(row) = [row EXCEPT !.fire_at = NextInstance(now)]
    BY <1>4 DEF Replayed
  <2> QED
    BY <1>1, <1>4, <2>1 DEF Rows, SameTimer
<1>5. CASE row.status = "pending" /\ row.kind = "oneshot"
  <2>1. Replayed(row) \in {row, [row EXCEPT !.status = "canceled"]}
    BY <1>5 DEF Replayed
  <2> QED
    BY <1>5, <2>1 DEF Rows, SameTimer
<1> QED
  BY <1>2, <1>3, <1>4, <1>5

\* Another attempt is the same fire.
LEMMA AttemptIsFire ==
    ASSUME NEW fire \in Fires
    PROVE  /\ [fire EXCEPT !.attempt = @ + 1] \in Fires
           /\ Identity([fire EXCEPT !.attempt = @ + 1]) = Identity(fire)
           /\ [fire EXCEPT !.attempt = @ + 1].attempt > 1
           /\ Identity(fire) \in Identities
  BY DEF Fires, Identity, Identities

\* retryLater, for the types: a fire waits or is given up.
LEMMA RetryLaterTypes ==
    ASSUME now \in Nat, NEW fire \in Fires, RetryLater(fire)
    PROVE  \/ /\ now + DeliveryRetryDelay \in Nat
              /\ retries' = retries \cup {[at |-> now + DeliveryRetryDelay,
                                           fire |-> [fire EXCEPT !.attempt = @ + 1]]}
              /\ gone' = gone
           \/ retries' = retries /\ gone' = gone \cup {Identity(fire)}
<1>1. DeliveryRetryDelay \in Nat
  BY TimerAssumption
<1> QED
  BY <1>1 DEF RetryLater

\* At first nothing is there.
LEMMA InitTypes == Init => Types
  BY TimerAssumption DEF Init, Types, Down, Rows, Idle

\* Every step keeps the types.
LEMMA NextTypes ==
    ASSUME Types, [Next]_vars
    PROVE  Types'
<1> USE DEF Types, Down, table, memory, network, bounds, books, answers
<1>0. now \in Nat /\ MaxTime \in Nat /\ StorageRetryDelay \in Nat
  BY TimerAssumption
<1>1. ASSUME NEW t \in Timers, NEW at \in 0 .. MaxTime, NEW p \in Templates[t], Schedule(t, p, at)
      PROVE  Types'
  <2> DEFINE row == [owner |-> p.owner, client_ref |-> p.client_ref, kind |-> p.kind,
                     missed_policy |-> p.missed_policy, fire_at |-> at, status |-> "pending",
                     stamp |-> now, fire_count |-> 0]
  <2>1. row \in Rows
    BY <1>0, TimerAssumption DEF Rows, ClientRefs
  <2>2. rows' = [u \in DOMAIN rows \cup {t} |-> IF u = t THEN row ELSE rows[u]]
    BY <1>1 DEF Schedule
  <2> HIDE DEF row
  <2>3. rows' \in [DOMAIN rows' -> Rows] /\ DOMAIN rows' = DOMAIN rows \cup {t}
    BY <2>1, <2>2
  <2>4. items' \subseteq [timer : created', at : Nat]
    BY <1>0, <1>1 DEF Schedule, Queued
  <2>5. agreed' \in [DOMAIN agreed' -> Nat] /\ DOMAIN agreed' \subseteq created'
    BY <1>0, <1>1 DEF Schedule
  <2> QED
    BY <1>1, <2>3, <2>4, <2>5 DEF Schedule
<1>2. ASSUME NEW t \in Timers, CancelReads(t) \/ RescheduleReads(t)
      PROVE  Types'
  <2>1. PICK verb \in {"cancel", "reschedule"} : Resolve(t, verb)
    BY <1>2 DEF CancelReads, RescheduleReads
  <2>2. Firing(t) \in BOOLEAN /\ rows[t] \in Rows
    BY <2>1 DEF Firing, Resolve
  <2>3. request' \in [at : {"cancel", "reschedule"}, timer : created, row : Rows,
                      overlapped : BOOLEAN]
    BY <2>1, <2>2 DEF Resolve
  <2> QED
    BY <2>1, <2>3 DEF Resolve, Change
<1>3. CASE CancelWrites
  <2>0. request.row \in Rows
    BY <1>3 DEF CancelWrites, Idle
  <2>1. CanceledRow \in Rows
    BY <2>0 DEF CanceledRow, Rows
  <2>2. rows' \in [DOMAIN rows' -> Rows] /\ DOMAIN rows' = DOMAIN rows
    BY <1>3, <2>1 DEF CancelWrites, Updated
  <2>3. silenced' \subseteq created'
    <3>1. request.timer \in created
      BY <1>3 DEF CancelWrites, Idle
    <3> QED
      BY <1>3, <3>1 DEF CancelWrites
  <2> QED
    BY <1>3, <2>2, <2>3 DEF CancelWrites
<1>4. ASSUME NEW at \in 0 .. MaxTime, RescheduleWrites(at)
      PROVE  Types'
  <2>1. request.row \in Rows /\ request.timer \in created
    BY <1>4 DEF RescheduleWrites, Idle
  <2>2. RescheduledRow(at) \in Rows
    BY <2>1, <1>0 DEF RescheduledRow, Rows
  <2>3. rows' \in [DOMAIN rows' -> Rows] /\ DOMAIN rows' = DOMAIN rows
    BY <1>4, <2>2 DEF RescheduleWrites, Updated
  <2>4. items' \subseteq [timer : created', at : Nat]
    BY <1>0, <1>4, <2>1 DEF RescheduleWrites, Queued
  <2>5. agreed' \in [DOMAIN agreed' -> Nat] /\ DOMAIN agreed' \subseteq created'
    BY <1>0, <1>4, <2>1 DEF RescheduleWrites
  <2> QED
    BY <1>4, <2>3, <2>4, <2>5 DEF RescheduleWrites
<1>5. CASE RequestFails
  BY <1>5 DEF RequestFails, Fault
<1>6. ASSUME NEW owner \in Owners, Purge(owner)
      PROVE  Types'
  BY <1>6 DEF Purge, Change
<1>7. ASSUME NEW n \in notices, Undelivered(n)
      PROVE  Types'
  <2>1. n.fire \in Fires /\ Identity(n.fire) \in Identities
    BY AttemptIsFire
  <2>2. \/ RetryLater(n.fire)
        \/ gone' = gone \cup {Identity(n.fire)} /\ retries' = retries
    BY <1>7 DEF Undelivered
  <2>3. retries' \subseteq [at : Nat, fire : Fires] /\ gone' \subseteq Identities
    BY <1>0, <2>1, <2>2, RetryLaterTypes, AttemptIsFire
  <2>4. up
    BY <1>7 DEF Undelivered
  <2> QED
    BY <1>7, <2>3, <2>4 DEF Undelivered
<1>8. ASSUME NEW e \in items, FireReads(e)
      PROVE  Types'
  <2>1. up /\ scheduler = Idle
    BY <1>8 DEF FireReads, Due
  <2>2. CASE Pending(e.timer) /\ rows[e.timer].fire_at <= now
    <3>1. rows[e.timer] \in Rows /\ e.timer \in Timers
      BY <2>2 DEF Pending
    <3>2. /\ FiredRow(rows[e.timer]) \in Rows
          /\ DeliveryDeadline(rows[e.timer]) \in Nat
      BY <1>0, <3>1, FiredRowIsRow, DeadlineIsTime
    <3>3. /\ rows[e.timer].fire_at \in Nat /\ rows[e.timer].fire_count + 1 \in Nat
      BY <3>1 DEF Rows
    <3>4. /\ scheduler' = [at |-> "save", row |-> FiredRow(rows[e.timer]), read_at |-> now,
                           fire |-> [timer |-> e.timer, scheduled |-> rows[e.timer].fire_at,
                                     count |-> rows[e.timer].fire_count + 1, attempt |-> 1,
                                     deadline |-> DeliveryDeadline(rows[e.timer])]]
          /\ items' = items \ {e} /\ Meets(e.timer)
      BY <1>0, <1>8, <2>2, <3>3 DEF FireReads
    <3>5. scheduler' \in [at : {"save"}, row : Rows, read_at : Nat, fire : Fires]
      BY <1>0, <3>1, <3>2, <3>3, <3>4 DEF Fires
    <3>6. request' \in {Idle} \cup [at : {"cancel", "reschedule"}, timer : created, row : Rows,
                                    overlapped : BOOLEAN]
      BY <3>4 DEF Meets
    <3> QED
      BY <1>8, <2>1, <3>4, <3>5, <3>6 DEF FireReads
  <2>3. CASE ~(Pending(e.timer) /\ rows[e.timer].fire_at <= now)
    <3>1. Pending(e.timer) => rows[e.timer].fire_at \in Nat
      BY DEF Pending, Rows
    <3>2. items' \subseteq [timer : created, at : Nat]
      BY <1>8, <2>3, <3>1 DEF FireReads
    <3> QED
      BY <1>8, <2>1, <2>3, <3>2 DEF FireReads
  <2> QED
    BY <2>2, <2>3
<1>9. ASSUME NEW e \in items, FireReadFails(e)
      PROVE  Types'
  BY <1>9 DEF FireReadFails, Fault, Due
<1>10. CASE FireSaves
  <2>1. /\ scheduler \in [at : {"save"}, row : Rows, read_at : Nat, fire : Fires]
        /\ scheduler.row \in Rows /\ scheduler.fire \in Fires /\ up
    BY <1>10 DEF FireSaves, Idle
  <2>2. scheduler.row.fire_at \in Nat /\ Identity(scheduler.fire) \in Identities
    BY <2>1, AttemptIsFire DEF Rows
  <2>3. rows' \in [DOMAIN rows' -> Rows] /\ DOMAIN rows' = DOMAIN rows
    BY <1>10, <2>1 DEF FireSaves, Updated
  <2>4. items' \subseteq [timer : created', at : Nat]
    BY <1>10, <2>1, <2>2 DEF FireSaves, Queued
  <2>5. scheduler' \in [at : {"send"}, fire : Fires]
    BY <1>10, <2>1 DEF FireSaves
  <2> QED
    BY <1>10, <2>1, <2>2, <2>3, <2>4, <2>5 DEF FireSaves
<1>11. CASE FireSaveFails
  <2>1. /\ scheduler \in [at : {"save"}, row : Rows, read_at : Nat, fire : Fires]
        /\ scheduler.read_at + StorageRetryDelay \in Nat /\ up
    BY <1>0, <1>11 DEF FireSaveFails, Idle
  <2>2. items' \subseteq [timer : created', at : Nat]
    BY <1>11, <2>1 DEF FireSaveFails, Queued
  <2> QED
    BY <1>11, <2>1, <2>2 DEF FireSaveFails, Idle
<1>12. CASE Deliver
  <2>1. scheduler.fire \in Fires
    BY <1>12 DEF Deliver, Idle
  <2> QED
    BY <1>12, <2>1 DEF Deliver, Idle
<1>13. CASE SendFails
  <2>0. scheduler.fire \in Fires
    BY <1>13 DEF SendFails, Idle
  <2>1. Identity(scheduler.fire) \in Identities
    BY <2>0, AttemptIsFire
  <2>2. retries' \subseteq [at : Nat, fire : Fires] /\ gone' \subseteq Identities
    BY <1>0, <1>13, <2>0, <2>1, RetryLaterTypes, AttemptIsFire DEF SendFails
  <2> QED
    BY <1>13, <2>2 DEF SendFails, Idle
<1>14. ASSUME NEW r \in retries, RetryFire(r) \/ RetryReadFails(r)
       PROVE  Types'
  <2>1. /\ r.fire \in Fires /\ Identity(r.fire) \in Identities
        /\ [r.fire EXCEPT !.attempt = @ + 1] \in Fires
    BY AttemptIsFire
  <2>2. up /\ scheduler = Idle
    BY <1>14 DEF RetryFire, RetryReadFails, Due
  <2>3. CASE RetryFire(r)
    <3>1. request' \in {Idle} \cup [at : {"cancel", "reschedule"}, timer : created, row : Rows,
                                    overlapped : BOOLEAN]
      BY <2>3 DEF RetryFire, Meets
    <3>2. scheduler' \in {Idle} \cup [at : {"send"}, fire : Fires]
      BY <2>1, <2>2, <2>3 DEF RetryFire
    <3>3. retries' \subseteq retries /\ gone' \subseteq Identities
      BY <2>1, <2>3 DEF RetryFire
    <3> QED
      BY <2>2, <2>3, <3>1, <3>2, <3>3 DEF RetryFire
  <2>4. CASE RetryReadFails(r)
    <3>1. now + DeliveryRetryDelay \in Nat
      BY <1>0, TimerAssumption
    <3>2. retries' \subseteq [at : Nat, fire : Fires] /\ gone' \subseteq Identities
      BY <2>1, <2>4, <3>1 DEF RetryReadFails
    <3> QED
      BY <2>2, <2>4, <3>2 DEF RetryReadFails
  <2> QED
    BY <1>14, <2>3, <2>4
<1>15. CASE Tick
  <2>1. now' \in 0 .. MaxTime
    BY <1>0, <1>15 DEF Tick
  <2> QED
    BY <1>15, <2>1 DEF Tick
<1>16. CASE Stop
  <2>1. InMemory \subseteq Fires
    BY DEF InMemory, Idle
  <2>2. gone' \subseteq Identities
    BY <1>16, <2>1, AttemptIsFire DEF Stop
  <2> QED
    BY <1>16, <2>2 DEF Stop, Idle
<1>17. ASSUME NEW fire \in net, RouterDelivers(fire)
       PROVE  Types'
  BY <1>17, AttemptIsFire DEF RouterDelivers
<1>18. ASSUME NEW fire \in net, NEW transient \in BOOLEAN, RouterRefuses(fire, transient)
       PROVE  Types'
  <2>1. Identity(fire) \in Identities
    BY AttemptIsFire
  <2>2. CASE up
    <3>1. notices' \subseteq [fire : Fires, transient : BOOLEAN]
      BY <1>18, <2>2 DEF RouterRefuses
    <3> QED
      BY <1>18, <2>2, <3>1 DEF RouterRefuses
  <2>3. CASE ~up
    BY <1>18, <2>1, <2>3 DEF RouterRefuses
  <2> QED
    BY <2>2, <2>3
<1>19. CASE Start
  <2>1. Kept \subseteq DOMAIN rows
    BY DEF Kept
  <2>2. \A t \in Kept : Replayed(rows[t]) \in Rows
    BY <1>0, <2>1, ReplayedIsRow
  <2>3. rows' = [t \in Kept |-> Replayed(rows[t])]
    BY <1>19 DEF Start
  <2>4. rows' \in [DOMAIN rows' -> Rows] /\ DOMAIN rows' = Kept
    BY <2>2, <2>3
  <2>5. items' \subseteq [timer : created', at : Nat]
    <3>1. \A t \in Kept : Replayed(rows[t]).fire_at \in Nat /\ t \in created
      BY <2>1, <2>2 DEF Rows
    <3>3. created' = created
      BY <1>19 DEF Start
    <3>2. \A e \in items' : \E t \in Kept : e = [timer |-> t, at |-> Replayed(rows[t]).fire_at]
      BY <1>19 DEF Start
    <3> QED
      BY <1>19, <3>1, <3>2, <3>3
  <2>6. silenced' \subseteq created'
    BY <1>19, <2>1 DEF Start
  <2> QED
    BY <1>19, <2>1, <2>4, <2>5, <2>6 DEF Start
<1>20. ASSUME NEW done \in SUBSET Kept, StartFails(done)
       PROVE  Types'
  <2>1. Kept \subseteq DOMAIN rows
    BY DEF Kept
  <2>2. \A t \in Kept : Replayed(rows[t]) \in Rows
    BY <1>0, <2>1, ReplayedIsRow
  <2>3. rows' \in [DOMAIN rows' -> Rows] /\ DOMAIN rows' = Kept
    BY <1>20, <2>1, <2>2 DEF StartFails
  <2> QED
    BY <1>20, <2>1, <2>3 DEF StartFails, Fault
<1>21. CASE UNCHANGED vars
  BY <1>21 DEF vars
<1> QED
  BY <1>1, <1>2, <1>3, <1>4, <1>5, <1>6, <1>7, <1>8, <1>9, <1>10, <1>11, <1>12, <1>13, <1>14,
     <1>15, <1>16, <1>17, <1>18, <1>19, <1>20, <1>21
     DEF Next, Requests, SchedulerStep, Environment, Boot

----------------------------------------------------------------------------
(* The rows that are held. *)

\* What the scheduler and the request have in hand, by what they are at.
LEMMA InHand ==
    ASSUME Types
    PROVE  /\ now \in Nat
           /\ scheduler.at \in {"idle", "save", "send"}
           /\ scheduler.at = "idle" <=> scheduler = Idle
           /\ scheduler.at = "save" => scheduler.row \in Rows /\ scheduler.read_at \in Nat
           /\ scheduler.at \in {"save", "send"} => scheduler.fire \in Fires
           /\ request.at \in {"idle", "cancel", "reschedule"}
           /\ request.at = "idle" <=> request = Idle
           /\ request /= Idle => /\ request \in [at : {"cancel", "reschedule"}, timer : created,
                                                 row : Rows, overlapped : BOOLEAN]
                                 /\ request.timer \in created /\ request.row \in Rows
                                 /\ request.overlapped \in BOOLEAN
           /\ \A t \in DOMAIN rows : rows[t] \in Rows
  BY TimerAssumption DEF Types, Idle

\* The request in hand when a fire meets it: only `overlapped` changes.
LEMMA MetRequest ==
    ASSUME Types, NEW t, Meets(t)
    PROVE  /\ request = Idle <=> request' = Idle
           /\ request'.at = request.at
           /\ request /= Idle => /\ request'.timer = request.timer /\ request'.row = request.row
                                 /\ request'.overlapped = (request.overlapped \/ request.timer = t)
  BY InHand DEF Meets, Idle

\* A step that changes no row but by an update of the same timer, nor what is held.
LEMMA HeldFrame ==
    ASSUME Types, Held, Types',
           \A t \in DOMAIN rows : t \in DOMAIN rows' => SameTimer(rows'[t], rows[t]),
           \A t \in DOMAIN rows' \ DOMAIN rows : t \notin created,
           now' >= now, scheduler' = scheduler \/ scheduler'.at /= "save",
           request' = Idle \/ (request' = request /\ DOMAIN rows \subseteq DOMAIN rows')
    PROVE  Held'
<1>1. SaveHeld'
  <2> SUFFICES ASSUME scheduler.at = "save", scheduler' = scheduler
               PROVE  SaveHeld'
    BY DEF SaveHeld
  <2>1. scheduler.fire.timer \in created /\ scheduler.fire \in Fires /\ scheduler.read_at \in Nat
        /\ now \in Nat /\ now' \in Nat
    BY InHand, TimerAssumption DEF Types
  <2>2. scheduler.read_at <= now' /\ scheduler.fire.scheduled <= now'
    BY <2>1 DEF Held, SaveHeld, Fires
  <2> QED
    BY <2>1, <2>2 DEF Held, SaveHeld, SameTimer
<1>2. RequestHeld'
  BY DEF Held, RequestHeld, SameTimer
<1> QED
  BY <1>1, <1>2 DEF Held

\* Nothing is held at first.
LEMMA InitHeld == Init => Held
  BY DEF Init, Held, SaveHeld, RequestHeld, Idle

\* Every step keeps what is held.
LEMMA NextHeld ==
    ASSUME Types, Types', Held, [Next]_vars
    PROVE  Held'
<1> USE DEF table
<1>1. now \in Nat /\ now' \in Nat
  BY TimerAssumption DEF Types
<1>2. \A t \in DOMAIN rows : SameTimer(rows[t], rows[t])
  BY DEF SameTimer
<1>3. CASE UNCHANGED <<rows, now, request>> /\ scheduler' \in {scheduler, Idle}
  BY <1>1, <1>2, <1>3, HeldFrame DEF Idle
<1>4. ASSUME NEW t \in Timers, NEW at \in 0 .. MaxTime, NEW p \in Templates[t], Schedule(t, p, at)
      PROVE  Held'
  <2>1. t \notin DOMAIN rows
    BY <1>4 DEF Schedule, Types
  <2>2. /\ \A u \in DOMAIN rows : rows'[u] = rows[u]
        /\ DOMAIN rows' \ DOMAIN rows = {t} /\ t \notin created
    BY <1>4, <2>1 DEF Schedule
  <2> QED
    BY <1>1, <1>2, <1>4, <2>2, HeldFrame DEF Schedule
<1>5. ASSUME NEW t \in Timers, CancelReads(t) \/ RescheduleReads(t)
      PROVE  Held'
  <2>1. PICK verb \in {"cancel", "reschedule"} : Resolve(t, verb) /\
            (verb = "reschedule" => Pending(t) /\ rows[t].kind = "oneshot")
    BY <1>5 DEF CancelReads, RescheduleReads
  <2>2. SaveHeld'
    BY <2>1 DEF Resolve, Held, SaveHeld, SameTimer
  <2>3. RequestHeld'
    BY <2>1 DEF Resolve, RequestHeld, SameTimer, Pending
  <2> QED
    BY <2>2, <2>3 DEF Held
<1>6. CASE CancelWrites
  <2>1. request.row \in Rows /\ request /= Idle
    BY <1>6, InHand DEF CancelWrites, Idle
  <2>2. SameTimer(CanceledRow, request.row)
    BY <2>1 DEF CanceledRow, SameTimer, Rows
  <2>3. rows' = [rows EXCEPT ![request.timer] = CanceledRow]
    BY <1>6, <2>1 DEF CancelWrites, Updated, Held, RequestHeld
  <2>4. \A t \in DOMAIN rows : SameTimer(rows'[t], rows[t])
    BY <2>1, <2>2, <2>3 DEF SameTimer, Held, RequestHeld
  <2>5. DOMAIN rows' = DOMAIN rows
    BY <2>3
  <2> QED
    BY <1>1, <1>6, <2>4, <2>5, HeldFrame DEF CancelWrites
<1>7. ASSUME NEW at \in 0 .. MaxTime, RescheduleWrites(at)
      PROVE  Held'
  <2>1. request.row \in Rows /\ request /= Idle
    BY <1>7, InHand DEF RescheduleWrites, Idle
  <2>2. SameTimer(RescheduledRow(at), request.row)
    BY <2>1 DEF RescheduledRow, SameTimer, Rows
  <2>3. rows' = [rows EXCEPT ![request.timer] = RescheduledRow(at)]
    BY <1>7, <2>1 DEF RescheduleWrites, Updated, Held, RequestHeld
  <2>4. \A t \in DOMAIN rows : SameTimer(rows'[t], rows[t])
    BY <2>1, <2>2, <2>3 DEF SameTimer, Held, RequestHeld
  <2>5. DOMAIN rows' = DOMAIN rows
    BY <2>3
  <2> QED
    BY <1>1, <1>7, <2>4, <2>5, HeldFrame DEF RescheduleWrites
<1>8. CASE RequestFails
  BY <1>1, <1>2, <1>8, HeldFrame DEF RequestFails
<1>9. ASSUME NEW owner \in Owners, Purge(owner)
      PROVE  Held'
  <2>1. request' = Idle /\ now' = now /\ scheduler' = scheduler
    BY <1>9 DEF Purge
  <2>2. DOMAIN rows' \subseteq DOMAIN rows /\ \A t \in DOMAIN rows' : rows'[t] = rows[t]
    BY <1>9 DEF Purge
  <2> QED
    BY <1>1, <1>2, <2>1, <2>2, HeldFrame
<1>10. ASSUME NEW n \in notices, Undelivered(n)
       PROVE  Held'
  BY <1>3, <1>10 DEF Undelivered
<1>11. ASSUME NEW e \in items, FireReads(e)
       PROVE  Held'
  <2>1. CASE Pending(e.timer) /\ rows[e.timer].fire_at <= now
    <3>1. rows[e.timer] \in Rows /\ e.timer \in created /\ e.timer \in DOMAIN rows
      BY <2>1, InHand DEF Pending, Types
    <3>2. /\ scheduler'.row = FiredRow(rows[e.timer]) /\ scheduler'.fire.timer = e.timer
          /\ scheduler'.fire.scheduled = rows[e.timer].fire_at /\ scheduler'.read_at = now
          /\ Meets(e.timer) /\ rows' = rows /\ now' = now
      BY <1>1, <1>11, <2>1, <3>1 DEF FireReads, Rows
    <3>3. NextInstance(now) \in Nat /\ NextInstance(now) > now
      BY <1>1, NextInstanceAfter
    <3>4. SaveHeld'
      <4>1. rows[e.timer].fire_at \in Nat /\ rows[e.timer].status = "pending"
        BY <2>1, <3>1 DEF Rows, Pending
      <4>2. FiredRow(rows[e.timer]).kind = rows[e.timer].kind
        BY <1>1, <3>1, FiredRowIsRow DEF SameTimer
      <4> QED
        BY <1>1, <2>1, <3>1, <3>2, <3>3, <4>1, <4>2, FiredRowIsRow DEF SaveHeld
    <3>5. RequestHeld'
      BY <3>2, MetRequest DEF Held, RequestHeld
    <3> QED
      BY <3>4, <3>5 DEF Held
  <2>2. CASE ~(Pending(e.timer) /\ rows[e.timer].fire_at <= now)
    BY <1>3, <1>11, <2>2 DEF FireReads
  <2> QED
    BY <2>1, <2>2
<1>12. ASSUME NEW e \in items, FireReadFails(e)
       PROVE  Held'
  BY <1>3, <1>12 DEF FireReadFails
<1>13. CASE FireSaves
  <2>1. DOMAIN rows' = DOMAIN rows
    BY <1>13 DEF FireSaves, Updated
  <2>2. \A t \in DOMAIN rows : SameTimer(rows'[t], rows[t])
    BY <1>2, <1>13 DEF FireSaves, Updated, Held, SaveHeld
  <2>3. now' = now /\ scheduler'.at = "send" /\ request' = request
    BY <1>13 DEF FireSaves
  <2> QED
    BY <1>1, <2>1, <2>2, <2>3, HeldFrame
<1>14. CASE FireSaveFails \/ Deliver \/ SendFails
  BY <1>3, <1>14 DEF FireSaveFails, Deliver, SendFails
<1>15. ASSUME NEW r \in retries, RetryFire(r)
       PROVE  Held'
  <2>1. CASE scheduler' = scheduler /\ request' = request
    BY <1>3, <1>15, <2>1 DEF RetryFire
  <2>2. CASE scheduler'.at = "send" /\ Meets(r.fire.timer)
    <3>1. SaveHeld'
      BY <2>2 DEF SaveHeld
    <3>2. RequestHeld'
      BY <1>15, <2>2, MetRequest DEF RetryFire, Held, RequestHeld
    <3> QED
      BY <3>1, <3>2 DEF Held
  <2> QED
    BY <1>15, <2>1, <2>2 DEF RetryFire
<1>16. ASSUME NEW r \in retries, RetryReadFails(r)
       PROVE  Held'
  BY <1>3, <1>16 DEF RetryReadFails
<1>17. CASE Tick
  BY <1>1, <1>2, <1>17, HeldFrame DEF Tick
<1>18. CASE Stop
  BY <1>1, <1>2, <1>18, HeldFrame DEF Stop, Idle
<1>19. ASSUME NEW fire \in net, RouterDelivers(fire)
       PROVE  Held'
  BY <1>3, <1>19 DEF RouterDelivers
<1>20. ASSUME NEW fire \in net, NEW transient \in BOOLEAN, RouterRefuses(fire, transient)
       PROVE  Held'
  BY <1>3, <1>20 DEF RouterRefuses
<1>21. CASE Boot
  <2>1. scheduler' = Idle /\ request' = Idle
    BY <1>21 DEF Boot, Start, StartFails, Types, Down
  <2> QED
    BY <2>1 DEF Held, SaveHeld, RequestHeld, Idle
<1>22. CASE UNCHANGED vars
  BY <1>3, <1>22 DEF vars
<1> QED
  BY <1>4, <1>5, <1>6, <1>7, <1>8, <1>9, <1>10, <1>11, <1>12, <1>13, <1>14,
     <1>15, <1>16, <1>17, <1>18, <1>19, <1>20, <1>21, <1>22
     DEF Next, Requests, SchedulerStep, Environment

----------------------------------------------------------------------------
(* The order of a timer's fires. *)

\* A step that saves no fire and arms timers only for times ahead.
LEMMA OrderFrame ==
    ASSUME Types, Types', Order, fired' = fired, now' >= now,
           \A t \in DOMAIN rows' : Pending(t)' =>
              \/ Pending(t) /\ rows'[t].fire_at = rows[t].fire_at
              \/ rows'[t].fire_at > now,
           scheduler' = scheduler \/ scheduler'.at /= "save"
    PROVE  Order'
<1>1. now \in Nat /\ now' \in Nat /\ \A f \in fired : f.scheduled \in Nat
  BY TimerAssumption DEF Types, Identities
<1>2. \A f \in fired : f.scheduled <= now'
  BY <1>1 DEF Order
<1>3. ASSUME NEW f \in fired, Pending(f.timer)'
      PROVE  f.scheduled < rows'[f.timer].fire_at
  <2>1. f.timer \in DOMAIN rows' /\ rows'[f.timer].fire_at \in Nat
    BY <1>3 DEF Pending, Types, Rows
  <2> QED
    BY <1>1, <1>3, <2>1 DEF Order
<1> QED
  BY <1>2, <1>3 DEF Order

\* Nothing is fired at first.
LEMMA InitOrder == Init => Order
  BY DEF Init, Order, Idle

\* Every step keeps the order.
LEMMA NextOrder ==
    ASSUME Types, Types', Held, Order, [Next]_vars
    PROVE  Order'
<1> USE DEF table, books
<1>1. now \in Nat /\ now' \in Nat
  BY TimerAssumption DEF Types
<1>2. \A t \in DOMAIN rows : rows[t].fire_at \in Nat
  BY DEF Types, Rows
<1>3. CASE UNCHANGED <<rows, now, fired>> /\ (scheduler' = scheduler \/ scheduler'.at /= "save")
  BY <1>1, <1>3, OrderFrame DEF Pending
<1>4. ASSUME NEW t \in Timers, NEW at \in 0 .. MaxTime, NEW p \in Templates[t], Schedule(t, p, at)
      PROVE  Order'
  <2>1. at > now
    <3>1. NextInstance(now) > now /\ NextInstance(now) \in Nat /\ MinTimerDuration \in Nat \ {0}
          /\ MaxTimerDelay \in Nat
      BY <1>1, NextInstanceAfter, TimerAssumption
    <3> QED
      BY <1>1, <1>4, <3>1, TimerAssumption DEF Schedule
  <2>2. /\ DOMAIN rows' = DOMAIN rows \cup {t}
        /\ \A u \in DOMAIN rows' : IF u = t THEN rows'[u].fire_at = at ELSE rows'[u] = rows[u]
    BY <1>4 DEF Schedule
  <2>3. \A u \in DOMAIN rows' : Pending(u)' =>
              \/ Pending(u) /\ rows'[u].fire_at = rows[u].fire_at
              \/ rows'[u].fire_at > now
    BY <2>1, <2>2 DEF Pending
  <2>4. now' = now /\ fired' = fired /\ scheduler' = scheduler
    BY <1>4 DEF Schedule
  <2> QED
    BY <1>1, <2>3, <2>4, OrderFrame
<1>5. ASSUME NEW t \in Timers, CancelReads(t) \/ RescheduleReads(t)
      PROVE  Order'
  BY <1>3, <1>5 DEF CancelReads, RescheduleReads, Resolve
<1>6. CASE CancelWrites
  <2>1. request.row \in Rows /\ request /= Idle
    BY <1>6, InHand DEF CancelWrites, Idle
  <2>2. CanceledRow.status = "canceled"
    BY <2>1 DEF CanceledRow, Rows
  <2>3. \A u \in DOMAIN rows' : Pending(u)' => Pending(u) /\ rows'[u] = rows[u]
    BY <1>6, <2>2 DEF CancelWrites, Updated, Pending
  <2> QED
    BY <1>1, <1>6, <2>3, OrderFrame DEF CancelWrites
<1>7. ASSUME NEW at \in 0 .. MaxTime, RescheduleWrites(at)
      PROVE  Order'
  <2>1. request.row \in Rows /\ request /= Idle
    BY <1>7, InHand DEF RescheduleWrites, Idle
  <2>2. RescheduledRow(at).fire_at = at
    BY <2>1 DEF RescheduledRow, Rows
  <2>3. at > now
    <3>1. MinTimerDuration \in Nat \ {0} /\ MaxTimerDelay \in Nat
      BY TimerAssumption
    <3> QED
      BY <1>1, <1>7, <3>1, TimerAssumption DEF RescheduleWrites
  <2>4. \A u \in DOMAIN rows' : Pending(u)' =>
              \/ Pending(u) /\ rows'[u].fire_at = rows[u].fire_at
              \/ rows'[u].fire_at > now
    BY <1>7, <2>2, <2>3 DEF RescheduleWrites, Updated, Pending
  <2> QED
    BY <1>1, <1>7, <2>4, OrderFrame DEF RescheduleWrites
<1>8. CASE RequestFails
  BY <1>3, <1>8 DEF RequestFails
<1>9. ASSUME NEW owner \in Owners, Purge(owner)
      PROVE  Order'
  <2>1. \A u \in DOMAIN rows' : u \in DOMAIN rows /\ rows'[u] = rows[u]
    BY <1>9 DEF Purge
  <2> QED
    BY <1>1, <1>9, <2>1, OrderFrame DEF Purge, Pending
<1>10. ASSUME NEW n \in notices, Undelivered(n)
       PROVE  Order'
  BY <1>3, <1>10 DEF Undelivered
<1>11. ASSUME NEW e \in items, FireReads(e)
       PROVE  Order'
  <2>1. CASE Pending(e.timer) /\ rows[e.timer].fire_at <= now
    <3>1. e.timer \in DOMAIN rows
      BY <2>1 DEF Pending
    <3>2. /\ scheduler'.fire.timer = e.timer
          /\ scheduler'.fire.scheduled = rows[e.timer].fire_at
          /\ rows' = rows /\ now' = now /\ fired' = fired
      BY <1>1, <1>2, <1>11, <2>1, <3>1 DEF FireReads
    <3> QED
      BY <2>1, <3>2 DEF Order, Pending
  <2>2. CASE ~(Pending(e.timer) /\ rows[e.timer].fire_at <= now)
    BY <1>3, <1>11, <2>2 DEF FireReads
  <2> QED
    BY <2>1, <2>2
<1>12. ASSUME NEW e \in items, FireReadFails(e)
       PROVE  Order'
  BY <1>3, <1>12 DEF FireReadFails
<1>13. CASE FireSaves
  <2> DEFINE fire == scheduler.fire
  <2>1. /\ scheduler.at = "save" /\ scheduler'.at = "send" /\ now' = now
        /\ fired' = fired \cup {Identity(fire)}
        /\ rows' = Updated(fire.timer, scheduler.row)
    BY <1>13 DEF FireSaves
  <2>2. scheduler.row \in Rows /\ fire \in Fires
    BY <2>1, InHand
  <2>3. /\ Identity(fire).timer = fire.timer /\ Identity(fire).scheduled = fire.scheduled
        /\ fire.scheduled \in Nat /\ fire.scheduled <= now /\ scheduler.row.fire_at \in Nat
    BY <2>1, <2>2 DEF Held, SaveHeld, Identity, Fires, Rows
  <2>4. \A f \in fired' : f.scheduled <= now
    BY <2>1, <2>3 DEF Order
  <2>5. ASSUME NEW f \in fired', Pending(f.timer)'
        PROVE  f.scheduled < rows'[f.timer].fire_at
    <3>1. f.timer \in DOMAIN rows /\ f.scheduled \in Nat
      BY <2>1, <2>5 DEF Pending, Updated, Types, Identities
    <3>2. CASE f.timer /= fire.timer
      <4>1. rows'[f.timer] = rows[f.timer] /\ Pending(f.timer)
        BY <2>1, <2>5, <3>1, <3>2 DEF Updated, Pending
      <4>2. f \in fired
        BY <2>1, <2>3, <3>2
      <4> QED
        BY <4>1, <4>2 DEF Order
    <3>3. CASE f.timer = fire.timer
      <4>1. rows'[f.timer] = scheduler.row
        BY <2>1, <3>1, <3>3 DEF Updated
      <4>2. scheduler.row.fire_at > fire.scheduled
        BY <2>1, <2>2, <2>5, <4>1 DEF Pending, Held, SaveHeld, Rows
      <4>3. f.scheduled <= fire.scheduled
        BY <2>1, <2>3, <3>1, <3>3 DEF Order
      <4> QED
        BY <2>3, <3>1, <4>1, <4>2, <4>3
    <3> QED
      BY <3>2, <3>3
  <2>6. \A f, g \in fired' : f.timer = g.timer /\ f.scheduled = g.scheduled => f = g
    BY <2>1, <2>3 DEF Order, Types, Identities
  <2> QED
    BY <2>1, <2>4, <2>5, <2>6 DEF Order
<1>14. CASE FireSaveFails \/ Deliver \/ SendFails
  BY <1>3, <1>14 DEF FireSaveFails, Deliver, SendFails, Idle
<1>15. ASSUME NEW r \in retries, RetryFire(r) \/ RetryReadFails(r)
       PROVE  Order'
  <2>1. scheduler' = scheduler \/ scheduler'.at = "send"
    BY <1>15 DEF RetryFire, RetryReadFails
  <2> QED
    BY <1>3, <1>15, <2>1 DEF RetryFire, RetryReadFails
<1>16. CASE Tick
  BY <1>1, <1>16, OrderFrame DEF Tick, Pending
<1>17. CASE Stop
  BY <1>3, <1>17 DEF Stop, Idle
<1>18. ASSUME NEW fire \in net, RouterDelivers(fire)
       PROVE  Order'
  BY <1>3, <1>18 DEF RouterDelivers
<1>19. ASSUME NEW fire \in net, NEW transient \in BOOLEAN, RouterRefuses(fire, transient)
       PROVE  Order'
  BY <1>3, <1>19 DEF RouterRefuses
<1>20. CASE Boot
  <2>1. now' = now /\ fired' = fired /\ scheduler' = scheduler
    BY <1>20 DEF Boot, Start, StartFails
  <2>2. \A t \in DOMAIN rows' : t \in DOMAIN rows /\ rows'[t] \in {rows[t], Replayed(rows[t])}
    BY <1>20 DEF Boot, Start, StartFails, Kept
  <2>3. \A t \in DOMAIN rows' : Pending(t)' =>
              \/ Pending(t) /\ rows'[t].fire_at = rows[t].fire_at
              \/ rows'[t].fire_at > now
    <3> TAKE t \in DOMAIN rows'
    <3>1. t \in DOMAIN rows /\ rows[t] \in Rows
      BY <2>2, InHand
    <3> QED
      BY <1>1, <2>2, <3>1, ReplayedIsRow DEF Pending
  <2> QED
    BY <1>1, <2>1, <2>3, OrderFrame
<1>21. CASE UNCHANGED vars
  BY <1>3, <1>21 DEF vars
<1> QED
  BY <1>4, <1>5, <1>6, <1>7, <1>8, <1>9, <1>10, <1>11, <1>12, <1>13, <1>14,
     <1>15, <1>16, <1>17, <1>18, <1>19, <1>20, <1>21
     DEF Next, Requests, SchedulerStep, Environment

----------------------------------------------------------------------------
(* A saved fire is in one place. *)

\* A step that moves what is at one place to another, as the same fire.
LEMMA Move ==
    ASSUME OnePlace, NEW a \in Tokens, NEW b, a[3] = b[3],
           Tokens' = (Tokens \ {a}) \cup {b}, fired' = fired, doubled' = {}
    PROVE  OnePlace'
<1>1. \A c, d \in Tokens' : c[3] = d[3] => c = d
  BY DEF OnePlace
<1>2. fired' = {c[3] : c \in Tokens'}
  BY DEF OnePlace
<1> QED
  BY <1>1, <1>2 DEF OnePlace

\* A fire that waits, or is given up, leaves where it was.
LEMMA MoveToRetry ==
    ASSUME OnePlace, now \in Nat, NEW fire \in Fires, NEW a \in OnItsWay, a[3] = Identity(fire),
           OnItsWay' = OnItsWay \ {a}, fired' = fired, doubled' = doubled,
           \/ RetryLater(fire)
           \/ gone' = gone \cup {Identity(fire)} /\ retries' = retries
    PROVE  OnePlace'
<1>1. a \in Tokens /\ doubled = {} /\ a[1] \notin {"retry", "gone"}
  BY DEF Tokens, OnItsWay, OnePlace
<1>2. CASE retries' = retries /\ gone' = gone \cup {Identity(fire)}
  <2> DEFINE b == <<"gone", Identity(fire), Identity(fire)>>
  <2>1. Tokens' = (Tokens \ {a}) \cup {b}
    BY <1>1, <1>2 DEF Tokens
  <2> QED
    BY <1>1, <2>1, Move
<1>3. CASE /\ retries' = retries \cup {[at |-> now + DeliveryRetryDelay,
                                       fire |-> [fire EXCEPT !.attempt = @ + 1]]}
           /\ gone' = gone
  <2> DEFINE r == [at |-> now + DeliveryRetryDelay, fire |-> [fire EXCEPT !.attempt = @ + 1]]
             b == <<"retry", r, Identity(r.fire)>>
  <2>1. Tokens' = (Tokens \ {a}) \cup {b}
    <3> HIDE DEF r
    <3> QED BY <1>1, <1>3 DEF Tokens, r
  <2>2. Identity(r.fire) = Identity(fire)
    BY AttemptIsFire
  <2> QED
    BY <1>1, <2>1, <2>2, Move
<1> QED
  BY <1>2, <1>3, RetryLaterTypes

\* Nothing is saved at first.
LEMMA InitOnePlace == Init => OnePlace
<1> SUFFICES ASSUME Init PROVE OnePlace
  OBVIOUS
<1>1. Tokens = {}
  BY DEF Init, Tokens, OnItsWay, Idle
<1> QED
  BY <1>1 DEF Init, OnePlace

\* A step that moves no fire.
LEMMA TokensFrame ==
    ASSUME OnePlace, UNCHANGED <<net, notices, retries, books>>,
           scheduler' = scheduler \/ (scheduler.at /= "send" /\ scheduler'.at /= "send")
    PROVE  OnePlace'
<1>1. {s \in {scheduler} : s.at = "send"}' = {s \in {scheduler} : s.at = "send"}
  OBVIOUS
<1>2. Tokens' = Tokens
  BY <1>1 DEF Tokens, OnItsWay, books
<1> QED
  BY <1>2 DEF OnePlace, books

\* Every step keeps the saved fires in one place each.
LEMMA NextOnePlace ==
    ASSUME Types, Types', Held, Order, OnePlace, [Next]_vars
    PROVE  OnePlace'
<1> USE DEF table, memory, network, books
<1>1. now \in Nat /\ doubled = {}
  BY TimerAssumption DEF Types, OnePlace
<1>2. CASE UNCHANGED <<net, notices, retries, books>> /\ scheduler' = scheduler
  BY <1>2, TokensFrame
<1>3. ASSUME NEW t \in Timers, NEW at \in 0 .. MaxTime, NEW p \in Templates[t], Schedule(t, p, at)
      PROVE  OnePlace'
  BY <1>2, <1>3 DEF Schedule
<1>4. ASSUME NEW t \in Timers, CancelReads(t) \/ RescheduleReads(t)
      PROVE  OnePlace'
  BY <1>2, <1>4 DEF CancelReads, RescheduleReads, Resolve
<1>5. CASE CancelWrites \/ RequestFails
  BY <1>2, <1>5 DEF CancelWrites, RequestFails
<1>6. ASSUME NEW at \in 0 .. MaxTime, RescheduleWrites(at)
      PROVE  OnePlace'
  BY <1>2, <1>6 DEF RescheduleWrites
<1>7. ASSUME NEW owner \in Owners, Purge(owner)
      PROVE  OnePlace'
  BY <1>2, <1>7 DEF Purge
<1>8. ASSUME NEW n \in notices, Undelivered(n)
      PROVE  OnePlace'
  <2> DEFINE a == <<"notice", n, Identity(n.fire)>>
  <2>1. a \in OnItsWay /\ n.fire \in Fires
    BY DEF OnItsWay, Types
  <2>2. /\ notices' = notices \ {n} /\ net' = net /\ scheduler' = scheduler /\ arrived' = arrived
        /\ fired' = fired /\ doubled' = doubled
    BY <1>8 DEF Undelivered
  <2>3. \/ RetryLater(n.fire)
        \/ gone' = gone \cup {Identity(n.fire)} /\ retries' = retries
    BY <1>8 DEF Undelivered
  <2>4. OnItsWay' = OnItsWay \ {a}
    BY <2>2 DEF OnItsWay
  <2> QED
    BY <1>1, <2>1, <2>2, <2>3, <2>4, MoveToRetry
<1>9. ASSUME NEW e \in items, FireReads(e) \/ FireReadFails(e)
      PROVE  OnePlace'
  <2>1. scheduler.at /= "send" /\ scheduler'.at /= "send"
    BY <1>9 DEF FireReads, FireReadFails, Due, Idle
  <2> QED
    BY <1>9, <2>1, TokensFrame DEF FireReads, FireReadFails
<1>10. CASE FireSaves
  <2> DEFINE b == <<"hand", scheduler', Identity(scheduler.fire)>>
  <2>1. /\ scheduler.at = "save" /\ scheduler' = [at |-> "send", fire |-> scheduler.fire]
        /\ fired' = fired \cup {Identity(scheduler.fire)}
        /\ UNCHANGED <<net, notices, retries, arrived, gone, doubled>>
    BY <1>10 DEF FireSaves
  <2>2. Tokens' = Tokens \cup {b}
    <3>1. {s \in {scheduler} : s.at = "send"} = {} /\ {s \in {scheduler} : s.at = "send"}' = {scheduler'}
      BY <2>1
    <3> QED
      BY <2>1, <3>1 DEF Tokens, OnItsWay
  <2>3. Identity(scheduler.fire) \notin fired
    BY <2>1, InHand DEF Order, Identity, Fires
  <2>4. \A c, d \in Tokens' : c[3] = d[3] => c = d
    BY <2>2, <2>3 DEF OnePlace
  <2>5. fired' = {c[3] : c \in Tokens'}
    <3>1. b[3] = Identity(scheduler.fire)
      OBVIOUS
    <3> HIDE DEF b
    <3> QED
      BY <2>1, <2>2, <3>1 DEF OnePlace
  <2> QED
    BY <2>1, <2>4, <2>5 DEF OnePlace
<1>11. CASE FireSaveFails
  <2>1. scheduler.at /= "send" /\ scheduler'.at /= "send"
    BY <1>11 DEF FireSaveFails, Idle
  <2> QED
    BY <1>11, <2>1, TokensFrame DEF FireSaveFails
<1>12. CASE Deliver
  <2> DEFINE a == <<"hand", scheduler, Identity(scheduler.fire)>>
             b == <<"net", scheduler.fire, Identity(scheduler.fire)>>
  <2>1. /\ scheduler.at = "send" /\ scheduler' = Idle /\ net' = net \cup {scheduler.fire}
        /\ UNCHANGED <<notices, retries, books>>
    BY <1>12 DEF Deliver
  <2>2. a \in Tokens
    BY <2>1 DEF Tokens, OnItsWay
  <2>3. Tokens' = (Tokens \ {a}) \cup {b}
    BY <2>1 DEF Tokens, OnItsWay, Idle
  <2> QED
    BY <1>1, <2>1, <2>2, <2>3, Move
<1>13. CASE SendFails
  <2> DEFINE a == <<"hand", scheduler, Identity(scheduler.fire)>>
  <2>1. /\ scheduler.at = "send" /\ scheduler' = Idle /\ RetryLater(scheduler.fire)
        /\ UNCHANGED <<net, notices, fired, arrived, doubled>>
    BY <1>13 DEF SendFails
  <2>2. a \in OnItsWay /\ scheduler.fire \in Fires
    BY <2>1, InHand DEF OnItsWay
  <2>3. OnItsWay' = OnItsWay \ {a}
    BY <2>1 DEF OnItsWay, Idle
  <2> QED
    BY <1>1, <2>1, <2>2, <2>3, MoveToRetry
<1>14. ASSUME NEW r \in retries, RetryFire(r)
       PROVE  OnePlace'
  <2> DEFINE a == <<"retry", r, Identity(r.fire)>>
  <2>1. a \in Tokens
    BY DEF Tokens
  <2>2. /\ scheduler = Idle /\ retries' = retries \ {r}
        /\ UNCHANGED <<net, notices, fired, arrived, doubled>>
    BY <1>14 DEF RetryFire, Due
  <2>3. CASE scheduler' = [at |-> "send", fire |-> r.fire] /\ gone' = gone
    <3> DEFINE b == <<"hand", scheduler', Identity(r.fire)>>
    <3>1. {s \in {scheduler} : s.at = "send"} = {} /\ {s \in {scheduler} : s.at = "send"}' = {scheduler'}
      BY <2>2, <2>3 DEF Idle
    <3>2. Tokens' = (Tokens \ {a}) \cup {b}
      BY <2>2, <2>3, <3>1 DEF Tokens, OnItsWay
    <3> QED
      BY <1>1, <2>1, <2>2, <3>2, Move
  <2>4. CASE scheduler' = scheduler /\ gone' = gone \cup {Identity(r.fire)}
    <3> DEFINE b == <<"gone", Identity(r.fire), Identity(r.fire)>>
    <3>1. Tokens' = (Tokens \ {a}) \cup {b}
      BY <2>2, <2>4 DEF Tokens, OnItsWay
    <3> QED
      BY <1>1, <2>1, <2>2, <3>1, Move
  <2> QED
    BY <1>14, <2>3, <2>4 DEF RetryFire
<1>15. ASSUME NEW r \in retries, RetryReadFails(r)
       PROVE  OnePlace'
  <2> DEFINE a == <<"retry", r, Identity(r.fire)>>
             next == [at |-> now + DeliveryRetryDelay, fire |-> [r.fire EXCEPT !.attempt = @ + 1]]
  <2>1. a \in Tokens /\ r.fire \in Fires
    BY DEF Tokens, Types
  <2>2. UNCHANGED <<scheduler, net, notices, fired, arrived, doubled>>
    BY <1>15 DEF RetryReadFails
  <2>3. OnItsWay' = OnItsWay
    BY <2>2 DEF OnItsWay
  <2>4. CASE retries' = retries \ {r} /\ gone' = gone \cup {Identity(r.fire)}
    <3> DEFINE b == <<"gone", Identity(r.fire), Identity(r.fire)>>
    <3>1. Tokens' = (Tokens \ {a}) \cup {b}
      BY <2>3, <2>4 DEF Tokens, OnItsWay
    <3> QED
      BY <1>1, <2>1, <2>2, <3>1, Move
  <2>5. CASE retries' = (retries \ {r}) \cup {next} /\ gone' = gone
    <3> DEFINE b == <<"retry", next, Identity(next.fire)>>
    <3>1. Identity(next.fire) = Identity(r.fire)
      BY <2>1, AttemptIsFire
    <3> HIDE DEF next
    <3>2. Tokens' = (Tokens \ {a}) \cup {b}
      BY <2>3, <2>5 DEF Tokens, OnItsWay
    <3> QED
      BY <1>1, <2>1, <2>2, <3>1, <3>2, Move
  <2> QED
    BY <1>15, <2>4, <2>5 DEF RetryReadFails
<1>16. CASE Tick
  BY <1>2, <1>16 DEF Tick
<1>17. CASE Stop
  <2> DEFINE Lost(a) == <<"gone", a[3], a[3]>>
             kept == {a \in Tokens : a[1] \in {"net", "arrived", "gone"}}
             lost == {a \in Tokens : a[1] \in {"hand", "notice", "retry"}}
  <2>1. /\ gone' = gone \cup {Identity(fire) : fire \in InMemory}
        /\ scheduler' = Idle /\ notices' = {} /\ retries' = {}
        /\ UNCHANGED <<net, fired, arrived, doubled>>
    BY <1>17 DEF Stop
  <2>2. {Identity(fire) : fire \in InMemory} = {a[3] : a \in lost}
    <3>1. \A a \in lost : \E fire \in InMemory : a[3] = Identity(fire)
      BY DEF Tokens, OnItsWay, InMemory
    <3>2. \A fire \in InMemory : \E a \in lost : a[3] = Identity(fire)
      <4> TAKE fire \in InMemory
      <4>1. CASE scheduler.at = "send" /\ fire = scheduler.fire
        <5>1. <<"hand", scheduler, Identity(fire)>> \in lost
          BY <4>1 DEF Tokens, OnItsWay
        <5> QED
          BY <5>1
      <4>2. ASSUME NEW r \in retries, fire = r.fire
            PROVE  \E a \in lost : a[3] = Identity(fire)
        <5>1. <<"retry", r, Identity(fire)>> \in lost
          BY <4>2 DEF Tokens
        <5> QED
          BY <5>1
      <4>3. ASSUME NEW n \in notices, fire = n.fire
            PROVE  \E a \in lost : a[3] = Identity(fire)
        <5>1. <<"notice", n, Identity(fire)>> \in lost
          BY <4>3 DEF Tokens, OnItsWay
        <5> QED
          BY <5>1
      <4> QED
        BY <4>1, <4>2, <4>3 DEF InMemory
    <3> QED
      BY <3>1, <3>2
  <2>3. Tokens = kept \cup lost
    BY DEF Tokens, OnItsWay
  <2>4. Tokens' = kept \cup {Lost(a) : a \in lost}
    <3>1. kept = {<<"net", fire, Identity(fire)>> : fire \in net}
                 \cup {<<"arrived", f, f>> : f \in arrived} \cup {<<"gone", f, f>> : f \in gone}
      BY DEF Tokens, OnItsWay
    <3>2. Tokens' = {<<"net", fire, Identity(fire)>> : fire \in net}
                    \cup {<<"arrived", f, f>> : f \in arrived} \cup {<<"gone", f, f>> : f \in gone'}
      BY <2>1 DEF Tokens, OnItsWay, Idle
    <3>3. gone' = gone \cup {a[3] : a \in lost}
      BY <2>1, <2>2
    <3> HIDE DEF kept, lost
    <3> QED
      BY <3>1, <3>2, <3>3
  <2>5. \A a \in kept, b \in lost : a /= b
    OBVIOUS
  <2> HIDE DEF kept, lost
  <2>6. \A c, d \in Tokens' : c[3] = d[3] => c = d
    BY <2>3, <2>4, <2>5 DEF OnePlace
  <2>7. fired' = {c[3] : c \in Tokens'}
    <3>1. \A a : Lost(a)[3] = a[3]
      OBVIOUS
    <3>2. {c[3] : c \in {Lost(a) : a \in lost}} = {c[3] : c \in lost}
      BY <3>1
    <3>3. {c[3] : c \in Tokens'} = {c[3] : c \in kept} \cup {c[3] : c \in {Lost(a) : a \in lost}}
      BY <2>4
    <3>4. {c[3] : c \in Tokens} = {c[3] : c \in kept} \cup {c[3] : c \in lost}
      BY <2>3
    <3> QED
      BY <2>1, <3>2, <3>3, <3>4 DEF OnePlace
  <2> QED
    BY <1>1, <2>1, <2>6, <2>7 DEF OnePlace
<1>18. ASSUME NEW fire \in net, RouterDelivers(fire)
       PROVE  OnePlace'
  <2> DEFINE a == <<"net", fire, Identity(fire)>>
             b == <<"arrived", Identity(fire), Identity(fire)>>
  <2>1. a \in Tokens
    BY DEF Tokens, OnItsWay
  <2>2. /\ net' = net \ {fire} /\ arrived' = arrived \cup {Identity(fire)}
        /\ UNCHANGED <<scheduler, retries, notices, fired, gone>>
        /\ doubled' = doubled \cup ({Identity(fire)} \cap arrived)
    BY <1>18 DEF RouterDelivers
  <2>3. doubled' = {}
    <3>1. ASSUME Identity(fire) \in arrived PROVE FALSE
      <4>1. b \in Tokens
        BY <3>1 DEF Tokens, OnItsWay
      <4>2. a = b
        BY <2>1, <4>1 DEF OnePlace
      <4> QED
        BY <4>2
    <3> QED
      BY <1>1, <2>2, <3>1
  <2>4. Tokens' = (Tokens \ {a}) \cup {b}
    BY <2>2 DEF Tokens, OnItsWay
  <2> QED
    BY <2>1, <2>2, <2>3, <2>4, Move
<1>19. ASSUME NEW fire \in net, NEW transient \in BOOLEAN, RouterRefuses(fire, transient)
       PROVE  OnePlace'
  <2> DEFINE a == <<"net", fire, Identity(fire)>>
             n == [fire |-> fire, transient |-> transient]
  <2>1. a \in Tokens
    BY DEF Tokens, OnItsWay
  <2>2. net' = net \ {fire} /\ UNCHANGED <<scheduler, retries, fired, arrived, doubled>>
    BY <1>19 DEF RouterRefuses
  <2>3. CASE up
    <3> DEFINE b == <<"notice", n, Identity(n.fire)>>
    <3>1. notices' = notices \cup {n} /\ gone' = gone
      BY <1>19, <2>3 DEF RouterRefuses
    <3>2. n.fire = fire
      OBVIOUS
    <3> HIDE DEF n
    <3>3. Tokens' = (Tokens \ {a}) \cup {b}
      BY <2>2, <3>1 DEF Tokens, OnItsWay
    <3> QED
      BY <1>1, <2>1, <2>2, <3>2, <3>3, Move
  <2>4. CASE ~up
    <3> DEFINE b == <<"gone", Identity(fire), Identity(fire)>>
    <3>1. notices' = notices /\ gone' = gone \cup {Identity(fire)}
      BY <1>19, <2>4 DEF RouterRefuses
    <3>2. Tokens' = (Tokens \ {a}) \cup {b}
      BY <2>2, <3>1 DEF Tokens, OnItsWay
    <3> QED
      BY <1>1, <2>1, <2>2, <3>2, Move
  <2> QED
    BY <2>3, <2>4
<1>20. CASE Boot
  BY <1>2, <1>20 DEF Boot, Start, StartFails
<1>21. CASE UNCHANGED vars
  BY <1>2, <1>21 DEF vars
<1> QED
  BY <1>3, <1>4, <1>5, <1>6, <1>7, <1>8, <1>9, <1>10, <1>11, <1>12, <1>13, <1>14,
     <1>15, <1>16, <1>17, <1>18, <1>19, <1>20, <1>21
     DEF Next, Requests, SchedulerStep, Environment

----------------------------------------------------------------------------
(* One pending timer per client_ref. *)

\* A step after which no timer is pending that was not, and whose request is done, or
\* as it was while the scheduler starts no update.
LEMMA RefsFrame ==
    ASSUME Types, Types', Held, Held', Refs,
           \A t \in DOMAIN rows' : t \in DOMAIN rows /\ SameTimer(rows'[t], rows[t]),
           \A t \in DOMAIN rows' : Pending(t)' => Pending(t),
           \/ request'.at /= "reschedule"
           \/ /\ request'.at = request.at /\ request'.timer = request.timer /\ request'.row = request.row
              /\ rows' = rows
              /\ scheduler' = scheduler \/ scheduler'.at /= "save"
    PROVE  Refs'
<1>1. RefsUnique'
  BY DEF Refs, RefsUnique, SameTimer
<1>2. RescheduleFree'
  BY DEF Refs, RescheduleFree, Pending
<1> QED
  BY <1>1, <1>2 DEF Refs

\* There are no timers at first.
LEMMA InitRefs == Init => Refs
  BY DEF Init, Refs, RefsUnique, RescheduleFree, Idle

\* Every step keeps the client_refs unique.
LEMMA NextRefs ==
    ASSUME Types, Types', Held, Held', Refs, [Next]_vars
    PROVE  Refs'
<1> USE DEF table
<1>1. \A t \in DOMAIN rows : SameTimer(rows[t], rows[t])
  BY DEF SameTimer
<1>2. CASE UNCHANGED <<rows, request>> /\ (scheduler' = scheduler \/ scheduler'.at /= "save")
  BY <1>1, <1>2, RefsFrame DEF Pending
<1>3. CASE request'.at /= "reschedule" /\ RefsUnique'
  BY <1>3 DEF Refs, RescheduleFree
<1>4. ASSUME NEW t \in Timers, NEW at \in 0 .. MaxTime, NEW p \in Templates[t], Schedule(t, p, at)
      PROVE  Refs'
  <2>1. request'.at /= "reschedule"
    BY <1>4 DEF Schedule, Idle
  <2>2. /\ DOMAIN rows' = DOMAIN rows \cup {t} /\ t \notin DOMAIN rows
        /\ rows'[t].owner = p.owner /\ rows'[t].client_ref = p.client_ref
        /\ \A u \in DOMAIN rows : rows'[u] = rows[u]
    BY <1>4 DEF Schedule, Types
  <2>3. p.client_ref /= NoRef => ~\E u \in DOMAIN rows :
            Pending(u) /\ rows[u].owner = p.owner /\ rows[u].client_ref = p.client_ref
    BY <1>4, <2>2 DEF Schedule, RefFree
  <2>4. RefsUnique'
    BY <2>2, <2>3 DEF Refs, RefsUnique, Pending
  <2> QED
    BY <1>3, <2>1, <2>4
<1>5. ASSUME NEW t \in Timers, CancelReads(t)
      PROVE  Refs'
  <2>1. request'.at /= "reschedule" /\ rows' = rows
    BY <1>5 DEF CancelReads, Resolve
  <2> QED
    BY <1>3, <2>1 DEF Refs, RefsUnique, Pending
<1>6. ASSUME NEW t \in Timers, RescheduleReads(t)
      PROVE  Refs'
  <2>1. /\ request'.timer = t /\ request'.row = rows[t] /\ rows' = rows /\ Pending(t)
        /\ scheduler' = scheduler
    BY <1>6 DEF RescheduleReads, Resolve
  <2>2. RescheduleFree'
    BY <2>1 DEF Refs, RefsUnique, RescheduleFree, SameRef, Pending
  <2>3. RefsUnique'
    BY <2>1 DEF Refs, RefsUnique, Pending
  <2> QED
    BY <2>2, <2>3 DEF Refs
<1>7. CASE CancelWrites
  <2>1. request.row \in Rows /\ request /= Idle
    BY <1>7, InHand DEF CancelWrites, Idle
  <2>2. CanceledRow.status = "canceled"
    BY <2>1 DEF CanceledRow, Rows
  <2>3. RefsUnique'
    BY <1>7, <2>2 DEF CancelWrites, Updated, Pending, Refs, RefsUnique
  <2> QED
    BY <1>3, <1>7, <2>3 DEF CancelWrites, Idle
<1>8. ASSUME NEW at \in 0 .. MaxTime, RescheduleWrites(at)
      PROVE  Refs'
  <2>1. request.row \in Rows /\ request /= Idle /\ request.at = "reschedule"
    BY <1>8, InHand DEF RescheduleWrites, Idle
  <2>2. /\ RescheduledRow(at).owner = request.row.owner
        /\ RescheduledRow(at).client_ref = request.row.client_ref
    BY <2>1 DEF RescheduledRow, Rows
  <2>3. rows' = [rows EXCEPT ![request.timer] = RescheduledRow(at)] /\ request.timer \in DOMAIN rows
    BY <1>8, <2>1 DEF RescheduleWrites, Updated, Held, RequestHeld
  <2>4. RefsUnique'
    BY <2>1, <2>2, <2>3 DEF Refs, RefsUnique, RescheduleFree, SameRef, Pending
  <2> QED
    BY <1>3, <1>8, <2>4 DEF RescheduleWrites, Idle
<1>9. CASE RequestFails
  BY <1>3, <1>9 DEF RequestFails, Idle, Refs, RefsUnique, Pending
<1>10. ASSUME NEW owner \in Owners, Purge(owner)
       PROVE  Refs'
  <2>1. request'.at /= "reschedule"
    BY <1>10 DEF Purge, Idle
  <2>2. \A t \in DOMAIN rows' : t \in DOMAIN rows /\ rows'[t] = rows[t]
    BY <1>10 DEF Purge
  <2> QED
    BY <1>1, <2>1, <2>2, RefsFrame DEF Pending
<1>11. ASSUME NEW n \in notices, Undelivered(n)
       PROVE  Refs'
  BY <1>2, <1>11 DEF Undelivered
<1>12. ASSUME NEW e \in items, FireReads(e)
       PROVE  Refs'
  <2>1. CASE Pending(e.timer) /\ rows[e.timer].fire_at <= now
    <3>1. rows[e.timer] \in Rows /\ e.timer \in DOMAIN rows /\ now \in Nat
      BY <2>1, InHand DEF Pending
    <3>2. /\ scheduler'.row = FiredRow(rows[e.timer]) /\ scheduler'.fire.timer = e.timer
          /\ Meets(e.timer) /\ rows' = rows
      BY <1>12, <2>1, <3>1 DEF FireReads, Rows
    <3>3. SameTimer(FiredRow(rows[e.timer]), rows[e.timer])
      BY <3>1, FiredRowIsRow
    <3>4. RescheduleFree'
      <4>1. SUFFICES ASSUME request'.at = "reschedule" PROVE RescheduleFree'
        BY DEF RescheduleFree
      <4>2. /\ request.at = "reschedule" /\ request'.timer = request.timer
            /\ request'.row = request.row
        BY <3>2, <4>1, MetRequest DEF Idle
      <4> QED
        BY <2>1, <3>1, <3>2, <3>3, <4>2 DEF Refs, RescheduleFree, SameRef, SameTimer, Pending
    <3>5. RefsUnique'
      BY <3>2 DEF Refs, RefsUnique, Pending
    <3> QED
      BY <3>4, <3>5 DEF Refs
  <2>2. CASE ~(Pending(e.timer) /\ rows[e.timer].fire_at <= now)
    BY <1>2, <1>12, <2>2 DEF FireReads
  <2> QED
    BY <2>1, <2>2
<1>13. ASSUME NEW e \in items, FireReadFails(e)
       PROVE  Refs'
  BY <1>2, <1>13 DEF FireReadFails
<1>14. CASE FireSaves
  <2> DEFINE t == scheduler.fire.timer
             row == scheduler.row
  <2>1. /\ scheduler.at = "save" /\ scheduler'.at = "send" /\ request' = request
        /\ rows' = Updated(t, row) /\ (t \in DOMAIN rows => RefFree(t, row))
    BY <1>14 DEF FireSaves, Updatable
  <2>2. CASE t \notin DOMAIN rows
    BY <1>2, <2>1, <2>2 DEF Updated
  <2>3. CASE t \in DOMAIN rows
    <3>1. /\ DOMAIN rows' = DOMAIN rows /\ rows'[t] = row
          /\ \A u \in DOMAIN rows \ {t} : rows'[u] = rows[u]
      BY <2>1, <2>3 DEF Updated
    <3>2. RefsUnique'
      BY <2>1, <2>3, <3>1 DEF Refs, RefsUnique, RefFree, Pending
    <3>3. RescheduleFree'
      <4>1. SUFFICES ASSUME request.at = "reschedule", NEW u \in DOMAIN rows \ {request.timer},
                            Pending(u)', SameRef(request.row, rows'[u])
                     PROVE  FALSE
        BY <2>1, <3>1 DEF RescheduleFree
      <4>2. CASE u /= t
        BY <2>1, <3>1, <4>1, <4>2 DEF Refs, RescheduleFree, Pending
      <4>3. CASE u = t
        <5>1. row.status = "pending" /\ SameRef(request.row, row)
          BY <3>1, <4>1, <4>3 DEF Pending
        <5>2. Pending(request.timer)
          BY <2>1, <4>1, <4>3, <5>1 DEF Refs, RescheduleFree
        <5>3. SameTimer(request.row, rows[request.timer]) /\ request.timer \in DOMAIN rows
          BY <4>1 DEF Held, RequestHeld, Idle
        <5> QED
          BY <2>1, <2>3, <4>1, <4>3, <5>1, <5>2, <5>3 DEF RefFree, SameTimer, SameRef
      <4> QED
        BY <4>2, <4>3
    <3> QED
      BY <3>2, <3>3 DEF Refs
  <2> QED
    BY <2>2, <2>3
<1>15. CASE FireSaveFails \/ Deliver \/ SendFails
  BY <1>2, <1>15 DEF FireSaveFails, Deliver, SendFails, Idle
<1>16. ASSUME NEW r \in retries, RetryFire(r)
       PROVE  Refs'
  <2>1. CASE scheduler' = scheduler /\ request' = request
    BY <1>2, <1>16, <2>1 DEF RetryFire
  <2>2. CASE scheduler'.at = "send" /\ Meets(r.fire.timer)
    <3>1. rows' = rows
      BY <1>16 DEF RetryFire
    <3>2. \/ request'.at /= "reschedule"
          \/ request'.at = request.at /\ request'.timer = request.timer /\ request'.row = request.row
      BY <2>2, MetRequest DEF Idle
    <3> QED
      BY <1>1, <2>2, <3>1, <3>2, RefsFrame DEF Pending
  <2> QED
    BY <1>16, <2>1, <2>2 DEF RetryFire
<1>17. ASSUME NEW r \in retries, RetryReadFails(r)
       PROVE  Refs'
  BY <1>2, <1>17 DEF RetryReadFails
<1>18. CASE Tick
  BY <1>2, <1>18 DEF Tick
<1>19. CASE Stop
  BY <1>3, <1>19 DEF Stop, Idle, Refs, RefsUnique, Pending
<1>20. ASSUME NEW fire \in net, RouterDelivers(fire)
       PROVE  Refs'
  BY <1>2, <1>20 DEF RouterDelivers
<1>21. ASSUME NEW fire \in net, NEW transient \in BOOLEAN, RouterRefuses(fire, transient)
       PROVE  Refs'
  BY <1>2, <1>21 DEF RouterRefuses
<1>22. CASE Boot
  <2>1. request'.at /= "reschedule"
    BY <1>22 DEF Boot, Start, StartFails, Types, Down, Idle
  <2>2. \A t \in DOMAIN rows' : t \in DOMAIN rows /\ rows'[t] \in {rows[t], Replayed(rows[t])}
    BY <1>22 DEF Boot, Start, StartFails, Kept
  <2>3. ASSUME NEW t \in DOMAIN rows'
        PROVE  SameTimer(rows'[t], rows[t]) /\ (Pending(t)' => Pending(t))
    <3>1. t \in DOMAIN rows /\ rows[t] \in Rows /\ now \in Nat
      BY <2>2, InHand
    <3> QED
      BY <1>1, <2>2, <3>1, ReplayedIsRow DEF Pending
  <2> QED
    BY <2>1, <2>2, <2>3, RefsFrame
<1>23. CASE UNCHANGED vars
  BY <1>2, <1>23 DEF vars
<1> QED
  BY <1>4, <1>5, <1>6, <1>7, <1>8, <1>9, <1>10, <1>11, <1>12, <1>13, <1>14,
     <1>15, <1>16, <1>17, <1>18, <1>19, <1>20, <1>21, <1>22, <1>23
     DEF Next, Requests, SchedulerStep, Environment

----------------------------------------------------------------------------
(* A pending timer is queued. *)

\* What PendingQueued says of a timer.
Waits(t) ==
    \/ scheduler.at = "save" /\ scheduler.fire.timer = t
    \/ \E e \in items : e.timer = t /\ (e.at <= rows[t].fire_at \/ e.at <= now + StorageRetryDelay)

\* A step that only adds to the queue, and changes no pending timer nor what the
\* scheduler saves.
LEMMA QueueFrame ==
    ASSUME Types, Types', PendingQueued, up' => up, now' >= now,
           forgotten \subseteq forgotten',
           \A t \in DOMAIN rows' : Pending(t)' => Pending(t) /\ rows'[t].fire_at = rows[t].fire_at,
           items \subseteq items',
           scheduler' = scheduler \/ (scheduler.at /= "save" /\ scheduler'.at /= "save")
    PROVE  PendingQueued'
<1>1. SUFFICES ASSUME up', NEW t \in DOMAIN rows' \ forgotten', Pending(t)'
               PROVE  Waits(t)'
  BY DEF PendingQueued, Waits
<1>2. Waits(t) /\ Pending(t) /\ rows'[t].fire_at = rows[t].fire_at
  BY <1>1 DEF PendingQueued, Waits, Pending
<1>3. CASE scheduler.at = "save" /\ scheduler.fire.timer = t
  BY <1>3 DEF Waits
<1>4. ASSUME NEW e \in items, e.timer = t, e.at <= rows[t].fire_at \/ e.at <= now + StorageRetryDelay
      PROVE  Waits(t)'
  <2>1. now \in Nat /\ now' \in Nat /\ StorageRetryDelay \in Nat /\ e.at \in Nat
    BY TimerAssumption DEF Types
  <2>2. e.at <= rows'[t].fire_at \/ e.at <= now' + StorageRetryDelay
    BY <1>2, <1>4, <2>1
  <2> QED
    BY <1>4, <2>2 DEF Waits
<1> QED
  BY <1>2, <1>3, <1>4 DEF Waits

\* There are no timers at first.
LEMMA InitQueued == Init => PendingQueued
  BY DEF Init, PendingQueued

\* Every step keeps the pending timers queued.
LEMMA NextQueued ==
    ASSUME Types, Types', Held, PendingQueued, [Next]_vars
    PROVE  PendingQueued'
<1> USE DEF table, memory, answers
<1>1. now \in Nat /\ now' \in Nat /\ StorageRetryDelay \in Nat
  BY TimerAssumption DEF Types
<1>2. CASE /\ UNCHANGED <<rows, items, now, up, forgotten>>
           /\ scheduler' = scheduler \/ (scheduler.at /= "save" /\ scheduler'.at /= "save")
  BY <1>1, <1>2, QueueFrame DEF Pending
<1>3. \A t \in DOMAIN rows : rows[t].fire_at \in Nat
  BY DEF Types, Rows
<1>0. ASSUME NEW t, NEW at, [timer |-> t, at |-> at] \in items',
             at <= rows'[t].fire_at \/ at <= now' + StorageRetryDelay
      PROVE  Waits(t)'
  <2> DEFINE e == [timer |-> t, at |-> at]
  <2>1. e \in items' /\ e.timer = t /\ e.at = at
    BY <1>0
  <2> HIDE DEF e
  <2> QED
    BY <1>0, <2>1 DEF Waits
\* One timer is looked at, the others wait as they did.
<1>4. ASSUME NEW t, up, up', Pending(t)' /\ t \notin forgotten' => Waits(t)',
             \A u \in DOMAIN rows' \ {t} : Pending(u)' => u \in DOMAIN rows /\ rows'[u] = rows[u],
             \A e \in items : e.timer /= t => e \in items',
             now' = now, forgotten \subseteq forgotten',
             scheduler.at = "save" => scheduler' = scheduler \/ scheduler.fire.timer = t
      PROVE  PendingQueued'
  <2>1. SUFFICES ASSUME NEW u \in DOMAIN rows' \ forgotten', Pending(u)', u /= t
                 PROVE  Waits(u)'
    BY <1>4 DEF PendingQueued, Waits
  <2>2. Waits(u) /\ rows'[u] = rows[u]
    BY <1>4, <2>1 DEF PendingQueued, Waits, Pending
  <2> QED
    BY <1>4, <2>1, <2>2 DEF Waits
<1>5. ASSUME NEW t \in Timers, NEW at \in 0 .. MaxTime, NEW p \in Templates[t], Schedule(t, p, at)
      PROVE  PendingQueued'
  <2>1. /\ up /\ up' /\ now' = now /\ forgotten' = forgotten /\ scheduler' = scheduler
        /\ items' = items \cup {[timer |-> t, at |-> at]}
    BY <1>5 DEF Schedule, Queued
  <2>2. /\ DOMAIN rows' = DOMAIN rows \cup {t} /\ rows'[t].fire_at = at
        /\ \A u \in DOMAIN rows' \ {t} : rows'[u] = rows[u]
    BY <1>5 DEF Schedule
  <2>3. Waits(t)'
    BY <1>0, <2>1, <2>2
  <2> QED
    BY <1>4, <2>1, <2>2, <2>3
<1>6. ASSUME NEW t \in Timers, CancelReads(t) \/ RescheduleReads(t)
      PROVE  PendingQueued'
  BY <1>2, <1>6 DEF CancelReads, RescheduleReads, Resolve
<1>7. CASE CancelWrites
  <2>1. request.row \in Rows /\ request /= Idle
    BY <1>7, InHand DEF CancelWrites, Idle
  <2>2. CanceledRow.status = "canceled"
    BY <2>1 DEF CanceledRow, Rows
  <2>3. \A u \in DOMAIN rows' : Pending(u)' => Pending(u) /\ rows'[u] = rows[u]
    BY <1>7, <2>2 DEF CancelWrites, Updated, Pending
  <2> QED
    BY <1>1, <1>7, <2>3, QueueFrame DEF CancelWrites
<1>8. ASSUME NEW at \in 0 .. MaxTime, RescheduleWrites(at)
      PROVE  PendingQueued'
  <2>0. PICK t : t = request.timer
    OBVIOUS
  <2>1. request.row \in Rows /\ request /= Idle
    BY <1>8, InHand DEF RescheduleWrites, Idle
  <2>2. RescheduledRow(at).fire_at = at
    BY <2>1 DEF RescheduledRow, Rows
  <2>3. /\ up /\ up' /\ now' = now /\ forgotten' = forgotten /\ scheduler' = scheduler
        /\ items' = items \cup {[timer |-> t, at |-> at]}
        /\ rows' = [rows EXCEPT ![t] = RescheduledRow(at)] /\ t \in DOMAIN rows
    BY <1>8, <2>0, <2>1 DEF RescheduleWrites, Queued, Updated, Held, RequestHeld
  <2>4. Waits(t)'
    BY <1>0, <2>2, <2>3
  <2> QED
    BY <1>4, <2>3, <2>4
<1>9. CASE RequestFails
  BY <1>2, <1>9 DEF RequestFails
<1>10. ASSUME NEW owner \in Owners, Purge(owner)
       PROVE  PendingQueued'
  <2>1. \A u \in DOMAIN rows' : u \in DOMAIN rows /\ rows'[u] = rows[u]
    BY <1>10 DEF Purge
  <2>2. UNCHANGED <<now, up, items, forgotten, scheduler>>
    BY <1>10 DEF Purge
  <2> QED
    BY <1>1, <2>1, <2>2, QueueFrame DEF Pending
<1>11. ASSUME NEW n \in notices, Undelivered(n)
       PROVE  PendingQueued'
  BY <1>2, <1>11 DEF Undelivered
<1>12. ASSUME NEW e \in items, FireReads(e)
       PROVE  PendingQueued'
  <2>1. /\ up /\ up' /\ scheduler = Idle /\ rows' = rows /\ now' = now /\ forgotten' = forgotten
        /\ items \ {e} \subseteq items'
    BY <1>12 DEF FireReads, Due
  <2>2. Pending(e.timer)' => Waits(e.timer)'
    <3>1. CASE Pending(e.timer) /\ rows[e.timer].fire_at <= now
      BY <1>1, <1>3, <1>12, <3>1 DEF FireReads, Waits, Pending
    <3>2. CASE Pending(e.timer) /\ rows[e.timer].fire_at > now
      <4>1. rows[e.timer].fire_at \in Nat
        BY <1>3, <3>2 DEF Pending
      <4>2. [timer |-> e.timer, at |-> rows[e.timer].fire_at] \in items'
        BY <1>1, <1>12, <3>2, <4>1 DEF FireReads
      <4> QED
        BY <1>0, <2>1, <4>1, <4>2
    <3>3. CASE ~Pending(e.timer)
      BY <2>1, <3>3 DEF Pending
    <3> QED
      BY <1>1, <1>3, <3>1, <3>2, <3>3 DEF Pending
  <2> QED
    BY <1>4, <2>1, <2>2 DEF Pending, Idle
<1>13. ASSUME NEW e \in items, FireReadFails(e)
       PROVE  PendingQueued'
  <2>1. /\ up /\ up' /\ scheduler' = scheduler /\ rows' = rows /\ now' = now
        /\ forgotten' = forgotten \cup {e.timer} /\ items' = items \ {e}
    BY <1>13 DEF FireReadFails, Due
  <2> QED
    BY <1>4, <2>1 DEF Pending
<1>14. CASE FireSaves
  <2>0. PICK t, row : t = scheduler.fire.timer /\ row = scheduler.row
    OBVIOUS
  <2>1. /\ scheduler.at = "save" /\ up /\ up' /\ now' = now /\ forgotten' = forgotten
        /\ rows' = Updated(t, row) /\ items \subseteq items'
        /\ row.kind = "recurring" => [timer |-> t, at |-> row.fire_at] \in items'
    BY <1>14, <2>0 DEF FireSaves, Queued
  <2>2. row \in Rows /\ row.fire_at \in Nat /\ row.kind \in {"oneshot", "recurring"}
    BY <2>0, <2>1, InHand DEF Rows
  <2>3. Pending(t)' => Waits(t)'
    <3>1. SUFFICES ASSUME Pending(t)' PROVE Waits(t)'
      OBVIOUS
    <3>2. t \in DOMAIN rows /\ rows'[t] = row
      BY <2>1, <3>1 DEF Updated, Pending
    <3>3. row.kind = "recurring"
      BY <2>0, <2>1, <2>2, <3>1, <3>2 DEF Pending, Held, SaveHeld
    <3> QED
      BY <1>0, <2>1, <2>2, <3>2, <3>3
  <2>4. \A u \in DOMAIN rows' \ {t} : u \in DOMAIN rows /\ rows'[u] = rows[u]
    BY <2>1 DEF Updated
  <2> QED
    BY <1>4, <2>0, <2>1, <2>3, <2>4
<1>15. CASE FireSaveFails
  <2>0. PICK t : t = scheduler.fire.timer
    OBVIOUS
  <2>1. /\ scheduler.at = "save" /\ up /\ up' /\ now' = now /\ forgotten' = forgotten /\ rows' = rows
        /\ items \subseteq items'
        /\ [timer |-> t, at |-> scheduler.read_at + StorageRetryDelay] \in items'
    BY <1>15, <2>0 DEF FireSaveFails, Queued
  <2>2. scheduler.read_at \in Nat /\ scheduler.read_at <= now
    BY <2>1, InHand DEF Held, SaveHeld
  <2>3. Waits(t)'
    <3>1. scheduler.read_at + StorageRetryDelay <= now' + StorageRetryDelay
      BY <1>1, <2>1, <2>2
    <3> QED
      BY <1>0, <2>1, <3>1
  <2> QED
    BY <1>4, <2>0, <2>1, <2>3 DEF Pending
<1>16. CASE Deliver \/ SendFails
  BY <1>2, <1>16 DEF Deliver, SendFails, Idle
<1>17. ASSUME NEW r \in retries, RetryFire(r) \/ RetryReadFails(r)
       PROVE  PendingQueued'
  <2>1. scheduler' = scheduler \/ (scheduler.at /= "save" /\ scheduler'.at /= "save")
    BY <1>17 DEF RetryFire, RetryReadFails, Due, Idle
  <2> QED
    BY <1>2, <1>17, <2>1 DEF RetryFire, RetryReadFails
<1>18. CASE Tick
  BY <1>1, <1>18, QueueFrame DEF Tick, Pending
<1>19. CASE Stop
  BY <1>19 DEF Stop, PendingQueued
<1>20. ASSUME NEW fire \in net, RouterDelivers(fire)
       PROVE  PendingQueued'
  BY <1>2, <1>20 DEF RouterDelivers
<1>21. ASSUME NEW fire \in net, NEW transient \in BOOLEAN, RouterRefuses(fire, transient)
       PROVE  PendingQueued'
  BY <1>2, <1>21 DEF RouterRefuses
<1>22. CASE Start
  <2>1. rows' = [t \in Kept |-> Replayed(rows[t])]
    BY <1>22 DEF Start
  <2>2. \A t \in Kept : rows'[t].status = "pending" =>
            [timer |-> t, at |-> rows'[t].fire_at] \in items'
    BY <1>22 DEF Start
  <2>3. \A t \in DOMAIN rows' : rows'[t].fire_at \in Nat
    BY DEF Types, Rows
  <2>4. \A t \in DOMAIN rows' : Pending(t)' => Waits(t)'
    <3> TAKE t \in DOMAIN rows'
    <3>1. HAVE Pending(t)'
    <3>2. [timer |-> t, at |-> rows'[t].fire_at] \in items' /\ rows'[t].fire_at <= rows'[t].fire_at
      BY <2>1, <2>2, <2>3, <3>1 DEF Pending
    <3> QED
      BY <1>0, <3>2
  <2> QED
    BY <2>4 DEF PendingQueued, Waits
<1>23. ASSUME NEW done \in SUBSET Kept, StartFails(done)
       PROVE  PendingQueued'
  BY <1>23 DEF StartFails, PendingQueued
<1>24. CASE UNCHANGED vars
  BY <1>2, <1>24 DEF vars
<1> QED
  BY <1>5, <1>6, <1>7, <1>8, <1>9, <1>10, <1>11, <1>12, <1>13, <1>14,
     <1>15, <1>16, <1>17, <1>18, <1>19, <1>20, <1>21, <1>22, <1>23, <1>24
     DEF Next, Requests, SchedulerStep, Environment, Boot

----------------------------------------------------------------------------
(* What was answered holds. *)

\* A step that fires nothing, takes no request and changes no pending timer.
LEMMA PromisedFrame ==
    ASSUME Types, Types', Promised, UNCHANGED <<silenced, agreed, created>>,
           \A t \in DOMAIN rows' : t \in DOMAIN rows /\ rows'[t] = rows[t],
           request' \in {request, Idle}, scheduler' \in {scheduler, Idle},
           \A r \in retries' : r.fire.attempt > 1
    PROVE  Promised'
<1>1. \A t : Firing(t)' => Firing(t) /\ scheduler' = scheduler
  BY DEF Firing, Idle
<1>2. Silence'
  BY <1>1 DEF Promised, Silence
<1>3. Agreement'
  BY <1>1 DEF Promised, Agreement, Pending
<1>4. request' /= Idle /\ ~request'.overlapped => ~Firing(request.timer)'
  <2>1. SUFFICES ASSUME request' = request, request /= Idle, ~request.overlapped
                 PROVE  ~Firing(request.timer)'
    BY DEF Idle
  <2>2. ~Firing(request.timer)
    BY <2>1 DEF Promised
  <2> QED
    BY <1>1, <2>1, <2>2 DEF Firing
<1> QED
  BY <1>2, <1>3, <1>4 DEF Promised, Idle

\* Nothing is promised at first.
LEMMA InitPromised == Init => Promised
  BY DEF Init, Promised, Silence, Agreement, Firing, Idle

\* Every step keeps what was answered.
LEMMA NextPromised ==
    ASSUME Types, Types', Held, Promised, [Next]_vars
    PROVE  Promised'
<1> USE DEF table, memory, answers
<1>1. now \in Nat
  BY TimerAssumption DEF Types
<1>2. CASE /\ UNCHANGED <<rows, created, retries, silenced, agreed>>
           /\ request' \in {request, Idle} /\ scheduler' \in {scheduler, Idle}
  BY <1>2, PromisedFrame DEF Promised
<1>3. ASSUME NEW fire \in Fires, RetryLater(fire)
      PROVE  \A r \in retries' : r.fire.attempt > 1
  <2>1. CASE retries' = retries
    BY <2>1 DEF Promised
  <2>2. CASE retries' = retries \cup {[at |-> now + DeliveryRetryDelay,
                                       fire |-> [fire EXCEPT !.attempt = @ + 1]]}
    <3> DEFINE again == [fire EXCEPT !.attempt = @ + 1]
    <3>1. again.attempt > 1
      BY <1>3, AttemptIsFire
    <3> HIDE DEF again
    <3>2. retries' = retries \cup {[at |-> now + DeliveryRetryDelay, fire |-> again]}
      BY <2>2 DEF again
    <3> QED
      BY <3>1, <3>2 DEF Promised
  <2> QED
    BY <1>1, <1>3, <2>1, <2>2, RetryLaterTypes
<1>4. ASSUME NEW t \in Timers, NEW at \in 0 .. MaxTime, NEW p \in Templates[t], Schedule(t, p, at)
      PROVE  Promised'
  <2>1. /\ UNCHANGED <<silenced, retries, scheduler, request>> /\ request = Idle
        /\ t \notin created /\ created' = created \cup {t}
        /\ t \notin DOMAIN rows /\ t \notin DOMAIN agreed /\ t \notin silenced
    BY <1>4 DEF Schedule, Types
  <2>2. /\ DOMAIN rows' = DOMAIN rows \cup {t}
        /\ rows'[t].kind = p.kind /\ rows'[t].fire_at = at
        /\ \A u \in DOMAIN rows : rows'[u] = rows[u]
    BY <1>4, <2>1 DEF Schedule
  <2>3. /\ p.kind \in {"oneshot", "recurring"}
        /\ DOMAIN agreed' \subseteq DOMAIN agreed \cup {t}
        /\ \A u \in DOMAIN agreed : agreed'[u] = agreed[u]
        /\ t \in DOMAIN agreed' => p.kind = "oneshot" /\ agreed'[t] = at
    BY <1>4, <2>1, TimerAssumption DEF Schedule
  <2>4. \A u : Firing(u)' <=> Firing(u)
    BY <2>1 DEF Firing
  <2>5. Silence'
    BY <2>1, <2>2, <2>4 DEF Promised, Silence
  <2>6. Agreement'
    <3>1. ASSUME NEW u \in DOMAIN agreed
          PROVE  /\ u \in DOMAIN rows' => rows'[u].kind = "oneshot"
                 /\ Pending(u)' => rows'[u].fire_at = agreed'[u]
                 /\ Firing(u)' /\ scheduler'.fire.attempt = 1 => scheduler'.fire.scheduled = agreed'[u]
      BY <2>1, <2>2, <2>3, <2>4, <3>1 DEF Promised, Agreement, Pending
    <3>2. Firing(t)' => scheduler'.fire.attempt /= 1
      BY <2>1, <2>4 DEF Promised, Firing, Idle
    <3> QED
      BY <2>1, <2>2, <2>3, <3>1, <3>2 DEF Agreement
  <2> QED
    BY <2>1, <2>5, <2>6 DEF Promised
<1>5. ASSUME NEW t \in Timers, CancelReads(t) \/ RescheduleReads(t)
      PROVE  Promised'
  <2>1. PICK verb \in {"cancel", "reschedule"} : Resolve(t, verb) /\ (verb = "reschedule" => Pending(t))
    BY <1>5 DEF CancelReads, RescheduleReads
  <2>2. /\ UNCHANGED <<rows, created, retries, silenced, agreed, scheduler>>
        /\ request'.timer = t /\ request'.at = verb /\ request'.overlapped = Firing(t)
    BY <2>1 DEF Resolve
  <2>3. \A u : Firing(u)' <=> Firing(u)
    BY <2>2 DEF Firing
  <2>4. Silence'
    BY <2>2, <2>3 DEF Promised, Silence
  <2>5. Agreement'
    BY <2>2, <2>3 DEF Promised, Agreement, Pending
  <2>6. ~request'.overlapped => ~Firing(request.timer)'
    <3>1. SUFFICES ASSUME ~Firing(t) PROVE ~Firing(request.timer)'
      BY <2>2
    <3> QED
      BY <2>2, <3>1 DEF Firing
  <2>7. request'.at = "reschedule" => request'.timer \notin silenced'
    BY <2>1, <2>2 DEF Promised, Silence, Pending
  <2> QED
    BY <2>2, <2>4, <2>5, <2>6, <2>7 DEF Promised
<1>6. CASE CancelWrites
  <2>0. PICK t : t = request.timer
    OBVIOUS
  <2>1. request.row \in Rows /\ request /= Idle
    BY <1>6, InHand DEF CancelWrites, Idle
  <2>2. CanceledRow.status = "canceled" /\ CanceledRow.kind = request.row.kind
    BY <2>1 DEF CanceledRow, Rows
  <2>3. /\ UNCHANGED <<created, retries, scheduler, agreed>> /\ request' = Idle
        /\ rows' = [rows EXCEPT ![t] = CanceledRow] /\ t \in DOMAIN rows
        /\ silenced' = IF request.overlapped THEN silenced ELSE silenced \cup {t}
    BY <1>6, <2>0, <2>1 DEF CancelWrites, Updated, Held, RequestHeld
  <2>4. \A u : Firing(u)' <=> Firing(u)
    BY <2>3 DEF Firing
  <2>5. ~request.overlapped => ~Firing(t)
    BY <2>0, <2>1 DEF Promised
  <2>6. Silence'
    BY <2>2, <2>3, <2>4, <2>5 DEF Promised, Silence
  <2>7. Agreement'
    <3>1. rows[t].kind = request.row.kind
      BY <2>0, <2>1 DEF Held, RequestHeld, SameTimer
    <3> QED
      BY <2>2, <2>3, <2>4, <3>1 DEF Promised, Agreement, Pending
  <2> QED
    BY <2>3, <2>6, <2>7 DEF Promised, Idle
<1>7. ASSUME NEW at \in 0 .. MaxTime, RescheduleWrites(at)
      PROVE  Promised'
  <2>0. PICK t : t = request.timer
    OBVIOUS
  <2>1. request.row \in Rows /\ request /= Idle /\ request.at = "reschedule"
    BY <1>7, InHand DEF RescheduleWrites, Idle
  <2>2. RescheduledRow(at).fire_at = at /\ RescheduledRow(at).kind = request.row.kind
    BY <2>1 DEF RescheduledRow, Rows
  <2>3. /\ UNCHANGED <<created, retries, scheduler, silenced>> /\ request' = Idle
        /\ rows' = [rows EXCEPT ![t] = RescheduledRow(at)] /\ t \in DOMAIN rows
        /\ DOMAIN agreed' \subseteq DOMAIN agreed \cup {t}
        /\ \A u \in DOMAIN agreed' \ {t} : agreed'[u] = agreed[u]
        /\ request.overlapped => t \notin DOMAIN agreed'
        /\ ~request.overlapped => agreed'[t] = at
    BY <1>7, <2>0, <2>1 DEF RescheduleWrites, Updated, Held, RequestHeld
  <2>4. \A u : Firing(u)' <=> Firing(u)
    BY <2>3 DEF Firing
  <2>5. ~request.overlapped => ~Firing(t)
    BY <2>0, <2>1 DEF Promised
  <2>6. Silence'
    BY <2>0, <2>1, <2>3, <2>4 DEF Promised, Silence
  <2>7. Agreement'
    <3>1. RescheduledRow(at).kind = "oneshot"
      BY <2>1, <2>2 DEF Held, RequestHeld
    <3> QED
      BY <2>2, <2>3, <2>4, <2>5, <3>1 DEF Promised, Agreement, Pending
  <2> QED
    BY <2>3, <2>6, <2>7 DEF Promised, Idle
<1>8. CASE RequestFails
  BY <1>2, <1>8 DEF RequestFails
<1>9. ASSUME NEW owner \in Owners, Purge(owner)
      PROVE  Promised'
  <2>1. /\ UNCHANGED <<created, retries, scheduler, agreed, request>> /\ request = Idle
        /\ \A t \in DOMAIN rows' : t \in DOMAIN rows /\ rows'[t] = rows[t]
        /\ \A t \in silenced' : t \in silenced \/ (t \notin DOMAIN rows' /\ ~Firing(t))
    BY <1>9 DEF Purge
  <2>2. \A u : Firing(u)' <=> Firing(u)
    BY <2>1 DEF Firing
  <2>3. Silence'
    BY <2>1, <2>2 DEF Promised, Silence
  <2>4. Agreement'
    BY <2>1, <2>2 DEF Promised, Agreement, Pending
  <2> QED
    BY <2>1, <2>3, <2>4 DEF Promised, Idle
<1>10. ASSUME NEW n \in notices, Undelivered(n)
       PROVE  Promised'
  <2>1. \A r \in retries' : r.fire.attempt > 1
    BY <1>3, <1>10 DEF Undelivered, Types, Promised
  <2>2. UNCHANGED <<rows, created, silenced, agreed, request, scheduler>>
    BY <1>10 DEF Undelivered
  <2> QED
    BY <2>1, <2>2, PromisedFrame
<1>11. ASSUME NEW t \in DOMAIN rows, Meets(t), t \notin silenced,
              UNCHANGED <<rows, created, silenced, agreed>>, retries' \subseteq retries,
              scheduler'.at \in {"save", "send"}, scheduler'.fire.timer = t,
              scheduler'.fire.attempt = 1 =>
                 /\ t \in created
                 /\ t \in DOMAIN agreed => scheduler'.fire.scheduled = agreed[t]
       PROVE  Promised'
  <2>1. \A u : Firing(u)' <=> u = t
    BY <1>11 DEF Firing
  <2>2. Silence'
    BY <1>11, <2>1 DEF Promised, Silence
  <2>3. Agreement'
    BY <1>11, <2>1 DEF Promised, Agreement, Pending
  <2>4. request' /= Idle /\ ~request'.overlapped => ~Firing(request.timer)'
    <3>1. SUFFICES ASSUME request' /= Idle, ~request'.overlapped PROVE ~Firing(request.timer)'
      OBVIOUS
    <3>2. request.timer /= t /\ request'.timer = request.timer
      BY <1>11, <3>1, MetRequest
    <3> QED
      BY <1>11, <3>2 DEF Firing
  <2>5. request'.at = "reschedule" => request'.timer \notin silenced'
    BY <1>11, MetRequest DEF Promised, Idle
  <2> QED
    BY <1>11, <2>2, <2>3, <2>4, <2>5 DEF Promised
<1>12. ASSUME NEW e \in items, FireReads(e)
       PROVE  Promised'
  <2>1. CASE Pending(e.timer) /\ rows[e.timer].fire_at <= now
    <3>1. /\ rows[e.timer] \in Rows /\ e.timer \in created /\ e.timer \in DOMAIN rows
          /\ e.timer \notin silenced
      BY <2>1, InHand DEF Pending, Types, Promised, Silence
    <3>2. /\ scheduler'.at = "save" /\ scheduler'.fire.timer = e.timer
          /\ scheduler'.fire.scheduled = rows[e.timer].fire_at
          /\ Meets(e.timer) /\ UNCHANGED <<rows, created, silenced, agreed, retries>>
      BY <1>1, <1>12, <2>1, <3>1 DEF FireReads, Rows
    <3>3. e.timer \in DOMAIN agreed => rows[e.timer].fire_at = agreed[e.timer]
      BY <2>1 DEF Promised, Agreement
    <3> QED
      BY <1>11, <3>1, <3>2, <3>3
  <2>2. CASE ~(Pending(e.timer) /\ rows[e.timer].fire_at <= now)
    BY <1>2, <1>12, <2>2 DEF FireReads
  <2> QED
    BY <2>1, <2>2
<1>13. ASSUME NEW e \in items, FireReadFails(e)
       PROVE  Promised'
  BY <1>2, <1>13 DEF FireReadFails
<1>14. CASE FireSaves
  <2>0. PICK t, row : t = scheduler.fire.timer /\ row = scheduler.row
    OBVIOUS
  <2>1. /\ scheduler.at = "save" /\ scheduler'.at = "send" /\ scheduler'.fire = scheduler.fire
        /\ rows' = Updated(t, row) /\ UNCHANGED <<created, retries, silenced, agreed, request>>
    BY <1>14, <2>0 DEF FireSaves
  <2>2. \A u : Firing(u)' <=> Firing(u)
    BY <2>1 DEF Firing
  <2>3. Firing(t) /\ t \notin silenced
    BY <2>0, <2>1 DEF Firing, Promised, Silence
  <2>4. /\ DOMAIN rows' = DOMAIN rows /\ \A u \in DOMAIN rows \ {t} : rows'[u] = rows[u]
        /\ t \in DOMAIN rows => rows'[t] = row
    BY <2>1 DEF Updated
  <2>5. Silence'
    BY <2>1, <2>2, <2>3, <2>4 DEF Promised, Silence
  <2>6. Agreement'
    <3>1. t \in DOMAIN agreed /\ t \in DOMAIN rows => row.kind = "oneshot" /\ row.status = "fired"
      BY <2>0, <2>1 DEF Promised, Agreement, Held, SaveHeld, SameTimer
    <3> QED
      BY <2>1, <2>2, <2>4, <3>1 DEF Promised, Agreement, Pending
  <2>7. request' /= Idle /\ ~request'.overlapped => ~Firing(request.timer)'
    BY <2>1 DEF Promised, Firing
  <2> QED
    BY <2>1, <2>5, <2>6, <2>7 DEF Promised, Idle
<1>15. CASE FireSaveFails \/ Deliver
  BY <1>2, <1>15 DEF FireSaveFails, Deliver
<1>16. CASE SendFails
  <2>1. scheduler.fire \in Fires
    BY <1>16, InHand DEF SendFails
  <2>2. \A r \in retries' : r.fire.attempt > 1
    BY <1>3, <1>16, <2>1 DEF SendFails
  <2>3. UNCHANGED <<rows, created, silenced, agreed, request>> /\ scheduler' = Idle
    BY <1>16 DEF SendFails
  <2> QED
    BY <2>2, <2>3, PromisedFrame
<1>17. ASSUME NEW r \in retries, RetryFire(r)
       PROVE  Promised'
  <2>1. UNCHANGED <<rows, created, silenced, agreed>> /\ retries' = retries \ {r}
    BY <1>17 DEF RetryFire
  <2>2. CASE StillWanted(r.fire.timer)
    <3>1. r.fire.timer \in DOMAIN rows /\ r.fire.timer \notin silenced /\ r.fire.attempt > 1
      BY <2>2 DEF StillWanted, Promised, Silence
    <3>2. scheduler'.at = "send" /\ scheduler'.fire = r.fire /\ Meets(r.fire.timer)
      BY <1>17, <2>2 DEF RetryFire
    <3>3. r.fire.attempt /= 1
      BY <3>1 DEF Types, Fires
    <3> QED
      BY <1>11, <2>1, <3>1, <3>2, <3>3
  <2>3. CASE ~StillWanted(r.fire.timer)
    <3>1. UNCHANGED <<scheduler, request>>
      BY <1>17, <2>3 DEF RetryFire
    <3>2. \A x \in retries' : x.fire.attempt > 1
      BY <2>1 DEF Promised
    <3> QED
      BY <2>1, <3>1, <3>2, PromisedFrame
  <2> QED
    BY <2>2, <2>3
<1>18. ASSUME NEW r \in retries, RetryReadFails(r)
       PROVE  Promised'
  <2>1. r.fire \in Fires
    BY DEF Types
  <2>2. \A x \in retries' : x.fire.attempt > 1
    <3> DEFINE again == [r.fire EXCEPT !.attempt = @ + 1]
    <3>1. again.attempt > 1
      BY <2>1, AttemptIsFire
    <3>2. \/ retries' = retries \ {r}
          \/ retries' = (retries \ {r}) \cup {[at |-> now + DeliveryRetryDelay, fire |-> again]}
      BY <1>18 DEF RetryReadFails
    <3> HIDE DEF again
    <3> QED
      BY <3>1, <3>2 DEF Promised
  <2>3. UNCHANGED <<rows, created, silenced, agreed, request, scheduler>>
    BY <1>18 DEF RetryReadFails
  <2> QED
    BY <2>2, <2>3, PromisedFrame
<1>19. CASE Tick
  BY <1>2, <1>19 DEF Tick
<1>20. CASE Stop
  BY <1>20, PromisedFrame DEF Stop
<1>21. ASSUME NEW fire \in net, RouterDelivers(fire)
       PROVE  Promised'
  BY <1>2, <1>21 DEF RouterDelivers
<1>22. ASSUME NEW fire \in net, NEW transient \in BOOLEAN, RouterRefuses(fire, transient)
       PROVE  Promised'
  BY <1>2, <1>22 DEF RouterRefuses
<1>23. CASE Boot
  <2>1. /\ scheduler = Idle /\ request = Idle
        /\ UNCHANGED <<created, retries, scheduler, request, agreed>>
    BY <1>23 DEF Boot, Start, StartFails, Types, Down
  <2>2. \A t \in DOMAIN rows' : t \in DOMAIN rows /\ rows'[t] \in {rows[t], Replayed(rows[t])}
    BY <1>23 DEF Boot, Start, StartFails, Kept
  <2>3. \A t : ~Firing(t)'
    BY <2>1 DEF Firing, Idle
  <2>4. ASSUME NEW t \in silenced' \ silenced
        PROVE  t \in DOMAIN rows' => rows'[t].status = "canceled"
    <3>1. CASE Start
      <4>1. t \in Kept /\ Pending(t) /\ Replayed(rows[t]).status /= "pending" /\ rows'[t] = Replayed(rows[t])
        BY <2>4, <3>1 DEF Start
      <4>2. rows[t] \in Rows
        BY <4>1, InHand DEF Pending
      <4> QED
        BY <1>1, <4>1, <4>2, ReplayedIsRow DEF Pending
    <3>2. ASSUME NEW done \in SUBSET Kept, StartFails(done)
          PROVE  t \in DOMAIN rows' => rows'[t].status = "canceled"
      BY <2>4, <3>2 DEF StartFails
    <3> QED
      BY <1>23, <3>1, <3>2 DEF Boot
  <2>5. Silence'
    <3>1. ASSUME NEW t \in silenced, t \in DOMAIN rows'
          PROVE  rows'[t].status = "canceled"
      <4>1. rows[t].status = "canceled" /\ rows[t] \in Rows
        BY <2>2, <3>1, InHand DEF Promised, Silence
      <4> QED
        BY <1>1, <2>2, <3>1, <4>1, ReplayedIsRow
    <3> QED
      BY <2>3, <2>4, <3>1 DEF Silence
  <2>6. Agreement'
    <3>1. ASSUME NEW t \in DOMAIN agreed, t \in DOMAIN rows'
          PROVE  /\ rows'[t].kind = "oneshot"
                 /\ Pending(t)' => rows'[t].fire_at = agreed[t]
      <4>1. t \in DOMAIN rows /\ rows[t].kind = "oneshot" /\ rows[t] \in Rows
        BY <2>2, <3>1, InHand DEF Promised, Agreement
      <4>2. Pending(t) => rows[t].fire_at = agreed[t]
        BY <3>1 DEF Promised, Agreement
      <4> QED
        BY <1>1, <2>2, <3>1, <4>1, <4>2, ReplayedIsRow DEF Pending, SameTimer
    <3> QED
      BY <2>1, <2>3, <3>1 DEF Agreement, Pending
  <2> QED
    BY <2>1, <2>5, <2>6 DEF Promised, Idle
<1>24. CASE UNCHANGED vars
  BY <1>2, <1>24 DEF vars
<1> QED
  BY <1>4, <1>5, <1>6, <1>7, <1>8, <1>9, <1>10, <1>12, <1>13, <1>14,
     <1>15, <1>16, <1>17, <1>18, <1>19, <1>20, <1>21, <1>22, <1>23, <1>24
     DEF Next, Requests, SchedulerStep, Environment

----------------------------------------------------------------------------
(* The theorems. *)

\* Where the fire's token is, and nowhere else, FireInOnePlace counts one.
LEMMA OnePlaceCounts ==
    ASSUME Types, OnePlace
    PROVE  FireInOnePlace
<1>1. SUFFICES ASSUME NEW f \in fired PROVE Places(f) = 1
  BY DEF FireInOnePlace
<1> DEFINE here == {s \in {s \in {scheduler} : s.at = "send"} : Identity(s.fire) = f}
           with_router == {fire \in net : Identity(fire) = f}
           answered == {n \in notices : Identity(n.fire) = f}
           waiting == {r \in retries : Identity(r.fire) = f}
           there == {f} \cap arrived
           nowhere == {f} \cap gone
<1>2. /\ \A x \in here : <<"hand", x, f>> \in Tokens
      /\ \A x \in with_router : <<"net", x, f>> \in Tokens
      /\ \A x \in answered : <<"notice", x, f>> \in Tokens
      /\ \A x \in waiting : <<"retry", x, f>> \in Tokens
      /\ \A x \in there : <<"arrived", x, f>> \in Tokens
      /\ \A x \in nowhere : <<"gone", x, f>> \in Tokens
  BY DEF Tokens, OnItsWay
<1>3. PICK a \in Tokens : a[3] = f
  BY DEF OnePlace
<1>4. \/ \E x \in here : a = <<"hand", x, f>>
      \/ \E x \in with_router : a = <<"net", x, f>>
      \/ \E x \in answered : a = <<"notice", x, f>>
      \/ \E x \in waiting : a = <<"retry", x, f>>
      \/ \E x \in there : a = <<"arrived", x, f>>
      \/ \E x \in nowhere : a = <<"gone", x, f>>
  BY <1>3 DEF Tokens, OnItsWay
<1>5. \A b \in Tokens : b[3] = f => b = a
  BY <1>3 DEF OnePlace
<1>6. Places(f) = Cardinality(here) + Cardinality(with_router) + Cardinality(answered)
                  + Cardinality(waiting) + Cardinality(there) + Cardinality(nowhere)
  BY DEF Places
<1> HIDE DEF here, with_router, answered, waiting, there, nowhere
<1>7. /\ \A x \in here : <<"hand", x, f>> = a
      /\ \A x \in with_router : <<"net", x, f>> = a
      /\ \A x \in answered : <<"notice", x, f>> = a
      /\ \A x \in waiting : <<"retry", x, f>> = a
      /\ \A x \in there : <<"arrived", x, f>> = a
      /\ \A x \in nowhere : <<"gone", x, f>> = a
  BY <1>2, <1>5
<1>8. Cardinality({}) = 0 /\ \A x : Cardinality({x}) = 1
  BY FS_EmptySet, FS_Singleton
<1>9. ASSUME NEW x \in here, a = <<"hand", x, f>>
      PROVE  Places(f) = 1
  <2>1. here = {x}
    BY <1>7, <1>9
  <2>2. /\ with_router = {} /\ answered = {} /\ waiting = {}
        /\ there = {} /\ nowhere = {}
    BY <1>7, <1>9
  <2>3. Cardinality(here) = 1
    BY <1>8, <2>1
  <2> QED
    BY <1>6, <1>8, <2>2, <2>3
<1>10. ASSUME NEW x \in with_router, a = <<"net", x, f>>
      PROVE  Places(f) = 1
  <2>1. with_router = {x}
    BY <1>7, <1>10
  <2>2. /\ here = {} /\ answered = {} /\ waiting = {}
        /\ there = {} /\ nowhere = {}
    BY <1>7, <1>10
  <2>3. Cardinality(with_router) = 1
    BY <1>8, <2>1
  <2> QED
    BY <1>6, <1>8, <2>2, <2>3
<1>11. ASSUME NEW x \in answered, a = <<"notice", x, f>>
      PROVE  Places(f) = 1
  <2>1. answered = {x}
    BY <1>7, <1>11
  <2>2. /\ here = {} /\ with_router = {} /\ waiting = {}
        /\ there = {} /\ nowhere = {}
    BY <1>7, <1>11
  <2>3. Cardinality(answered) = 1
    BY <1>8, <2>1
  <2> QED
    BY <1>6, <1>8, <2>2, <2>3
<1>12. ASSUME NEW x \in waiting, a = <<"retry", x, f>>
      PROVE  Places(f) = 1
  <2>1. waiting = {x}
    BY <1>7, <1>12
  <2>2. /\ here = {} /\ with_router = {} /\ answered = {}
        /\ there = {} /\ nowhere = {}
    BY <1>7, <1>12
  <2>3. Cardinality(waiting) = 1
    BY <1>8, <2>1
  <2> QED
    BY <1>6, <1>8, <2>2, <2>3
<1>13. ASSUME NEW x \in there, a = <<"arrived", x, f>>
      PROVE  Places(f) = 1
  <2>1. there = {x}
    BY <1>7, <1>13
  <2>2. /\ here = {} /\ with_router = {} /\ answered = {}
        /\ waiting = {} /\ nowhere = {}
    BY <1>7, <1>13
  <2>3. Cardinality(there) = 1
    BY <1>8, <2>1
  <2> QED
    BY <1>6, <1>8, <2>2, <2>3
<1>14. ASSUME NEW x \in nowhere, a = <<"gone", x, f>>
      PROVE  Places(f) = 1
  <2>1. nowhere = {x}
    BY <1>7, <1>14
  <2>2. /\ here = {} /\ with_router = {} /\ answered = {}
        /\ waiting = {} /\ there = {}
    BY <1>7, <1>14
  <2>3. Cardinality(nowhere) = 1
    BY <1>8, <2>1
  <2> QED
    BY <1>6, <1>8, <2>2, <2>3
<1> QED
  BY <1>4, <1>9, <1>10, <1>11, <1>12, <1>13, <1>14

\* Every layer holds from the start, and every step keeps it.
THEOREM TimerInvariant == Spec => []IInv
<1>1. Init => IInv
  BY InitTypes, InitHeld, InitOrder, InitOnePlace, InitRefs, InitQueued, InitPromised DEF IInv
<1>2. IInv /\ [Next]_vars => IInv'
  <2>1. SUFFICES ASSUME IInv, [Next]_vars PROVE IInv'
    OBVIOUS
  <2>2. Types /\ Held /\ Order /\ OnePlace /\ Refs /\ PendingQueued /\ Promised
    BY <2>1 DEF IInv
  <2>3. Types'
    BY <2>1, <2>2, NextTypes
  <2>4. Held'
    BY <2>1, <2>2, <2>3, NextHeld
  <2>5. Order' /\ OnePlace'
    BY <2>1, <2>2, <2>3, NextOrder, NextOnePlace
  <2>6. Refs' /\ PendingQueued' /\ Promised'
    BY <2>1, <2>2, <2>3, <2>4, NextRefs, NextQueued, NextPromised
  <2> QED
    BY <2>3, <2>4, <2>5, <2>6 DEF IInv
<1> QED
  BY <1>1, <1>2, PTL DEF Spec

\* The types, the status of a row among them.
THEOREM TypesHold == Spec => []TypeOK
<1>1. IInv => TypeOK
  <2>1. SUFFICES ASSUME IInv PROVE TypeOK
    OBVIOUS
  <2>2. \A t \in DOMAIN rows : rows[t].status \in {"pending", "fired", "canceled"}
    BY <2>1 DEF IInv, Types, Rows
  <2>3. scheduler.at \in {"idle", "save", "send"} /\ request.at \in {"idle", "cancel", "reschedule"}
    BY <2>1, InHand DEF IInv
  <2> QED
    BY <2>1, <2>2, <2>3 DEF IInv, Types, TypeOK
<1> QED
  BY <1>1, TimerInvariant, PTL

\* No fire reaches its target twice.
THEOREM FiresArriveOnce == Spec => []AtMostOnce
<1>1. IInv => AtMostOnce
  BY DEF IInv, OnePlace, AtMostOnce
<1> QED
  BY <1>1, TimerInvariant, PTL

\* A saved fire is in one place, or was given up for a reason.
THEOREM FiresInOnePlace == Spec => []FireInOnePlace
<1>1. IInv => FireInOnePlace
  BY OnePlaceCounts DEF IInv
<1> QED
  BY <1>1, TimerInvariant, PTL

\* No pending timer is left behind by requests, stops and failing writes.
THEOREM PendingTimersQueued == Spec => []PendingQueued
<1>1. IInv => PendingQueued
  BY DEF IInv
<1> QED
  BY <1>1, TimerInvariant, PTL

\* An answered cancel, purge or reschedule holds unless a fire overlapped it.
THEOREM AnswersHold == Spec => []AnswersKept
<1>1. IInv => AnswersKept
  BY DEF IInv, Promised, Silence, Agreement, Firing, AnswersKept
<1> QED
  BY <1>1, TimerInvariant, PTL

\* The table's index never has a reschedule to refuse.
THEOREM ClientRefsUnique == Spec => []RefsUnique
<1>1. IInv => RefsUnique
  BY DEF IInv, Refs
<1> QED
  BY <1>1, TimerInvariant, PTL

----------------------------------------------------------------------------
(* The refinement: every step is one of TimerService, or none. *)

\* The fires on their way, as TimerService knows them.
LEMMA FiresShrink ==
    ASSUME UNCHANGED <<fired, arrived>>, gone \subseteq gone'
    PROVE  {Named(f) : f \in fired \ (arrived \cup gone)}' \subseteq
           {Named(f) : f \in fired \ (arrived \cup gone)}
  OBVIOUS

\* A fire that has begun is not nothing.
LEMMA NamedIsSomething == \A fire : Named(fire) /= << >>
  BY DEF Named

\* A step that changes no row and saves no fire: at most fires lapse.
LEMMA LapseStep ==
    ASSUME UNCHANGED <<now, rows, fired, arrived>>, gone \subseteq gone',
           scheduler' = scheduler \/ scheduler'.at /= "save"
    PROVE  Service!Lapse
<1>1. {Named(f) : f \in fired \ (arrived \cup gone)}' \subseteq
      {Named(f) : f \in fired \ (arrived \cup gone)}
  BY FiresShrink
<1>2. [t \in {u \in DOMAIN rows : Pending(u)} |-> rows[t].fire_at]'
      = [t \in {u \in DOMAIN rows : Pending(u)} |-> rows[t].fire_at]
  BY DEF Pending
<1> QED
  BY <1>1, <1>2 DEF Service!Lapse

\* The times of pending timers.
LEMMA PendingTimed ==
    ASSUME Types'
    PROVE  Service!Timed([t \in {u \in DOMAIN rows : Pending(u)} |-> rows[t].fire_at]')
<1>1. \A t \in DOMAIN rows' : rows'[t].fire_at \in Nat
  BY DEF Types, Rows
<1> QED
  BY <1>1 DEF Service!Timed, Pending

\* A step of a request that arms or moves one timer.
LEMMA ArmStep ==
    ASSUME Types, Types', NEW t \in Timers, UNCHANGED <<now, scheduler, fired, arrived, gone>>,
           DOMAIN rows' = DOMAIN rows \cup {t}, Pending(t)', rows'[t].fire_at > now,
           \A u \in DOMAIN rows \ {t} : rows'[u] = rows[u]
    PROVE  Service!Arm(t)
<1> DEFINE p == [u \in {u \in DOMAIN rows : Pending(u)} |-> rows[u].fire_at]
<1>1. Service!Timed(p')
  BY PendingTimed
<1>2. DOMAIN p' = DOMAIN p \cup {t}
  BY DEF Pending
<1>3. p'[t] > now /\ \A u \in DOMAIN p \ {t} : p'[u] = p[u]
  BY DEF Pending
<1> QED
  BY <1>1, <1>2, <1>3 DEF Service!Arm

\* A step after which fewer timers are pending, as they were or for a time ahead.
LEMMA WithdrawStep ==
    ASSUME Types, Types', UNCHANGED <<now, scheduler, fired, arrived, gone>>,
           \A t \in DOMAIN rows' : Pending(t)' =>
               Pending(t) /\ (rows'[t].fire_at = rows[t].fire_at \/ rows'[t].fire_at > now)
    PROVE  Service!Withdraw
<1> DEFINE p == [u \in {u \in DOMAIN rows : Pending(u)} |-> rows[u].fire_at]
<1>1. Service!Timed(p')
  BY PendingTimed
<1>2. DOMAIN p' \subseteq DOMAIN p
  BY DEF Pending
<1>3. \A t \in DOMAIN p' : p'[t] = p[t] \/ p'[t] > now
  BY DEF Pending
<1> QED
  BY <1>1, <1>2, <1>3 DEF Service!Withdraw

\* Reading a due timer claims it.
LEMMA ClaimStep ==
    ASSUME Types, NEW t \in Timers, UNCHANGED <<now, rows, fired, arrived, gone>>,
           scheduler = Idle, scheduler'.at = "save",
           Pending(t), rows[t].fire_at <= now,
           scheduler'.fire.timer = t, scheduler'.fire.scheduled = rows[t].fire_at
    PROVE  Service!Claim(t)
<1> DEFINE p == [u \in {u \in DOMAIN rows : Pending(u)} |-> rows[u].fire_at]
<1>1. p' = p
  BY DEF Pending
<1>2. t \in DOMAIN p /\ p[t] = rows[t].fire_at
  BY DEF Pending
<1>3. Named(scheduler.fire)' = <<t, p[t]>>
  BY <1>2 DEF Named
<1> QED
  BY <1>1, <1>2, <1>3 DEF Service!Claim, Idle

\* Saving a fire: it is on its way, and its timer is done or goes on.
LEMMA FireStep ==
    ASSUME Types, Types', Held, Order, OnePlace, FireSaves
    PROVE  Service!Fire
<1> DEFINE p == [u \in {u \in DOMAIN rows : Pending(u)} |-> rows[u].fire_at]
           fires == {Named(f) : f \in fired \ (arrived \cup gone)}
<1>0. PICK t, row, fire : t = fire.timer /\ row = scheduler.row /\ fire = scheduler.fire
  OBVIOUS
<1>1. /\ scheduler.at = "save" /\ scheduler'.at = "send" /\ rows' = Updated(t, row)
      /\ fired' = fired \cup {Identity(fire)} /\ UNCHANGED <<now, arrived, gone>>
  BY <1>0 DEF FireSaves
<1>2. /\ row \in Rows /\ fire \in Fires
      /\ Named(Identity(fire)) = Named(fire) /\ Named(fire) = <<t, fire.scheduled>>
  BY <1>0, <1>1, InHand DEF Named, Identity
<1>3. Identity(fire) \notin fired
  BY <1>0, <1>1, <1>2 DEF Order, Identity, Fires
<1>4. fires' = fires \cup {Named(fire)}
  <2>1. arrived \subseteq fired /\ gone \subseteq fired
    <3>1. \A f \in arrived : <<"arrived", f, f>> \in Tokens
      BY DEF Tokens, OnItsWay
    <3>2. \A f \in gone : <<"gone", f, f>> \in Tokens
      BY DEF Tokens
    <3>3. \A a \in Tokens : a[3] \in fired
      BY DEF OnePlace
    <3> QED
      BY <3>1, <3>2, <3>3
  <2>2. fired' \ (arrived' \cup gone') = (fired \ (arrived \cup gone)) \cup {Identity(fire)}
    BY <1>1, <1>3, <2>1
  <2> QED
    BY <1>2, <2>2
<1>5. Service!Timed(p')
  BY PendingTimed
<1>6. /\ DOMAIN p \ {t} \subseteq DOMAIN p' /\ DOMAIN p' \subseteq DOMAIN p \cup {t}
      /\ \A u \in DOMAIN p' \ {t} : p'[u] = p[u]
  BY <1>1 DEF Updated, Pending
<1>7. t \in DOMAIN p' => p'[t] > fire.scheduled
  <2>1. SUFFICES ASSUME t \in DOMAIN rows', Pending(t)' PROVE rows'[t].fire_at > fire.scheduled
    BY DEF Pending
  <2>2. rows'[t] = row
    BY <1>1, <2>1 DEF Updated
  <2> QED
    BY <1>0, <1>1, <1>2, <2>1, <2>2 DEF Pending, Held, SaveHeld, Rows
<1>8. Named(scheduler.fire) = <<t, fire.scheduled>> /\ Named(scheduler.fire) /= << >>
  BY <1>0, <1>2, NamedIsSomething
<1>9. <<t, fire.scheduled>>[1] = t /\ <<t, fire.scheduled>>[2] = fire.scheduled
  OBVIOUS
<1> HIDE DEF p, fires
<1>10. /\ Named(scheduler.fire) /= << >>
       /\ fires' = fires \cup {Named(scheduler.fire)}
       /\ LET n == Named(scheduler.fire)[1]
          IN  /\ DOMAIN p \ {n} \subseteq DOMAIN p' /\ DOMAIN p' \subseteq DOMAIN p \cup {n}
              /\ \A u \in DOMAIN p' : IF u = n THEN p'[n] > Named(scheduler.fire)[2]
                                      ELSE p'[u] = p[u]
  BY <1>2, <1>4, <1>6, <1>7, <1>8, <1>9
<1> QED
  BY <1>1, <1>5, <1>10 DEF Service!Fire, p, fires

\* A fire that reaches its target arrives.
LEMMA ArriveStep ==
    ASSUME Types, Order, OnePlace, NEW fire \in net, RouterDelivers(fire)
    PROVE  /\ Named(fire) \in {Named(f) : f \in fired \ (arrived \cup gone)}
           /\ Service!Arrive(Named(fire))
<1> DEFINE p == [u \in {u \in DOMAIN rows : Pending(u)} |-> rows[u].fire_at]
           fires == {Named(f) : f \in fired \ (arrived \cup gone)}
           f == Identity(fire)
<1>1. /\ arrived' = arrived \cup {f}
      /\ UNCHANGED <<now, rows, scheduler, fired, gone>>
  BY DEF RouterDelivers, table
<1>2. fire \in Fires /\ Named(f) = Named(fire)
  BY DEF Types, Named, Identity
<1>3. f \in fired /\ f \notin arrived /\ f \notin gone
  <2>1. <<"net", fire, f>> \in Tokens
    BY DEF Tokens, OnItsWay
  <2>2. f \in arrived => <<"arrived", f, f>> \in Tokens
    BY DEF Tokens, OnItsWay
  <2>3. f \in gone => <<"gone", f, f>> \in Tokens
    BY DEF Tokens
  <2> HIDE DEF f
  <2>4. f \in fired
    BY <2>1 DEF OnePlace
  <2>5. <<"arrived", f, f>> \notin Tokens
    BY <2>1 DEF OnePlace
  <2>6. <<"gone", f, f>> \notin Tokens
    BY <2>1 DEF OnePlace
  <2> QED
    BY <2>2, <2>3, <2>4, <2>5, <2>6
<1>4. p' = p
  BY <1>1 DEF Pending
<1>5. \A g \in fired : Named(g) = Named(f) => g = f
  BY <1>3 DEF Order, Named
<1> HIDE DEF f
<1>6. fires' = fires \ {Named(f)}
  BY <1>1, <1>3, <1>5
<1>7. {Named(g) : g \in arrived}' = {Named(g) : g \in arrived} \cup {Named(f)}
  BY <1>1
<1>8. Named(fire) \in fires
  BY <1>2, <1>3
<1> QED
  BY <1>1, <1>2, <1>4, <1>6, <1>7, <1>8 DEF Service!Arrive

\* Every step of SY.timer is a step of the service.
LEMMA NextRefines ==
    ASSUME IInv, IInv', [Next]_vars
    PROVE  [Service!Next]_Service!vars
<1> USE DEF table, memory, books
<1>1. /\ Types /\ Types' /\ Held /\ Order /\ OnePlace
      /\ now \in Nat
  BY TimerAssumption DEF IInv, Types
<1>2. CASE /\ UNCHANGED <<now, rows, fired, arrived>> /\ gone \subseteq gone'
           /\ scheduler' = scheduler \/ scheduler'.at /= "save"
  BY <1>2, LapseStep DEF Service!Next
<1>3. ASSUME NEW t \in Timers, NEW at \in 0 .. MaxTime, NEW p \in Templates[t], Schedule(t, p, at)
      PROVE  Service!Next
  <2>1. at > now
    <3>1. NextInstance(now) > now /\ NextInstance(now) \in Nat /\ MinTimerDuration \in Nat \ {0}
          /\ MaxTimerDelay \in Nat
      BY <1>1, NextInstanceAfter, TimerAssumption
    <3> QED
      BY <1>1, <1>3, <3>1, TimerAssumption DEF Schedule
  <2>2. /\ DOMAIN rows' = DOMAIN rows \cup {t}
        /\ rows'[t].fire_at = at /\ rows'[t].status = "pending"
        /\ \A u \in DOMAIN rows \ {t} : rows'[u] = rows[u]
    BY <1>3 DEF Schedule
  <2>3. UNCHANGED <<now, scheduler, fired, arrived, gone>>
    BY <1>3 DEF Schedule
  <2>4. Service!Arm(t)
    BY <1>1, <2>1, <2>2, <2>3, ArmStep DEF Pending
  <2> QED
    BY <2>4 DEF Service!Next
<1>4. ASSUME NEW t \in Timers, CancelReads(t) \/ RescheduleReads(t)
      PROVE  [Service!Next]_Service!vars
  BY <1>2, <1>4 DEF CancelReads, RescheduleReads, Resolve
<1>5. CASE CancelWrites
  <2>1. request.row \in Rows /\ request /= Idle
    BY <1>1, <1>5, InHand DEF CancelWrites, Idle
  <2>2. CanceledRow.status = "canceled"
    BY <2>1 DEF CanceledRow, Rows
  <2>3. \A u \in DOMAIN rows' : Pending(u)' => Pending(u) /\ rows'[u] = rows[u]
    BY <1>5, <2>2 DEF CancelWrites, Updated, Pending
  <2>4. Service!Withdraw
    BY <1>1, <1>5, <2>3, WithdrawStep DEF CancelWrites
  <2> QED
    BY <2>4 DEF Service!Next
<1>6. ASSUME NEW at \in 0 .. MaxTime, RescheduleWrites(at)
      PROVE  Service!Next
  <2>0. PICK t : t = request.timer
    OBVIOUS
  <2>1. request.row \in Rows /\ request /= Idle /\ request.at = "reschedule" /\ t \in Timers
    BY <1>1, <1>6, <2>0, InHand DEF RescheduleWrites, Idle, Types
  <2>2. RescheduledRow(at).fire_at = at /\ RescheduledRow(at).status = "pending"
    BY <1>1, <2>1 DEF RescheduledRow, Rows, Held, RequestHeld
  <2>3. at > now
    <3>1. MinTimerDuration \in Nat \ {0} /\ MaxTimerDelay \in Nat
      BY TimerAssumption
    <3> QED
      BY <1>1, <1>6, <3>1, TimerAssumption DEF RescheduleWrites
  <2>4. /\ UNCHANGED <<now, scheduler, fired, arrived, gone>>
        /\ rows' = [rows EXCEPT ![t] = RescheduledRow(at)] /\ t \in DOMAIN rows
    BY <1>1, <1>6, <2>0, <2>1 DEF RescheduleWrites, Updated, Held, RequestHeld
  <2>5. /\ DOMAIN rows' = DOMAIN rows \cup {t} /\ rows'[t] = RescheduledRow(at)
        /\ \A u \in DOMAIN rows \ {t} : rows'[u] = rows[u]
    BY <2>4
  <2>6. Service!Arm(t)
    BY <1>1, <2>1, <2>2, <2>3, <2>4, <2>5, ArmStep DEF Pending
  <2> QED
    BY <2>1, <2>6 DEF Service!Next
<1>7. CASE RequestFails
  BY <1>2, <1>7 DEF RequestFails
<1>8. ASSUME NEW owner \in Owners, Purge(owner)
      PROVE  Service!Next
  <2>1. \A u \in DOMAIN rows' : u \in DOMAIN rows /\ rows'[u] = rows[u]
    BY <1>8 DEF Purge
  <2>2. UNCHANGED <<now, scheduler, fired, arrived, gone>>
    BY <1>8 DEF Purge
  <2>3. Service!Withdraw
    BY <1>1, <2>1, <2>2, WithdrawStep DEF Pending
  <2> QED
    BY <2>3 DEF Service!Next
<1>9. ASSUME NEW n \in notices, Undelivered(n)
      PROVE  [Service!Next]_Service!vars
  <2>1. gone \subseteq gone'
    BY <1>9 DEF Undelivered, RetryLater
  <2> QED
    BY <1>2, <1>9, <2>1 DEF Undelivered
<1>10. ASSUME NEW e \in items, FireReads(e)
       PROVE  [Service!Next]_Service!vars
  <2>1. CASE Pending(e.timer) /\ rows[e.timer].fire_at <= now
    <3>1. rows[e.timer] \in Rows /\ e.timer \in Timers
      BY <1>1, <2>1, InHand DEF Pending, Types
    <3>2. /\ scheduler = Idle /\ scheduler'.at = "save" /\ scheduler'.fire.timer = e.timer
          /\ scheduler'.fire.scheduled = rows[e.timer].fire_at
          /\ UNCHANGED <<now, rows, fired, arrived, gone>>
      BY <1>1, <1>10, <2>1, <3>1 DEF FireReads, Due, Rows
    <3>3. Service!Claim(e.timer)
      BY <1>1, <2>1, <3>1, <3>2, ClaimStep
    <3> QED
      BY <3>1, <3>3 DEF Service!Next
  <2>2. CASE ~(Pending(e.timer) /\ rows[e.timer].fire_at <= now)
    BY <1>2, <1>10, <2>2 DEF FireReads
  <2> QED
    BY <2>1, <2>2
<1>11. ASSUME NEW e \in items, FireReadFails(e)
       PROVE  [Service!Next]_Service!vars
  BY <1>2, <1>11 DEF FireReadFails
<1>12. CASE FireSaves
  BY <1>1, <1>12, FireStep DEF Service!Next
<1>13. CASE FireSaveFails \/ Deliver \/ SendFails
  <2>1. gone \subseteq gone' /\ scheduler'.at /= "save"
    BY <1>13 DEF FireSaveFails, Deliver, SendFails, RetryLater, Idle
  <2> QED
    BY <1>2, <1>13, <2>1 DEF FireSaveFails, Deliver, SendFails
<1>14. ASSUME NEW r \in retries, RetryFire(r) \/ RetryReadFails(r)
       PROVE  [Service!Next]_Service!vars
  <2>1. gone \subseteq gone' /\ (scheduler' = scheduler \/ scheduler'.at /= "save")
    BY <1>14 DEF RetryFire, RetryReadFails
  <2> QED
    BY <1>2, <1>14, <2>1 DEF RetryFire, RetryReadFails
<1>15. CASE Tick
  <2>1. /\ now' \in Nat /\ now' > now
        /\ UNCHANGED <<rows, scheduler, fired, arrived, gone>>
    BY <1>1, <1>15 DEF Tick
  <2>2. [t \in {u \in DOMAIN rows : Pending(u)} |-> rows[t].fire_at]'
        = [t \in {u \in DOMAIN rows : Pending(u)} |-> rows[t].fire_at]
    BY <2>1 DEF Pending
  <2> QED
    BY <2>1, <2>2 DEF Service!Next, Service!Tick
<1>16. CASE Stop
  BY <1>2, <1>16 DEF Stop, Idle
<1>17. ASSUME NEW fire \in net, RouterDelivers(fire)
       PROVE  Service!Next
  BY <1>1, <1>17, ArriveStep DEF Service!Next
<1>18. ASSUME NEW fire \in net, NEW transient \in BOOLEAN, RouterRefuses(fire, transient)
       PROVE  [Service!Next]_Service!vars
  <2>1. gone \subseteq gone'
    BY <1>18 DEF RouterRefuses
  <2> QED
    BY <1>2, <1>18, <2>1 DEF RouterRefuses
<1>19. CASE Boot
  <2>1. UNCHANGED <<now, scheduler, fired, arrived, gone>>
    BY <1>19 DEF Boot, Start, StartFails
  <2>2. \A t \in DOMAIN rows' : t \in DOMAIN rows /\ rows'[t] \in {rows[t], Replayed(rows[t])}
    BY <1>19 DEF Boot, Start, StartFails, Kept
  <2>3. \A t \in DOMAIN rows' : Pending(t)' =>
            Pending(t) /\ (rows'[t].fire_at = rows[t].fire_at \/ rows'[t].fire_at > now)
    <3> TAKE t \in DOMAIN rows'
    <3>1. t \in DOMAIN rows /\ rows[t] \in Rows
      BY <1>1, <2>2, InHand
    <3> QED
      BY <1>1, <2>2, <3>1, ReplayedIsRow DEF Pending
  <2>4. Service!Withdraw
    BY <1>1, <2>1, <2>3, WithdrawStep
  <2> QED
    BY <2>4 DEF Service!Next
<1>20. CASE UNCHANGED vars
  BY <1>2, <1>20 DEF vars
<1> QED
  BY <1>3, <1>4, <1>5, <1>6, <1>7, <1>8, <1>9, <1>10, <1>11, <1>12, <1>13, <1>14,
     <1>15, <1>16, <1>17, <1>18, <1>19, <1>20
     DEF Next, Requests, SchedulerStep, Environment

\* SY.timer is the service others count on.
THEOREM TimerImplementsService == Spec => ImplementsTimerService
<1>1. Init => Service!Init
  <2>1. SUFFICES ASSUME Init PROVE Service!Init
    OBVIOUS
  <2>2. [t \in {u \in DOMAIN rows : Pending(u)} |-> rows[t].fire_at] = << >>
    BY <2>1 DEF Init
  <2> QED
    BY <2>1, <2>2 DEF Init, Service!Init, Idle
<1>2. IInv /\ IInv' /\ [Next]_vars => [Service!Next]_Service!vars
  BY NextRefines
<1> QED
  BY <1>1, <1>2, TimerInvariant, PTL DEF Spec, ImplementsTimerService, Service!Spec

=============================================================================
