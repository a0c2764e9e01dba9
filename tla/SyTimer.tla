-------------------------------- MODULE SyTimer --------------------------------
(***************************************************************************)
(* SY.timer (src/go/sy-timer): timers in a SQLite table, a goroutine that  *)
(* serves requests (`Service.run`) and one that fires what is due          *)
(* (`timerScheduler.run`).  The scheduler holds a timer's mutex from       *)
(* reading its row to sending its fire; a request does not take it, and    *)
(* both write whole rows, so each may write over what the other saved in   *)
(* between.  A fire is saved before it is sent, and sent again only while  *)
(* the router answers that its target is not there.                        *)
(*                                                                         *)
(* A step is what a goroutine does between two statements of the database. *)
(* Popping an entry and reading its row are one step, as are inserting a   *)
(* row and queueing it: nobody else sees the state in between.  Time is a  *)
(* count.  A cron schedule is every `Period`.  Two equal queue entries do  *)
(* what one does (the second finds its row moved on), so queues are sets.  *)
(* Left out: requests that only read; the branches of policies and cron    *)
(* specs that a request refuses; a fire over the frame limit, which the    *)
(* limits on a timer's data exclude; a collection of old rows that fails   *)
(* at a start, whose rows stay for the next one.                           *)
(***************************************************************************)
EXTENDS Integers, FiniteSets, FiniteSetsExt

CONSTANTS
    Timers,                     \* uuids, each given to one timer
    Owners,
    Templates,                  \* per uuid, what is asked for: owner, client_ref, kind, missed_policy
    NoRef,                      \* no client_ref
    MinTimerDuration, MaxTimerDelay,
    Period,                     \* of a recurring timer
    MissedWithin,               \* missed_within_ms of fire_if_within
    DeliveryRetryDelay, DeliveryRetryWindow, DeliveryAnswerWindow, StorageRetryDelay,
    HistoryRetention,
    MaxPendingTimersPerOwner, MaxPendingTimers,
    MaxTime,                    \* bound: the clock
    MaxChanges,                 \* bound: cancels, reschedules and purges
    MaxFaults                   \* bound: stops of the process and statements that fail

ASSUME TimerAssumption ==
    /\ \A n \in {MinTimerDuration, MaxTimerDelay, Period, MissedWithin, DeliveryRetryDelay} :
          n \in Nat \ {0}
    /\ \A n \in {DeliveryRetryWindow, DeliveryAnswerWindow, StorageRetryDelay, HistoryRetention,
                 MaxPendingTimersPerOwner, MaxPendingTimers, MaxTime, MaxChanges,
                 MaxFaults} :
          n \in Nat
    /\ \A t \in Timers : \A p \in Templates[t] :
          /\ p.owner \in Owners
          /\ p.kind \in {"oneshot", "recurring"}
          /\ p.missed_policy \in {"fire", "drop", "fire_if_within"}

VARIABLES
    now,
    up,                         \* the process runs
    rows,                       \* the table timers, by uuid
    items,                      \* the queue: a timer and when to look at it
    retries,                    \* the queue: a fire and when to send it again
    sent,                       \* fires sent lately, an UNREACHABLE may still name them
    scheduler,                  \* what the scheduler's goroutine is doing
    request,                    \* what the request's goroutine is doing
    net,                        \* TIMER_FIRED messages the router has
    notices,                    \* UNREACHABLE answers on their way back
    changes, faults,
    created,                    \* history: timers ever created
    fired,                      \* history: fires saved, as timer and scheduled time
    arrived,                    \* history: fires that reached their target
    doubled,                    \* history: fires that reached it again
    gone,                       \* history: fires given up, refused or lost
    silenced,                   \* history: timers canceled, purged or dropped, see AnswersKept
    forgotten,                  \* history: timers whose read failed, see PendingQueued
    agreed                      \* history: when a one-shot fires by the last answer, see AnswersKept

table == <<rows, created>>
memory == <<items, retries, sent>>
network == <<net, notices>>
books == <<fired, arrived, doubled, gone>>
answers == <<silenced, forgotten, agreed>>
bounds == <<changes, faults>>
vars == <<now, up, table, memory, scheduler, request, network, bounds, books, answers>>

Idle == [at |-> "idle"]

Pending(t) == t \in DOMAIN rows /\ rows[t].status = "pending"

\* Mutant of RefFree: no unique index.
NoIndex(t, row) == TRUE

\* idx_timers_owner_clientref_pending: one pending timer per owner and client_ref.
RefFree(t, row) ==
    \/ row.status /= "pending" \/ row.client_ref = NoRef
    \/ ~\E u \in DOMAIN rows \ {t} :
          Pending(u) /\ rows[u].owner = row.owner /\ rows[u].client_ref = row.client_ref

\* updateTimer: every column, and nothing when the row was deleted, which the index lets pass.
Updatable(t, row) == t \in DOMAIN rows => RefFree(t, row)
Updated(t, row) == IF t \in DOMAIN rows THEN [rows EXCEPT ![t] = row] ELSE rows

\* Mutant of Queued: a timer is queued once.
QueuedOnce(t, at) ==
    IF \E e \in items : e.timer = t THEN items ELSE items \cup {[timer |-> t, at |-> at]}

\* push.
Queued(t, at) == items \cup {[timer |-> t, at |-> at]}

\* Mutant of NextInstance: the first instance not before an instant.
ThisInstance(instant) == Period * ((instant + Period - 1) \div Period)

\* nextRecurringFireAt: the first instance after an instant.
NextInstance(instant) == Period * (instant \div Period + 1)

Identity(fire) == [timer |-> fire.timer, scheduled |-> fire.scheduled, count |-> fire.count]

\* The scheduler is between reading timer t's row and sending its fire.
Firing(t) == scheduler.at \in {"save", "send"} /\ scheduler.fire.timer = t

\* A statement of the database fails, or the process stops.
Fault == faults < MaxFaults /\ faults' = faults + 1 /\ UNCHANGED changes

Change == changes < MaxChanges /\ changes' = changes + 1 /\ UNCHANGED faults

----------------------------------------------------------------------------
(* Requests. *)

PendingOf(owner) == {t \in DOMAIN rows : Pending(t) /\ rows[t].owner = owner}

\* respondTimerSchedule and respondTimerScheduleRecurring.  A request with the
\* client_ref of a pending timer is answered with that timer and changes nothing.
Schedule(t, p, fire_at) ==
    LET row == [owner |-> p.owner, client_ref |-> p.client_ref, kind |-> p.kind,
                missed_policy |-> p.missed_policy, fire_at |-> fire_at, status |-> "pending",
                stamp |-> now, fire_count |-> 0]
    IN  /\ up /\ request = Idle
        /\ t \notin created
        /\ IF p.kind = "recurring" THEN fire_at = NextInstance(now)
           ELSE fire_at \in now + MinTimerDuration .. now + MaxTimerDelay
        /\ RefFree(t, row)
        /\ Cardinality(PendingOf(p.owner)) < MaxPendingTimersPerOwner
        /\ Cardinality({u \in DOMAIN rows : Pending(u)}) < MaxPendingTimers
        /\ rows' = [u \in DOMAIN rows \cup {t} |-> IF u = t THEN row ELSE rows[u]]
        /\ items' = Queued(t, fire_at)
        /\ created' = created \cup {t}
        /\ agreed' = IF p.kind = "recurring" THEN agreed
                     ELSE [u \in DOMAIN agreed \cup {t} |-> IF u = t THEN fire_at ELSE agreed[u]]
        /\ UNCHANGED <<now, up, retries, sent, scheduler, request, network, bounds, books, silenced, forgotten>>

\* A request reads the row it will write back: resolveOwnedTimerForMutation.
Resolve(t, verb) ==
    /\ up /\ request = Idle
    /\ t \in DOMAIN rows
    /\ Change
    /\ request' = [at |-> verb, timer |-> t, row |-> rows[t], overlapped |-> Firing(t)]
    /\ UNCHANGED <<now, up, table, memory, scheduler, network, books, answers>>

\* respondTimerCancel: a timer that fired is refused.
CancelReads(t) == Resolve(t, "cancel") /\ rows[t].status /= "fired"

CanceledRow == [request.row EXCEPT !.status = "canceled"]

CancelWrites ==
    /\ up /\ request.at = "cancel"
    /\ rows' = Updated(request.timer, CanceledRow)
    /\ request' = Idle
    /\ silenced' = IF request.overlapped THEN silenced ELSE silenced \cup {request.timer}
    /\ UNCHANGED <<now, up, created, memory, scheduler, network, bounds, books, forgotten, agreed>>

\* respondTimerReschedule: a pending one-shot only.  The index has nothing to refuse
\* (RefsUnique): no request gave its client_ref to another timer meanwhile.
RescheduleReads(t) == Pending(t) /\ rows[t].kind = "oneshot" /\ Resolve(t, "reschedule")

RescheduledRow(fire_at) == [request.row EXCEPT !.fire_at = fire_at]

RescheduleWrites(fire_at) ==
    LET t == request.timer
    IN  /\ up /\ request.at = "reschedule"
        /\ fire_at \in now + MinTimerDuration .. now + MaxTimerDelay
        /\ rows' = Updated(t, RescheduledRow(fire_at))
        /\ items' = Queued(t, fire_at)
        /\ request' = Idle
        /\ agreed' = IF request.overlapped
                     THEN [u \in DOMAIN agreed \ {t} |-> agreed[u]]
                     ELSE [u \in DOMAIN agreed \cup {t} |-> IF u = t THEN fire_at ELSE agreed[u]]
        /\ UNCHANGED <<now, up, created, retries, sent, scheduler, network, bounds, books, silenced, forgotten>>

\* The update of a request fails: it is answered TIMER_STORAGE_ERROR.
RequestFails ==
    /\ up /\ request /= Idle
    /\ Fault
    /\ request' = Idle
    /\ UNCHANGED <<now, up, table, memory, scheduler, network, books, answers>>

\* respondTimerPurgeOwner.
Purge(owner) ==
    LET owned == {t \in DOMAIN rows : rows[t].owner = owner}
    IN  /\ up /\ request = Idle
        /\ owned /= {}
        /\ Change
        /\ rows' = [t \in DOMAIN rows \ owned |-> rows[t]]
        /\ silenced' = silenced \cup {t \in owned : ~Firing(t)}
        /\ UNCHANGED <<now, up, created, memory, scheduler, request, network, books, forgotten, agreed>>

----------------------------------------------------------------------------
(* The scheduler. *)

\* popDue: the earliest entry of the queue, when its time came.
Due(at) ==
    /\ up /\ scheduler = Idle
    /\ at <= now
    /\ \A e \in items \cup retries : at <= e.at

\* The request in hand meets a fire of its timer.
Meets(t) ==
    request' = IF request /= Idle /\ request.timer = t
               THEN [request EXCEPT !.overlapped = TRUE] ELSE request

\* deliveryDeadline, and the cut of a recurring timer's at its next instance.
DeliveryDeadline(row) ==
    LET latest == now + DeliveryRetryWindow
    IN  IF row.kind = "recurring" THEN Min({latest, NextInstance(now)})
        ELSE CASE row.missed_policy = "drop" -> now
               [] row.missed_policy = "fire_if_within" -> Min({latest, row.fire_at + MissedWithin})
               [] row.missed_policy = "fire" -> latest

\* Mutant of FiredRow: a one-shot is marked fired when it was sent, not before.
FiredRowLater(row) ==
    IF row.kind = "recurring"
    THEN [row EXCEPT !.fire_count = @ + 1, !.stamp = now, !.fire_at = NextInstance(now)]
    ELSE [row EXCEPT !.stamp = now]

\* What is saved for a fire: the row's next instance, or that it fired.
FiredRow(row) ==
    LET counted == [row EXCEPT !.fire_count = @ + 1, !.stamp = now]
    IN  IF row.kind = "recurring" THEN [counted EXCEPT !.fire_at = NextInstance(now)]
        ELSE [counted EXCEPT !.status = "fired"]

\* fireTimerByUUID up to its update.
FireReads(e) ==
    LET t == e.timer
        row == rows[t]
    IN  /\ Due(e.at)
        /\ \/ /\ Pending(t) /\ row.fire_at <= now
              /\ items' = items \ {e}
              /\ scheduler' = [at |-> "save", row |-> FiredRow(row), read_at |-> now,
                               fire |-> [timer |-> t, scheduled |-> row.fire_at,
                                         count |-> row.fire_count + 1, attempt |-> 1,
                                         deadline |-> DeliveryDeadline(row)]]
              /\ Meets(t)
           \/ /\ Pending(t) /\ row.fire_at > now
              /\ items' = (items \ {e}) \cup {[timer |-> t, at |-> row.fire_at]}
              /\ UNCHANGED <<scheduler, request>>
           \/ /\ ~Pending(t)
              /\ items' = items \ {e}
              /\ UNCHANGED <<scheduler, request>>
        /\ UNCHANGED <<now, up, table, retries, sent, network, bounds, books, answers>>

\* fireTimerByUUID's getTimer fails: the entry is gone and nothing takes its place.
FireReadFails(e) ==
    /\ Due(e.at) /\ Fault
    /\ items' = items \ {e}
    /\ forgotten' = forgotten \cup {e.timer}
    /\ UNCHANGED <<now, up, table, retries, sent, scheduler, request, network, books, silenced, agreed>>

\* Its update, and the next instance of a recurring timer queued.
FireSaves ==
    LET t == scheduler.fire.timer
    IN  /\ up /\ scheduler.at = "save"
        /\ Updatable(t, scheduler.row)
        /\ rows' = Updated(t, scheduler.row)
        /\ items' = IF scheduler.row.kind = "recurring" THEN Queued(t, scheduler.row.fire_at)
                    ELSE items
        /\ scheduler' = [at |-> "send", fire |-> scheduler.fire]
        /\ fired' = fired \cup {Identity(scheduler.fire)}
        /\ UNCHANGED <<now, up, created, retries, sent, request, network, bounds,
                       arrived, doubled, gone, answers>>

\* Its update fails, by the index or the disk: the fire waits, nothing is sent.
FireSaveFails ==
    /\ up /\ scheduler.at = "save"
    /\ \/ Fault
       \/ ~Updatable(scheduler.fire.timer, scheduler.row) /\ UNCHANGED bounds
    /\ items' = Queued(scheduler.fire.timer, scheduler.read_at + StorageRetryDelay)
    /\ scheduler' = Idle
    /\ UNCHANGED <<now, up, table, retries, sent, request, network, books, answers>>

\* retryLater: the next attempt, unless it would come after the deadline.
RetryLater(fire) ==
    LET next == now + DeliveryRetryDelay
    IN  IF next > fire.deadline
        THEN gone' = gone \cup {Identity(fire)} /\ UNCHANGED retries
        ELSE /\ retries' = retries \cup
                    {[at |-> next, fire |-> [fire EXCEPT !.attempt = @ + 1]]}
             /\ UNCHANGED gone

\* The fires sent in the last deliveryAnswerWindow, which deliver keeps.
Recent == {s \in sent : now - s.sent_at <= DeliveryAnswerWindow}

\* Mutant of Deliver: the next attempt is queued without waiting for an answer.
DeliverAndRetry ==
    /\ up /\ scheduler.at = "send"
    /\ sent' = Recent \cup {[fire |-> scheduler.fire, sent_at |-> now]}
    /\ net' = net \cup {scheduler.fire}
    /\ RetryLater(scheduler.fire)
    /\ scheduler' = Idle
    /\ UNCHANGED <<now, up, table, items, request, notices, bounds, fired, arrived, doubled, answers>>

\* deliver: the link takes the message.  The fire and its attempt stand for the trace_id.
Deliver ==
    /\ up /\ scheduler.at = "send"
    /\ sent' = Recent \cup {[fire |-> scheduler.fire, sent_at |-> now]}
    /\ net' = net \cup {scheduler.fire}
    /\ scheduler' = Idle
    /\ UNCHANGED <<now, up, table, items, retries, request, notices, bounds, books, answers>>

\* deliver: the send fails.
SendFails ==
    /\ up /\ scheduler.at = "send"
    /\ sent' = Recent
    /\ RetryLater(scheduler.fire)
    /\ scheduler' = Idle
    /\ UNCHANGED <<now, up, table, items, request, network, bounds, fired, arrived, doubled, answers>>

\* undelivered: the router's UNREACHABLE for a fire, when it is still known.
Undelivered(notice) ==
    /\ up /\ request = Idle
    /\ notices' = notices \ {notice}
    /\ sent' = {s \in sent : s.fire /= notice.fire}
    /\ IF notice.transient /\ \E s \in sent : s.fire = notice.fire
       THEN RetryLater(notice.fire)
       ELSE gone' = gone \cup {Identity(notice.fire)} /\ UNCHANGED retries
    /\ UNCHANGED <<now, up, table, items, scheduler, request, net, bounds,
                   fired, arrived, doubled, answers>>

\* Mutant of StillWanted: only a purge stops the retries.
StillThere(t) == t \in DOMAIN rows

\* retryFire: dropped when its timer was canceled or purged since.
StillWanted(t) == t \in DOMAIN rows /\ rows[t].status /= "canceled"

RetryFire(r) ==
    /\ Due(r.at)
    /\ \/ /\ StillWanted(r.fire.timer)
          /\ retries' = retries \ {r}
          /\ scheduler' = [at |-> "send", fire |-> r.fire]
          /\ Meets(r.fire.timer)
          /\ UNCHANGED gone
       \/ /\ ~StillWanted(r.fire.timer)
          /\ retries' = retries \ {r}
          /\ gone' = gone \cup {Identity(r.fire)}
          /\ UNCHANGED <<scheduler, request>>
    /\ UNCHANGED <<now, up, table, items, sent, network, bounds, fired, arrived, doubled, answers>>

\* retryFire's getTimer fails: one more wait.
RetryReadFails(r) ==
    LET next == now + DeliveryRetryDelay
    IN  /\ Due(r.at) /\ Fault
        /\ IF next > r.fire.deadline
           THEN gone' = gone \cup {Identity(r.fire)} /\ retries' = retries \ {r}
           ELSE /\ retries' = (retries \ {r}) \cup
                       {[at |-> next, fire |-> [r.fire EXCEPT !.attempt = @ + 1]]}
                /\ UNCHANGED gone
        /\ UNCHANGED <<now, up, table, items, sent, scheduler, request, network,
                       fired, arrived, doubled, answers>>

----------------------------------------------------------------------------
(* The router, time, and the process.  A message the router loses stays in net. *)

\* The router hands the message to its target.
RouterDelivers(fire) ==
    /\ net' = net \ {fire}
    /\ arrived' = arrived \cup {Identity(fire)}
    /\ doubled' = doubled \cup ({Identity(fire)} \cap arrived)
    /\ UNCHANGED <<now, up, table, memory, scheduler, request, notices, bounds, fired, gone, answers>>

\* The router answers UNREACHABLE, for a target that is away or for another reason.
RouterRefuses(fire, transient) ==
    /\ net' = net \ {fire}
    /\ IF up THEN notices' = notices \cup {[fire |-> fire, transient |-> transient]} /\ UNCHANGED gone
       ELSE gone' = gone \cup {Identity(fire)} /\ UNCHANGED notices
    /\ UNCHANGED <<now, up, table, memory, scheduler, request, bounds, fired, arrived, doubled, answers>>

Tick ==
    /\ now < MaxTime
    /\ now' = now + 1
    /\ UNCHANGED <<up, table, memory, scheduler, request, network, bounds, books, answers>>

\* The fires only the process has.
InMemory ==
    {r.fire : r \in retries} \cup {n.fire : n \in notices}
    \cup (IF scheduler.at = "send" THEN {scheduler.fire} ELSE {})

\* The process stops at any step: what is only in memory is lost.
Stop ==
    /\ up /\ Fault
    /\ up' = FALSE
    /\ items' = {} /\ retries' = {} /\ sent' = {} /\ notices' = {}
    /\ scheduler' = Idle /\ request' = Idle
    /\ gone' = gone \cup {Identity(fire) : fire \in InMemory}
    /\ UNCHANGED <<now, table, net, fired, arrived, doubled, answers>>

\* handleMissedTimer: whether a one-shot found at a start is still to fire.
OnTime(row) ==
    \/ row.fire_at > now
    \/ row.missed_policy = "fire"
    \/ row.missed_policy = "fire_if_within" /\ now - row.fire_at <= MissedWithin

\* Mutant of Replayed: a missed timer gets a status of its own.
ReplayedMissed(row) ==
    CASE row.status /= "pending" -> row
      [] row.status = "pending" /\ row.kind = "recurring" -> [row EXCEPT !.fire_at = NextInstance(now)]
      [] row.status = "pending" /\ row.kind = "oneshot" ->
            IF OnTime(row) THEN row ELSE [row EXCEPT !.status = "missed"]

\* replayPending for one row.
Replayed(row) ==
    CASE row.status /= "pending" -> row
      [] row.status = "pending" /\ row.kind = "recurring" -> [row EXCEPT !.fire_at = NextInstance(now)]
      [] row.status = "pending" /\ row.kind = "oneshot" ->
            IF OnTime(row) THEN row ELSE [row EXCEPT !.status = "canceled"]

\* gcHistoricalTimers: what outlived its retention.
Kept == {t \in DOMAIN rows : Pending(t) \/ rows[t].stamp >= now - HistoryRetention}

\* main up to the scheduler's start.
Start ==
    LET replayed == [t \in Kept |-> Replayed(rows[t])]
        pending == {t \in Kept : replayed[t].status = "pending"}
    IN  /\ ~up
        /\ up' = TRUE
        /\ rows' = replayed
        /\ items' = {[timer |-> t, at |-> replayed[t].fire_at] : t \in pending}
        /\ silenced' = silenced \cup {t \in Kept : Pending(t) /\ t \notin pending}
        /\ forgotten' = {}
        /\ UNCHANGED <<now, created, retries, sent, scheduler, request, network, bounds, books, agreed>>

\* An update of replayPending fails and the process exits: the rows before it were written.
StartFails(done) ==
    /\ ~up /\ Fault
    /\ rows' = [t \in Kept |-> IF t \in done THEN Replayed(rows[t]) ELSE rows[t]]
    /\ silenced' = silenced \cup {t \in done : Pending(t) /\ Replayed(rows[t]).status = "canceled"}
    /\ UNCHANGED <<now, up, created, memory, scheduler, request, network, books, forgotten, agreed>>

----------------------------------------------------------------------------
Init ==
    /\ now = 0 /\ up = TRUE
    /\ rows = << >> /\ created = {}
    /\ items = {} /\ retries = {} /\ sent = {}
    /\ scheduler = Idle /\ request = Idle
    /\ net = {} /\ notices = {}
    /\ changes = 0 /\ faults = 0
    /\ fired = {} /\ arrived = {} /\ doubled = {} /\ gone = {}
    /\ silenced = {} /\ forgotten = {} /\ agreed = << >>

Requests ==
    \/ \E t \in Timers, at \in 0 .. MaxTime : \E p \in Templates[t] : Schedule(t, p, at)
    \/ \E t \in Timers : CancelReads(t) \/ RescheduleReads(t)
    \/ CancelWrites
    \/ \E at \in 0 .. MaxTime : RescheduleWrites(at)
    \/ RequestFails
    \/ \E owner \in Owners : Purge(owner)
    \/ \E n \in notices : Undelivered(n)

SchedulerStep ==
    \/ \E e \in items : FireReads(e) \/ FireReadFails(e)
    \/ FireSaves \/ FireSaveFails
    \/ Deliver \/ SendFails
    \/ \E r \in retries : RetryFire(r) \/ RetryReadFails(r)

Environment ==
    \/ Tick \/ Stop
    \/ \E fire \in net : RouterDelivers(fire)
    \/ \E fire \in net, transient \in BOOLEAN : RouterRefuses(fire, transient)

Boot == Start \/ \E done \in SUBSET Kept : StartFails(done)

Next == Requests \/ SchedulerStep \/ Environment \/ Boot

Spec == Init /\ [][Next]_vars

----------------------------------------------------------------------------
(* Properties. *)

\* The rows, the queue and the goroutines stay in their types: a status is one of the
\* table's three, and what is queued or promised was created.
TypeOK ==
    /\ now \in 0 .. MaxTime /\ up \in BOOLEAN
    /\ DOMAIN rows \subseteq created /\ created \subseteq Timers
    /\ \A t \in DOMAIN rows : rows[t].status \in {"pending", "fired", "canceled"}
    /\ scheduler.at \in {"idle", "save", "send"}
    /\ request.at \in {"idle", "cancel", "reschedule"}
    /\ \A e \in items : e.timer \in created
    /\ silenced \subseteq created /\ DOMAIN agreed \subseteq created

\* A fire, one timer's for one scheduled time, reaches its target at most once,
\* although it is sent again after an UNREACHABLE, its timer may be queued twice, a
\* request may write over what the scheduler saved, and the process stops anywhere.
AtMostOnce == doubled = {}

\* The same by fire_count, the number a target sees: no two fires of a timer that
\* arrive have the same.  It fails: a reschedule that overlaps the fire writes the count
\* back (run sy_timer_reschedule).
CountsUnique ==
    \A f, g \in arrived : f.timer = g.timer /\ f.count = g.count => f = g

\* A pending timer is queued, for its time or for the retry of a save that failed, or
\* the scheduler has its fire in hand: requests, stops and failing writes leave no
\* pending timer behind.  Only the read of a due row that fails does: its timer is
\* forgotten until the next start.
PendingQueued ==
    up => \A t \in DOMAIN rows \ forgotten :
             Pending(t) =>
                \/ scheduler.at = "save" /\ scheduler.fire.timer = t
                \/ \E e \in items :
                      /\ e.timer = t
                      /\ \/ e.at <= rows[t].fire_at
                         \/ e.at <= now + StorageRetryDelay

\* Where a saved fire is: in hand, with the router, answered, waiting to be sent again,
\* at its target, or given up.
Places(f) ==
    LET here == {fire \in {s \in {scheduler} : s.at = "send"} : Identity(fire.fire) = f}
        with_router == {fire \in net : Identity(fire) = f}
        answered == {n \in notices : Identity(n.fire) = f}
        waiting == {r \in retries : Identity(r.fire) = f}
    IN  Cardinality(here) + Cardinality(with_router) + Cardinality(answered)
        + Cardinality(waiting) + Cardinality({f} \cap arrived) + Cardinality({f} \cap gone)

\* A saved fire is in one place: no attempt is made while an earlier one may still
\* arrive or be answered, and none is dropped other than by a reason to give it up
\* (refused, late, canceled, or the process stopped).
FireInOnePlace == \A f \in fired : Places(f) = 1

\* An answered request holds unless a fire of its timer overlapped it: a timer canceled,
\* purged or dropped as missed is not fired or sent again any more, and a one-shot
\* fires for the time last answered.
AnswersKept ==
    scheduler.at \in {"save", "send"} =>
        LET fire == scheduler.fire
        IN  /\ fire.timer \notin silenced
            /\ fire.attempt = 1 /\ fire.timer \in DOMAIN agreed =>
                  fire.scheduled = agreed[fire.timer]

\* One pending timer per owner and client_ref, also after a reschedule wrote back as
\* pending a row that had fired meanwhile.
RefsUnique ==
    \A t, u \in DOMAIN rows :
        /\ Pending(t) /\ Pending(u)
        /\ rows[t].owner = rows[u].owner
        /\ rows[t].client_ref = rows[u].client_ref /\ rows[t].client_ref /= NoRef
        => t = u

\* A fire as TimerService knows it.
Named(fire) == <<fire.timer, fire.scheduled>>
Service ==
    INSTANCE TimerService WITH
        None <- << >>,
        pending <- [t \in {u \in DOMAIN rows : Pending(u)} |-> rows[t].fire_at],
        claim <- IF scheduler.at = "save" THEN Named(scheduler.fire) ELSE << >>,
        fires <- {Named(f) : f \in fired \ (arrived \cup gone)},
        arrived <- {Named(f) : f \in arrived}

\* SY.timer is the service others count on: every step of the table, the queues and the
\* network is one of TimerService, or none.
ImplementsTimerService == Service!Spec

================================================================================
