-------------------------------- MODULE WfEngine --------------------------------
(***************************************************************************)
(* The workflow engine (src/go/nodes/wf/wf-generic/node): conversations    *)
(* that take events one at a time on the node's receive loop.  An event is *)
(* journaled before it runs, its actions go out while it runs, and one     *)
(* commit writes the instance's state, queues the internal events it       *)
(* emitted and deletes the event.  A start drains and runs again what a    *)
(* crash left, then reconciles the index of timers with SY.timer.          *)
(*                                                                         *)
(* A definition is what each event does: its script, a sequence of         *)
(* actions; an instance's state is the events that made it, with how often *)
(* each did (`done`).  A step is what goes on between two statements of    *)
(* the store or two requests to SY.timer, so that a crash may come between *)
(* any two.                                                                *)
(* SY.timer (module SyTimer) is here what the engine sees of it: at most   *)
(* one pending timer per client_ref, requests and fires that may be lost.  *)
(* Time is in minutes, SY.timer's least; the tolerance of two seconds on a *)
(* fire's time is nothing in them.                                         *)
(*                                                                         *)
(* Left out: redeployed definitions; the caps on internal events and agent *)
(* calls; kept messages; answers to senders; a panic, which fails its      *)
(* instance as a failing action does; the exit actions before a            *)
(* cancellation and the entry actions of a cancelled or failed state,      *)
(* which go on whatever fails; what comes between scheduleAgain's request  *)
(* and its RegisterTimer.                                                  *)
(***************************************************************************)
EXTENDS Integers, Sequences, FiniteSets, FiniteSetsExt, SequencesExt

CONSTANTS
    Messages,                   \* each comes once; an instance is named for what started it
    Keys,                       \* timer keys
    ThreadOf,                   \* a message's thread
    Starters,                   \* messages of a start_from node
    MessageScript, FireScript, InternalScript,
    TimerDelay, MoveDelay,      \* fire_in of schedule_timer and of reschedule_timer
    MinTimerDuration,
    MaxReplayAttempts,
    MaxTime,                    \* bound: the clock
    MaxFaults                   \* bound: crashes, statements and requests that fail, losses

Actions == {<<"send">>, <<"emit">>, <<"end">>, <<"die">>}
             \cup {"schedule", "cancel", "reschedule"} \X Keys

ASSUME WfAssumption ==
    /\ \A n \in {TimerDelay, MoveDelay, MinTimerDuration} : n \in Nat \ {0}
    /\ \A n \in {MaxReplayAttempts, MaxTime, MaxFaults} : n \in Nat
    /\ Starters \subseteq Messages
    /\ \A m \in Messages : MessageScript[m] \in Seq(Actions)
    /\ \A k \in Keys : FireScript[k] \in Seq(Actions)
    /\ InternalScript \in Seq(Actions)

VARIABLES
    now,
    rows,                       \* wf_instances
    journal,                    \* wf_inbound_events, by event; a row's id is its place
    serial,                     \* the last event_id or creation: rows are numbered as they come
    internal,                   \* wf_internal_events, oldest first
    index,                      \* wf_instance_timers, by instance and key
    up,
    registry,                   \* the running instances in memory
    work,                       \* the transition that runs
    agenda,                     \* what a start or a reconciliation has still to do
    degraded,                   \* timersPending
    listing,                    \* the TIMER_LIST asked off the loop
    armed,                      \* SY.timer: pending timers
    fires,                      \* SY.timer: fires on their way
    faults,
    received,                   \* history: messages that came
    taken,                      \* history: the instance of each inbound event journaled
    dropped,                    \* history: inbound events a start did not run again
    ran,                        \* history: how often each inbound event was begun
    expected,                   \* history: how often each timer entered the index
    fired,                      \* history: how often its fire was taken
    lost,                       \* history: timers a fault cost their schedule or fire, see TimersBacked
    strayed,                    \* history: timers indexed when SY.timer had them no more, see TimersBacked
    unsaved,                    \* history: instances whose end was not committed, see OneConversation
    ended                       \* history: instances whose end was committed

store == <<rows, journal, serial, internal, index>>
memory == <<up, registry, work, agenda, degraded, listing>>
timers == <<armed, fires>>
history == <<received, taken, dropped, ran, expected, fired, lost, strayed, unsaved, ended>>
vars == <<now, store, memory, timers, faults, history>>

Idle == [at |-> "idle"]
NoEvent == [kind |-> "none"]
NoList == [at |-> "none"]
Message(m) == [kind |-> "message", id |-> m]
Script(event) ==
    CASE event.kind = "message" -> MessageScript[event.id]
      [] event.kind = "fire" -> FireScript[event.id[2]]
      [] event.kind = "internal" -> InternalScript

Without(f, S) == [x \in DOMAIN f \ S |-> f[x]]
With(f, x, value) == [y \in DOMAIN f \cup {x} |-> IF y = x THEN value ELSE f[y]]
Count(f, x) == With(f, x, IF x \in DOMAIN f THEN f[x] + 1 ELSE 1)
TimersOf(i) == {t \in DOMAIN index : t[1] = i}

Fault == faults < MaxFaults /\ faults' = faults + 1

\* A step of the receive loop between two events.
Loop == up /\ work = Idle /\ agenda = {}

\* The order of the tasks of a start and of a reconciliation: its stages, the journal's rows
\* as they came, the timers as they fire.
Stage == [drain |-> 1, list |-> 2, replay |-> 3, reconcile |-> 4, settle |-> 5, timer |-> 6, orphan |-> 7]
Before(a, b) ==
    \/ Stage[a.do] < Stage[b.do]
    \/ a.do = "replay" /\ b.do = "replay" /\ a.row.id < b.row.id
    \/ a.do = "timer" /\ b.do = "timer" /\ a.fire_at < b.fire_at
Due(task, do) ==
    /\ up /\ work = Idle
    /\ task.do = do /\ \A other \in agenda : ~Before(other, task)

----------------------------------------------------------------------------
(* Taking an event. *)

\* The transition of an event about to run: RunTransition, or runCreation, with the number
\* of the event's row in the journal.
Begin(i, kind, event, id, leftover) ==
    [at |-> "act", inst |-> i, kind |-> kind, event |-> event, id |-> id, todo |-> Script(event),
     emitted |-> FALSE, status |-> "running", fire_at |-> 0, leftover |-> leftover]

\* deliver and create: journal, then run.
Take(i, kind, event) ==
    /\ serial' = serial + 1
    /\ journal' = With(journal, event, [inst |-> i, kind |-> kind, id |-> serial + 1, attempts |-> 0])
    /\ work' = Begin(i, kind, event, serial + 1, FALSE)
    /\ taken' = With(taken, event, i)
    /\ ran' = Count(ran, event)

\* An instance holds the thread of the message that started it.
Holders(thread) == {i \in DOMAIN registry : ThreadOf[i] = thread}

\* dispatchWorkflowEvent: to the instance on the message's thread, or a new one.
Receive(m) ==
    /\ Loop /\ m \notin received
    /\ received' = received \cup {m}
    /\ \/ \E i \in Holders(ThreadOf[m]) : Take(i, "event", Message(m))
       \/ /\ Holders(ThreadOf[m]) = {} /\ m \in Starters
          /\ Take(m, "create", Message(m))
       \/ /\ Holders(ThreadOf[m]) = {} /\ m \notin Starters
          /\ UNCHANGED <<journal, serial, work, taken, ran>>
    /\ UNCHANGED <<now, rows, internal, index, up, registry, agenda, degraded, listing, timers,
                   faults, dropped, expected, fired, lost, strayed, unsaved, ended>>

\* Its JournalInbound fails: the message is lost.
ReceiveFails(m) ==
    /\ Loop /\ m \notin received
    /\ Fault
    /\ received' = received \cup {m}
    /\ UNCHANGED <<now, store, memory, timers, taken, dropped, ran, expected, fired, lost, strayed, unsaved, ended>>

\* A timer's fire, named for how many came before it.
FireOf(t) == [kind |-> "fire", id |-> <<t[1], t[2], fired[t] + 1>>]

\* Mutant of TakeFire: the index row stays until the transition commits.
TakeFireKeepingRow(t) ==
    /\ Take(t[1], "event", FireOf(t))
    /\ fired' = [fired EXCEPT ![t] = @ + 1]
    /\ UNCHANGED index

\* JournalInbound of a fire: the timer's index row goes in the same commit.
TakeFire(t) ==
    /\ Take(t[1], "event", FireOf(t))
    /\ index' = Without(index, {t})
    /\ fired' = [fired EXCEPT ![t] = @ + 1]

----------------------------------------------------------------------------
(* Requests to SY.timer, which may not reach it. *)

\* SY.timer has the timer, or its fire is on its way.
Backed(t) == t \in DOMAIN armed \/ \E f \in fires : f.timer = t

\* TIMER_SCHEDULE: a pending timer with the client_ref is kept.
Scheduled(t, at) == IF t \in DOMAIN armed THEN armed ELSE With(armed, t, at)

\* TIMER_RESCHEDULE: only a pending timer moves.
Moved(t, at) == IF t \in DOMAIN armed THEN With(armed, t, at) ELSE armed

\* A request that changes what SY.timer has to `outcome`, or does not reach it.
Request(outcome) ==
    \/ armed' = outcome /\ UNCHANGED faults
    \/ Fault /\ UNCHANGED armed

RequestSchedule(t, at) ==
    /\ Request(Scheduled(t, at))
    /\ lost' = IF t \in DOMAIN armed' THEN lost ELSE lost \cup {t}

\* Mutant of ScheduleAgain: a timer SY.timer does not have is left at that.
NotAgain(t, since) == UNCHANGED <<armed, index, faults, lost>>

\* scheduleAgain: at its time, SY.timer's least ahead at least.  A link that takes no
\* request leaves the index as it was.
ScheduleAgain(t, since) ==
    LET at == Max({index[t].fire_at, since + MinTimerDuration})
    IN  \/ /\ RequestSchedule(t, at)
           /\ index' = [index EXCEPT ![t] = [scheduled |-> since, fire_at |-> at]]
        \/ /\ Fault
           /\ lost' = lost \cup {t}
           /\ UNCHANGED <<armed, index>>

\* Mutant of Current: any fire of a timer in the index is the one it expects.
AnyFire(fire) == TRUE

\* takeTimerFired: a fire is the one the index expects, not one for a time it moved from.
Current(fire) == index[fire.timer].fire_at <= fire.scheduled

FireArrives(fire) ==
    LET t == fire.timer
    IN  /\ Loop
        /\ fires' = fires \ {fire}
        /\ \/ /\ t[1] \in DOMAIN registry /\ t \in DOMAIN index /\ Current(fire)
              /\ TakeFire(t)
              /\ UNCHANGED <<armed, faults, lost>>
           \/ /\ t[1] \in DOMAIN registry /\ t \in DOMAIN index /\ ~Current(fire)
              /\ ScheduleAgain(t, now)
              /\ UNCHANGED <<journal, serial, work, taken, ran, fired>>
           \/ /\ t[1] \notin DOMAIN registry \/ t \notin DOMAIN index
              /\ UNCHANGED <<journal, serial, work, taken, ran, fired, index, armed, faults, lost>>
        /\ UNCHANGED <<now, rows, internal, up, registry, agenda, degraded, listing, received,
                       dropped, expected, strayed, unsaved, ended>>

\* A fire does not come, or is not journaled.
FireLost(fire) ==
    /\ Fault
    /\ fires' = fires \ {fire}
    /\ lost' = lost \cup {fire.timer}
    /\ UNCHANGED <<now, store, memory, armed, received, taken, dropped, ran, expected, fired, strayed, unsaved, ended>>

\* SY.timer loses a timer, or drops it by its missed_policy.
TimerLost(t) ==
    /\ t \in DOMAIN armed /\ Fault
    /\ armed' = Without(armed, {t})
    /\ lost' = lost \cup {t}
    /\ UNCHANGED <<now, store, memory, fires, received, taken, dropped, ran, expected, fired, strayed, unsaved, ended>>

\* SY.timer fires what is due.
TimerFires(t) ==
    /\ t \in DOMAIN armed /\ armed[t] <= now
    /\ armed' = Without(armed, {t})
    /\ fires' = fires \cup {[timer |-> t, scheduled |-> armed[t]]}
    /\ UNCHANGED <<now, store, memory, faults, history>>

----------------------------------------------------------------------------
(* The actions of a transition. *)

Acting(do) == up /\ work.at = "act" /\ work.todo /= << >> /\ Head(work.todo)[1] = do
Timer == <<work.inst, Head(work.todo)[2]>>
Rest == Tail(work.todo)

\* cancelInstanceTimers, in the order the store has them.
CancelAll(i) == SetToSeqs({<<"cancel", t[2]>> : t \in TimersOf(i)})

\* execScheduleTimer: the request, and then the index.
SendSchedule ==
    /\ Acting("schedule")
    /\ RequestSchedule(Timer, now + TimerDelay)
    /\ work' = [work EXCEPT !.todo = <<<<"register", Timer[2]>>>> \o Rest, !.fire_at = now + TimerDelay]
    /\ UNCHANGED <<now, store, up, registry, agenda, degraded, listing, fires,
                   received, taken, dropped, ran, expected, fired, strayed, unsaved, ended>>

\* execRescheduleTimer, of a timer in the index.  A request that overlaps the timer's fire
\* makes SY.timer's row pending again (SyTimer's RescheduleWrites).
SendReschedule ==
    /\ Acting("reschedule") /\ Timer \in DOMAIN index
    /\ \/ Request(Moved(Timer, now + MoveDelay))
       \/ /\ \E fire \in fires : fire.timer = Timer
          /\ armed' = With(armed, Timer, now + MoveDelay)
          /\ UNCHANGED faults
    /\ work' = [work EXCEPT !.todo = <<<<"register", Timer[2]>>>> \o Rest, !.fire_at = now + MoveDelay]
    /\ UNCHANGED <<now, store, up, registry, agenda, degraded, listing, fires, history>>

\* RegisterTimer.
Register ==
    /\ Acting("register")
    /\ index' = With(index, Timer, [scheduled |-> now, fire_at |-> work.fire_at])
    /\ expected' = IF Timer \in DOMAIN index THEN expected ELSE [expected EXCEPT ![Timer] = @ + 1]
    /\ work' = [work EXCEPT !.todo = Rest]
    /\ strayed' = IF Backed(Timer) THEN strayed ELSE strayed \cup {Timer}
    /\ UNCHANGED <<now, rows, journal, serial, internal, up, registry, agenda, degraded, listing, timers,
                   faults, received, taken, dropped, ran, fired, lost, unsaved, ended>>

\* execCancelTimer, and each timer of cancelInstanceTimers: the request, and then the index.
SendCancel ==
    /\ Acting("cancel") /\ Timer \in DOMAIN index
    /\ Request(Without(armed, {Timer}))
    /\ work' = [work EXCEPT !.todo = <<<<"forget", Timer[2]>>>> \o Rest]
    /\ UNCHANGED <<now, store, up, registry, agenda, degraded, listing, fires, history>>

Forget ==
    /\ Acting("forget")
    /\ index' = Without(index, {Timer})
    /\ work' = [work EXCEPT !.todo = Rest]
    /\ UNCHANGED <<now, rows, journal, serial, internal, up, registry, agenda, degraded, listing, timers,
                   faults, history>>

\* A timer that is not in the index is neither cancelled nor moved.  A timer action whose
\* request the link refuses, or whose statement fails, is logged and the transition goes on
\* (on_error continue, their default; and always in cancelInstanceTimers).
SkipTimerAction ==
    /\ \/ /\ Acting("cancel") \/ Acting("reschedule")
          /\ Timer \notin DOMAIN index
          /\ UNCHANGED <<faults, lost>>
       \/ /\ Acting("schedule") \/ Acting("reschedule") \/ (Acting("cancel") /\ work.status = "running")
          /\ Fault
          /\ UNCHANGED lost
       \/ /\ Acting("register") \/ Acting("forget")
          /\ Fault
          /\ lost' = lost \cup {Timer}
    /\ work' = [work EXCEPT !.todo = Rest]
    /\ UNCHANGED <<now, store, up, registry, agenda, degraded, listing, timers,
                   received, taken, dropped, ran, expected, fired, strayed, unsaved, ended>>

\* execSendMessage and the like, and execEmitInternalEvent.
Send ==
    /\ Acting("send") \/ Acting("emit")
    /\ work' = [work EXCEPT !.todo = Rest, !.emitted = @ \/ Acting("emit")]
    /\ UNCHANGED <<now, store, up, registry, agenda, degraded, listing, timers, faults, history>>

\* The transition reaches a terminal state, or an action fails with on_error fail, by its
\* request or by its statement (routeToFailed): the timers are cancelled and what was emitted goes.
End ==
    /\ \/ Acting("end") /\ UNCHANGED <<faults, lost>>
       \/ /\ \E do \in {"send", "schedule", "cancel", "reschedule"} : Acting(do)
          /\ work.status = "running"
          /\ Fault
          /\ UNCHANGED lost
       \/ /\ Acting("register") \/ Acting("forget")
          /\ work.status = "running"
          /\ Fault
          /\ lost' = lost \cup {Timer}
    /\ \E cancels \in CancelAll(work.inst) :
          work' = [work EXCEPT !.todo = cancels, !.emitted = FALSE, !.status = "ended"]
    /\ UNCHANGED <<now, store, up, registry, agenda, degraded, listing, timers,
                   received, taken, dropped, ran, expected, fired, strayed, unsaved, ended>>

\* ListTimersForInstance fails in cancelInstanceTimers: none of the timers is cancelled.
CancelNone ==
    /\ Acting("cancel") /\ work.status = "ended"
    /\ Len(work.todo) = Cardinality(TimersOf(work.inst))
    /\ Fault
    /\ work' = [work EXCEPT !.todo = << >>]
    /\ UNCHANGED <<now, store, up, registry, agenda, degraded, listing, timers, history>>

\* handleWFCancelInstance and closeIfQuiet: as a terminal transition, with no event.
Close(i) ==
    /\ Loop /\ i \in DOMAIN registry
    /\ \E cancels \in CancelAll(i) :
          work' = [at |-> "act", inst |-> i, kind |-> "close", event |-> NoEvent, id |-> 0,
                   todo |-> cancels, emitted |-> FALSE, status |-> "ended", fire_at |-> 0,
                   leftover |-> FALSE]
    /\ UNCHANGED <<now, store, up, registry, agenda, degraded, listing, timers, faults, history>>

----------------------------------------------------------------------------
(* The commit of a transition, and the internal events that follow it. *)

\* The instance as the transition left it.
Outcome ==
    LET before == IF work.kind = "create" THEN [done |-> << >>, born |-> serial + 1]
                  ELSE registry[work.inst]
    IN  [status |-> work.status, born |-> before.born,
         done |-> IF work.kind = "close" THEN before.done ELSE Count(before.done, work.event)]

\* Mutant of Consumed: only the taken event's own row goes.
ConsumedOne == IF work.kind \in {"create", "event"} THEN Without(journal, {work.event}) ELSE journal

\* The instance's journaled events up to the one taken go.
Consumed ==
    IF work.kind \in {"create", "event"}
    THEN Without(journal, {e \in DOMAIN journal : journal[e].inst = work.inst /\ journal[e].id <= work.id})
    ELSE journal

\* The queue of internal events after the commit.
Requeued ==
    LET others == SelectSeq(internal, LAMBDA r : r.inst /= work.inst)
        unread == SelectSeq(internal, LAMBDA r : work.kind /= "internal" \/ r.id /= work.event.id)
    IN  IF work.status = "ended" THEN others
        ELSE IF work.emitted
        THEN Append(unread, [inst |-> work.inst, attempts |-> 0, id |-> work.event.id])
        ELSE unread

Ready == up /\ work.at = "act" /\ work.todo = << >>

\* Mutant of Settled: an instance that ended stays.
Unsettled == With(registry, work.inst, Outcome)

\* settle: an instance that ended leaves the registry.
Settled ==
    IF work.status = "running" THEN With(registry, work.inst, Outcome)
    ELSE Without(registry, {work.inst})

\* CommitInstanceMutation.
Commit ==
    /\ Ready
    /\ rows' = With(rows, work.inst, Outcome)
    /\ serial' = IF work.kind = "create" THEN serial + 1 ELSE serial
    /\ journal' = Consumed
    /\ internal' = Requeued
    /\ registry' = Settled
    /\ work' = IF work.status = "running" THEN [work EXCEPT !.at = "drain"] ELSE Idle
    /\ ended' = IF work.status = "ended" THEN ended \cup {work.inst} ELSE ended
    /\ UNCHANGED <<now, index, up, agenda, degraded, listing, timers, faults,
                   received, taken, dropped, ran, expected, fired, lost, strayed, unsaved>>

\* It fails: in memory the instance moved on, or, new, it is not there.
CommitFails ==
    LET i == work.inst
    IN  /\ Ready /\ Fault
        /\ registry' = IF work.kind = "create" THEN registry ELSE Settled
        /\ work' = Idle
        /\ unsaved' = IF work.status = "ended" /\ i \in DOMAIN rows THEN unsaved \cup {i} ELSE unsaved
        /\ UNCHANGED <<now, store, up, agenda, degraded, listing, timers,
                       received, taken, dropped, ran, expected, fired, lost, strayed, ended>>

\* failStoredInstance: the instances end with no transition, their timers canceled as far as
\* the requests reach SY.timer.  A start that dies in between does it again.
CancelStored(S) ==
    LET gone == UNION {TimersOf(i) : i \in S}
    IN  /\ index' = Without(index, gone)
        /\ \E reached \in SUBSET gone : armed' = Without(armed, reached)

EndStored(S) ==
    /\ rows' = [i \in DOMAIN rows |->
                   IF i \in S THEN [status |-> "ended", born |-> rows[i].born, done |-> rows[i].done]
                   ELSE rows[i]]
    /\ internal' = SelectSeq(internal, LAMBDA r : r.inst \notin S)
    /\ journal' = Without(journal, {e \in DOMAIN journal : journal[e].inst \in S})
    /\ ended' = ended \cup S

\* failInStore of a running instance: it leaves the registry whether the commit goes or not.
FailInStore(i) ==
    /\ registry' = Without(registry, {i})
    /\ CancelStored({i})
    /\ \/ EndStored({i}) /\ UNCHANGED <<faults, unsaved>>
       \/ /\ Fault
          /\ unsaved' = unsaved \cup {i}
          /\ UNCHANGED <<rows, internal, journal, ended>>

NextInternal == SelectInSeq(internal, LAMBDA r : r.inst = work.inst)

\* drain: the instance's next internal event, each with its attempt counted when a start drains.
\* A statement that fails ends it and leaves the rest in the queue.
Drain ==
    LET n == NextInternal
    IN  /\ up /\ work.at = "drain"
        /\ \/ /\ (n = 0 /\ UNCHANGED faults) \/ Fault
              /\ work' = Idle
              /\ UNCHANGED <<rows, journal, internal, index, registry, armed, unsaved, ended>>
           \/ /\ n /= 0
              /\ ~work.leftover \/ internal[n].attempts < MaxReplayAttempts
              /\ internal' = IF work.leftover THEN [internal EXCEPT ![n].attempts = @ + 1] ELSE internal
              /\ work' = Begin(work.inst, "internal", [kind |-> "internal", id |-> internal[n].id], 0, work.leftover)
              /\ UNCHANGED <<rows, journal, index, registry, armed, faults, unsaved, ended>>
           \/ /\ n /= 0
              /\ work.leftover /\ internal[n].attempts >= MaxReplayAttempts
              /\ FailInStore(work.inst)
              /\ work' = Idle
        /\ UNCHANGED <<now, serial, up, agenda, degraded, listing, fires,
                       received, taken, dropped, ran, expected, fired, lost, strayed>>

----------------------------------------------------------------------------
(* A start. *)

\* The process stops, by a fault or by an event that takes it down (a poison event).
Stop ==
    /\ \/ up /\ Fault
       \/ Acting("die") /\ UNCHANGED faults
    /\ up' = FALSE
    /\ registry' = << >> /\ work' = Idle /\ agenda' = {}
    /\ degraded' = FALSE /\ listing' = NoList
    /\ lost' = lost \cup (IF listing = NoList THEN {} ELSE listing.before)
    /\ UNCHANGED <<now, store, timers, received, taken, dropped, ran, expected, fired, strayed, unsaved, ended>>

\* Recover and loadRunningInstances: of two running on a thread the later one fails.
Start ==
    LET running == {i \in DOMAIN rows : rows[i].status = "running"}
        refused == {i \in running : \E j \in running :
                       ThreadOf[j] = ThreadOf[i] /\ rows[j].born < rows[i].born}
        drains == {[do |-> "drain", inst |-> i] : i \in running \ refused}
    IN  /\ ~up
        /\ up' = TRUE
        /\ CancelStored(refused) /\ EndStored(refused)
        /\ registry' = [i \in running \ refused |-> rows[i]]
        /\ agenda' = drains \cup {[do |-> "list"]}
        /\ unsaved' = {}
        /\ UNCHANGED <<now, serial, work, degraded, listing, fires, faults,
                       received, taken, dropped, ran, expected, fired, lost, strayed>>

\* drainRecovered.
DrainRecovered(task) ==
    /\ Due(task, "drain")
    /\ agenda' = agenda \ {task}
    /\ work' = [at |-> "drain", inst |-> task.inst, leftover |-> TRUE]
    /\ UNCHANGED <<now, store, up, registry, degraded, listing, timers, faults, history>>

\* ListInboundEvents.
ListInbound(task) ==
    /\ Due(task, "list")
    /\ agenda' = {[do |-> "replay", event |-> e, row |-> journal[e]] : e \in DOMAIN journal}
                    \cup {[do |-> "reconcile"]}
    /\ UNCHANGED <<now, store, up, registry, work, degraded, listing, timers, faults, history>>

\* Mutant of Counted: a start does not count what it runs again.
Uncounted(event) == journal

\* Mutant of Counted: what runs again leaves the journal before it does.
CountedOut(event) == Without(journal, {event})

\* CountInboundAttempt.
Counted(event) == [journal EXCEPT ![event].attempts = @ + 1]

Drop(event) ==
    /\ journal' = Without(journal, {event})
    /\ dropped' = dropped \cup {event}

\* Mutant of Heirs: a creation is run again whoever holds its thread.
NoHeir(event) == {}

\* A creation left in the journal whose thread was taken since is an event of that instance.
Heirs(event) == Holders(ThreadOf[event.id])

\* replayInbound for one row: it runs again.
Replay(task) ==
    LET row == task.row
        event == task.event
        RunOn(i, kind) == work' = Begin(i, kind, event, row.id, FALSE) /\ ran' = Count(ran, event)
    IN  /\ Due(task, "replay") /\ row.attempts < MaxReplayAttempts
        /\ agenda' = agenda \ {task}
        /\ \/ /\ row.kind = "create" /\ row.inst \notin DOMAIN rows /\ Heirs(event) = {}
              /\ journal' = Counted(event)
              /\ RunOn(row.inst, "create")
              /\ UNCHANGED <<dropped, taken>>
           \/ /\ row.kind = "create" /\ row.inst \notin DOMAIN rows
              /\ \E i \in Heirs(event) :
                    /\ journal' = [Counted(event) EXCEPT ![event].inst = i, ![event].kind = "event"]
                    /\ RunOn(i, "event")
                    /\ taken' = [taken EXCEPT ![event] = i]
              /\ UNCHANGED dropped
           \/ /\ row.kind = "event" /\ row.inst \in DOMAIN registry
              /\ journal' = Counted(event)
              /\ RunOn(row.inst, "event")
              /\ UNCHANGED <<dropped, taken>>
           \/ /\ IF row.kind = "create" THEN row.inst \in DOMAIN rows ELSE row.inst \notin DOMAIN registry
              /\ Drop(event)
              /\ UNCHANGED <<work, ran, taken>>
        /\ UNCHANGED <<now, rows, serial, internal, index, up, registry, degraded, listing, timers,
                       faults, received, expected, fired, lost, strayed, unsaved, ended>>

\* giveUpInbound: it ran at the last of its starts.
GiveUp(task) ==
    LET row == task.row
    IN  /\ Due(task, "replay") /\ row.attempts >= MaxReplayAttempts
        /\ agenda' = agenda \ {task}
        /\ \/ /\ row.inst \in DOMAIN registry
              /\ FailInStore(row.inst)
              /\ UNCHANGED dropped
           \/ /\ row.inst \notin DOMAIN registry
              /\ Drop(task.event)
              /\ UNCHANGED <<rows, internal, index, armed, registry, faults, unsaved, ended>>
        /\ UNCHANGED <<now, serial, up, work, degraded, listing, fires,
                       received, taken, ran, expected, fired, lost, strayed>>

----------------------------------------------------------------------------
(* The index of timers against SY.timer: reconcileTimers. *)

\* What is to be done with SY.timer's answer: each timer of the index, and then the timers
\* the index does not have.
Reconciliation(listed, asked) ==
    {[do |-> "timer", timer |-> t, fire_at |-> index[t].fire_at, asked |-> asked, now |-> now,
      sy_at |-> IF t \in DOMAIN listed THEN listed[t] ELSE -1] : t \in DOMAIN index}
        \cup {[do |-> "orphan", timer |-> t] : t \in DOMAIN listed \ DOMAIN index}

\* ReconcileTimers at the end of a start.  SY.timer does not answer, or the index cannot be
\* read: then nothing is reconciled and the node is not DEGRADED.
Reconcile(task) ==
    /\ Due(task, "reconcile")
    /\ \/ /\ agenda' = Reconciliation(armed, now)
          /\ lost' = {} /\ strayed' = {}
          /\ UNCHANGED <<degraded, faults>>
       \/ /\ Fault
          /\ agenda' = {}
          /\ \/ degraded' = TRUE /\ UNCHANGED lost
             \/ lost' = lost \cup DOMAIN index /\ UNCHANGED degraded
          /\ UNCHANGED strayed
    /\ UNCHANGED <<now, store, up, registry, work, listing, timers,
                   received, taken, dropped, ran, expected, fired, unsaved, ended>>

\* A node that is DEGRADED asks again, off the loop; SY.timer answers, or it does not.
AskTimers ==
    /\ up /\ degraded /\ listing = NoList
    /\ listing' = [at |-> "asked", asked |-> now, before |-> lost]
    /\ lost' = {}
    /\ UNCHANGED <<now, store, up, registry, work, agenda, degraded, timers, faults,
                   received, taken, dropped, ran, expected, fired, strayed, unsaved, ended>>

TimersListed ==
    /\ up /\ listing.at = "asked"
    /\ \/ /\ listing' = [at |-> "listed", asked |-> listing.asked, before |-> listing.before, timers |-> armed]
          /\ UNCHANGED <<faults, lost>>
       \/ /\ Fault
          /\ listing' = NoList
          /\ lost' = lost \cup listing.before
    /\ UNCHANGED <<now, store, up, registry, work, agenda, degraded, timers,
                   received, taken, dropped, ran, expected, fired, strayed, unsaved, ended>>

\* takeTimerList, whose reading of the index may fail as well.
TakeTimerList ==
    /\ Loop /\ listing.at = "listed"
    /\ \/ /\ agenda' = Reconciliation(listing.timers, listing.asked)
          /\ UNCHANGED <<faults, lost>>
       \/ /\ Fault
          /\ lost' = lost \cup DOMAIN index
          /\ UNCHANGED agenda
    /\ degraded' = FALSE
    /\ listing' = NoList
    /\ UNCHANGED <<now, store, up, registry, work, timers,
                   received, taken, dropped, ran, expected, fired, strayed, unsaved, ended>>

\* One timer of the index.  It is read again, an earlier fire may have moved it; one that
\* cannot be read is passed over.
ReconcileTimer(task) ==
    LET t == task.timer
        still == /\ t \in DOMAIN index
                 /\ index[t].fire_at = task.fire_at /\ index[t].scheduled <= task.asked
        pending == task.sy_at /= -1
        running == t[1] \in DOMAIN registry
        rest == agenda \ {task}
        settling == IF pending THEN {[do |-> "settle", timer |-> t]} ELSE {}
    IN  /\ Due(task, "timer")
        /\ \/ /\ ~still \/ (pending /\ task.sy_at > task.now)
              /\ agenda' = rest
              /\ UNCHANGED <<journal, serial, index, work, taken, ran, fired, armed, faults, lost>>
           \/ /\ Fault
              /\ agenda' = rest
              /\ lost' = lost \cup {t}
              /\ UNCHANGED <<journal, serial, index, work, taken, ran, fired, armed>>
           \/ /\ still /\ running
              /\ IF pending THEN task.sy_at <= task.now ELSE task.fire_at <= task.now
              /\ agenda' = settling \cup rest
              /\ \/ TakeFire(t) /\ UNCHANGED <<faults, lost>>
                 \/ /\ Fault
                    /\ lost' = IF pending THEN lost ELSE lost \cup {t}
                    /\ UNCHANGED <<journal, serial, index, work, taken, ran, fired>>
              /\ UNCHANGED armed
           \/ /\ still /\ running /\ ~pending /\ task.fire_at > task.now
              /\ agenda' = rest
              /\ ScheduleAgain(t, task.now)
              /\ UNCHANGED <<journal, serial, work, taken, ran, fired>>
           \/ /\ still /\ ~running /\ ~(pending /\ task.sy_at > task.now)
              /\ agenda' = settling \cup rest
              /\ index' = Without(index, {t})
              /\ UNCHANGED <<journal, serial, work, taken, ran, fired, armed, faults, lost>>
        /\ UNCHANGED <<now, rows, internal, up, registry, degraded, listing, fires,
                       received, dropped, expected, strayed, unsaved, ended>>

\* The pending timer of a fire just taken is cancelled, unless the fire scheduled it again;
\* an orphan is cancelled.
SettleTimer(task) ==
    LET t == task.timer
    IN  /\ Due(task, "settle") \/ Due(task, "orphan")
        /\ \/ task.do = "settle" /\ t \in DOMAIN index /\ UNCHANGED <<armed, faults>>
           \/ /\ task.do = "settle" => t \notin DOMAIN index
              /\ Request(Without(armed, {t}))
        /\ strayed' = IF task.do = "orphan" THEN strayed \cup ({t} \cap DOMAIN index) ELSE strayed
        /\ agenda' = agenda \ {task}
        /\ UNCHANGED <<now, store, up, registry, work, degraded, listing, fires,
                       received, taken, dropped, ran, expected, fired, lost, unsaved, ended>>

----------------------------------------------------------------------------
Tick ==
    /\ now < MaxTime
    /\ now' = now + 1
    /\ UNCHANGED <<store, memory, timers, faults, history>>

\* DeleteTerminatedBefore: an instance that ended long ago goes with all it had.
Collect(i) ==
    /\ up /\ i \in DOMAIN rows /\ rows[i].status = "ended"
    /\ rows' = Without(rows, {i})
    /\ index' = Without(index, TimersOf(i))
    /\ internal' = SelectSeq(internal, LAMBDA r : r.inst /= i)
    /\ journal' = Without(journal, {e \in DOMAIN journal : journal[e].inst = i})
    /\ UNCHANGED <<now, serial, memory, timers, faults, history>>

Init ==
    /\ now = 0
    /\ rows = << >> /\ journal = << >> /\ serial = 0 /\ internal = << >> /\ index = << >>
    /\ up = TRUE /\ registry = << >> /\ work = Idle /\ agenda = {}
    /\ degraded = FALSE /\ listing = NoList
    /\ armed = << >> /\ fires = {}
    /\ faults = 0
    /\ received = {} /\ taken = << >> /\ dropped = {} /\ ran = << >>
    /\ expected = [t \in Messages \X Keys |-> 0] /\ fired = [t \in Messages \X Keys |-> 0]
    /\ lost = {} /\ strayed = {} /\ unsaved = {} /\ ended = {}

Transition ==
    \/ SendSchedule \/ SendReschedule \/ Register \/ SendCancel \/ Forget
    \/ SkipTimerAction \/ Send \/ End \/ CancelNone
    \/ Commit \/ CommitFails \/ Drain

Recovery ==
    \/ Start
    \/ \E task \in agenda :
          \/ DrainRecovered(task) \/ ListInbound(task) \/ Replay(task) \/ GiveUp(task)
          \/ Reconcile(task) \/ ReconcileTimer(task) \/ SettleTimer(task)

Inbound ==
    \/ \E m \in Messages : Receive(m) \/ ReceiveFails(m)
    \/ \E fire \in fires : FireArrives(fire)
    \/ \E i \in Messages : Close(i) \/ Collect(i)
    \/ AskTimers \/ TakeTimerList

Environment ==
    \/ Tick \/ Stop \/ TimersListed
    \/ \E fire \in fires : FireLost(fire)
    \/ \E t \in Messages \X Keys : TimerFires(t) \/ TimerLost(t)

Next == Transition \/ Recovery \/ Inbound \/ Environment

Spec == Init /\ [][Next]_vars

----------------------------------------------------------------------------
(* Properties. *)

\* The store, the registry and SY.timer's table stay in their types; only running
\* instances are in the registry.
TypeOK ==
    /\ now \in 0 .. MaxTime
    /\ DOMAIN rows \subseteq Messages /\ DOMAIN registry \subseteq Messages
    /\ \A i \in DOMAIN rows : rows[i].status \in {"running", "ended"}
    /\ \A i \in DOMAIN registry : registry[i].status = "running"
    /\ work.at \in {"idle", "act", "drain"}
    /\ DOMAIN index \subseteq Messages \X Keys /\ DOMAIN armed \subseteq Messages \X Keys

Running(i) == i \in DOMAIN rows /\ rows[i].status = "running"

\* An event that was journaled is not lost, a creation no less: it is in the journal until
\* it is part of its instance's committed state, or its instance's end was committed.
NothingLost ==
    \A e \in DOMAIN taken :
        \/ e \in DOMAIN journal \cup dropped
        \/ taken[e] \in ended
        \/ taken[e] \in DOMAIN rows /\ e \in DOMAIN rows[taken[e]].done

\* An inbound event is once in a committed state, although a start runs it again and a
\* commit that failed leaves it in the journal behind a state that moved on.
AppliedOnce ==
    \A i \in DOMAIN rows : \A e \in DOMAIN rows[i].done :
        e.kind /= "internal" => rows[i].done[e] = 1

\* A timer the index had once fires once: a fire that comes late, twice, after a restart
\* or beside the one recovery made up is not a second one.
TimerOnce ==
    \A t \in Messages \X Keys : fired[t] + Cardinality({t} \cap DOMAIN index) <= expected[t]

\* A fire of SY.timer's that the receive loop takes is not early: the time its instance moved
\* the timer to has come, although the fire of the time before may be on its way, or SY.timer
\* may not have heard of the move.
NeverEarly ==
    [][Loop => \A t \in Messages \X Keys : fired'[t] /= fired[t] => index[t].fire_at <= now]_vars

\* Once the node reconciled, a timer of a running instance is pending in SY.timer or its
\* fire is on its way, unless a fault has cost it one of them since, or it strayed: it was
\* written to the index when SY.timer had it no more, or canceled as an orphan.
TimersBacked ==
    Loop /\ ~degraded =>
        \A t \in DOMAIN index \ (lost \cup strayed) : t[1] \in DOMAIN registry => Backed(t)

\* Of two running instances on a thread one had ended, in a commit that failed.
OneConversation ==
    \A i, j \in DOMAIN rows :
        Running(i) /\ Running(j) /\ i /= j /\ ThreadOf[i] = ThreadOf[j] =>
            i \in unsaved \/ j \in unsaved

\* No inbound event takes the node down for good: it runs live and at MaxReplayAttempts starts.
RunsBounded == \A e \in DOMAIN ran : ran[e] <= MaxReplayAttempts + 1

================================================================================
