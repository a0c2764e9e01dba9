----------------------------- MODULE WfEngineProofs -----------------------------
(***************************************************************************)
(* The workflow engine for every set of messages and keys, every           *)
(* definition and any number of crashes, losses and reconciliations:       *)
(* proofs about WfEngine.                                                  *)
(*                                                                         *)
(* Five layers, each resting on the ones before it: how often a timer      *)
(* fires (CountsOk); the journal, the instances and what runs (CoreInv);   *)
(* the clock, the index's domain and the script of what runs (TimesOk);    *)
(* the reconciliation with SY.timer (ListingOk, BackedOk); the times of    *)
(* timers and fires (MomentsOk).                                           *)
(***************************************************************************)
EXTENDS WfEngine, FiniteSetTheorems, SequenceTheorems, TLAPS

----------------------------------------------------------------------------
(* Functions that grow and shrink. *)

\* What is left of a function.
LEMMA WithoutDomain ==
    ASSUME NEW f, NEW S
    PROVE  /\ DOMAIN Without(f, S) = DOMAIN f \ S
           /\ \A x \in DOMAIN f \ S : Without(f, S)[x] = f[x]
BY DEF Without

\* A function with one more.
LEMMA WithDomain ==
    ASSUME NEW f, NEW x, NEW v
    PROVE  /\ DOMAIN With(f, x, v) = DOMAIN f \cup {x} /\ With(f, x, v)[x] = v
           /\ \A y \in DOMAIN f : y /= x => With(f, x, v)[y] = f[y]
BY DEF With

\* A count with one more.
LEMMA CountDomain ==
    ASSUME NEW f, NEW x
    PROVE  /\ DOMAIN Count(f, x) = DOMAIN f \cup {x}
           /\ Count(f, x)[x] = IF x \in DOMAIN f THEN f[x] + 1 ELSE 1
           /\ \A y \in DOMAIN f : y /= x => Count(f, x)[y] = f[y]
<1>1. PICK v : v = IF x \in DOMAIN f THEN f[x] + 1 ELSE 1
  OBVIOUS
<1>2. Count(f, x) = With(f, x, v)
  BY <1>1 DEF Count
<1>3. PICK g : g = Count(f, x)
  OBVIOUS
<1>4. /\ DOMAIN g = DOMAIN f \cup {x} /\ g[x] = v
      /\ \A y \in DOMAIN f : y /= x => g[y] = f[y]
  BY <1>2, <1>3 DEF With
<1> QED BY <1>1, <1>3, <1>4, Zenon

----------------------------------------------------------------------------
(* What a step does to the index of timers. *)

\* The timers of the instances.
Timers == Messages \X Keys

\* Only a registration adds a timer to the index, and only the journaling of a fire
\* counts one, which takes the timer out.
IndexShrinks == DOMAIN index' \subseteq DOMAIN index /\ UNCHANGED <<fired, expected>>

FireTaken == \E t \in DOMAIN index : TakeFire(t) /\ UNCHANGED expected

\* A timer fired no more often than it entered the index, less once while it is there.
CountsOk ==
    /\ fired \in [Timers -> Nat] /\ expected \in [Timers -> Nat]
    /\ \A t \in Timers : IF t \in DOMAIN index THEN fired[t] < expected[t] ELSE fired[t] <= expected[t]

\* Timers taken out of the index.
LEMMA TakenOut ==
    ASSUME NEW S, index' = Without(index, S)
    PROVE  DOMAIN index' \subseteq DOMAIN index
<1>1. DOMAIN index' = DOMAIN index \ S
  BY WithoutDomain
<1> QED BY <1>1

\* The timers of instances that end are taken out.
LEMMA CancelledOut ==
    ASSUME NEW S, CancelStored(S)
    PROVE  DOMAIN index' \subseteq DOMAIN index
<1>1. \E gone : index' = Without(index, gone)
  BY DEF CancelStored
<1> QED BY <1>1, TakenOut

\* A request to schedule a timer of the index again keeps it there.
LEMMA AgainKeepsIndex ==
    ASSUME NEW t, NEW since, ScheduleAgain(t, since)
    PROVE  DOMAIN index' \subseteq DOMAIN index
<1>1. CASE index' = index
  BY <1>1
<1>2. CASE \E r : index' = [index EXCEPT ![t] = r]
  BY <1>2
<1> QED BY <1>1, <1>2 DEF ScheduleAgain

\* The steps of a transition.
LEMMA TransitionIndex ==
    ASSUME Transition
    PROVE  IndexShrinks \/ Register
<1>1. CASE SendSchedule \/ SendReschedule \/ SendCancel \/ SkipTimerAction \/ Send \/ End \/ CancelNone
  BY <1>1 DEF SendSchedule, SendReschedule, SendCancel, SkipTimerAction, Send, End, CancelNone, store, history,
              IndexShrinks
<1>2. CASE Forget
  <2>1. UNCHANGED <<fired, expected>> /\ \E S : index' = Without(index, S)
    BY <1>2 DEF Forget, history
  <2> QED BY <2>1, TakenOut DEF IndexShrinks
<1>3. CASE Commit \/ CommitFails
  BY <1>3 DEF Commit, CommitFails, store, history, IndexShrinks
<1>4. CASE Drain
  <2>1. UNCHANGED <<fired, expected>> /\ (UNCHANGED index \/ FailInStore(work.inst))
    BY <1>4 DEF Drain, store
  <2>2. FailInStore(work.inst) => DOMAIN index' \subseteq DOMAIN index
    BY CancelledOut DEF FailInStore
  <2> QED BY <2>1, <2>2 DEF IndexShrinks
<1> QED BY <1>1, <1>2, <1>3, <1>4 DEF Transition

\* The steps of a start.
LEMMA RecoveryIndex ==
    ASSUME Recovery
    PROVE  IndexShrinks \/ FireTaken
<1>1. CASE Start
  <2>1. UNCHANGED <<fired, expected>> /\ \E S : CancelStored(S)
    BY <1>1 DEF Start
  <2>2. DOMAIN index' \subseteq DOMAIN index
    BY <2>1, CancelledOut
  <2> QED BY <2>1, <2>2 DEF IndexShrinks
<1>2. CASE \E task \in agenda : \/ DrainRecovered(task) \/ ListInbound(task) \/ Replay(task)
                                \/ Reconcile(task) \/ SettleTimer(task)
  BY <1>2 DEF DrainRecovered, ListInbound, Replay, Reconcile, SettleTimer, store, history, IndexShrinks
<1>3. CASE \E task \in agenda : GiveUp(task)
  <2>1. UNCHANGED <<fired, expected>> /\ (UNCHANGED index \/ \E i : FailInStore(i))
    BY <1>3 DEF GiveUp
  <2>2. (\E i : FailInStore(i)) => DOMAIN index' \subseteq DOMAIN index
    BY CancelledOut DEF FailInStore
  <2> QED BY <2>1, <2>2 DEF IndexShrinks
<1>4. CASE \E task \in agenda : ReconcileTimer(task)
  <2>1. UNCHANGED expected
    BY <1>4 DEF ReconcileTimer
  <2>2. \/ UNCHANGED <<fired, index>>
        \/ \E t \in DOMAIN index : TakeFire(t)
        \/ UNCHANGED fired /\ \E t, since : ScheduleAgain(t, since)
        \/ UNCHANGED fired /\ \E t : index' = Without(index, {t})
    BY <1>4 DEF ReconcileTimer
  <2> QED BY <2>1, <2>2, AgainKeepsIndex, TakenOut DEF IndexShrinks, FireTaken
<1> QED BY <1>1, <1>2, <1>3, <1>4 DEF Recovery

\* What comes to the receive loop.
LEMMA InboundIndex ==
    ASSUME Inbound
    PROVE  IndexShrinks \/ FireTaken
<1>1. CASE (\E m \in Messages : Receive(m) \/ ReceiveFails(m)) \/ (\E i \in Messages : Close(i))
  BY <1>1 DEF Receive, ReceiveFails, Close, store, history, IndexShrinks
<1>2. CASE AskTimers \/ TakeTimerList
  BY <1>2 DEF AskTimers, TakeTimerList, store, history, IndexShrinks
<1>3. CASE \E i \in Messages : Collect(i)
  <2>1. UNCHANGED <<fired, expected>> /\ \E S : index' = Without(index, S)
    BY <1>3 DEF Collect, history
  <2> QED BY <2>1, TakenOut DEF IndexShrinks
<1>4. CASE \E fire \in fires : FireArrives(fire)
  <2>1. UNCHANGED expected
    BY <1>4 DEF FireArrives
  <2>2. \/ UNCHANGED <<fired, index>>
        \/ \E t \in DOMAIN index : TakeFire(t)
        \/ UNCHANGED fired /\ \E t, since : ScheduleAgain(t, since)
    BY <1>4 DEF FireArrives
  <2> QED BY <2>1, <2>2, AgainKeepsIndex DEF IndexShrinks, FireTaken
<1> QED BY <1>1, <1>2, <1>3, <1>4 DEF Inbound

\* The clock, a crash, and SY.timer.
LEMMA EnvironmentIndex ==
    ASSUME Environment
    PROVE  IndexShrinks
BY DEF Environment, Tick, Stop, TimersListed, FireLost, TimerFires, TimerLost, store, history, IndexShrinks

----------------------------------------------------------------------------
(* A timer fires once. *)

\* Whether a timer is in the index, as a number.
LEMMA IndexedOnce ==
    ASSUME NEW t
    PROVE  Cardinality({t} \cap DOMAIN index) = IF t \in DOMAIN index THEN 1 ELSE 0
<1>1. CASE t \in DOMAIN index
  <2>1. {t} \cap DOMAIN index = {t}
    BY <1>1
  <2> QED BY <1>1, <2>1, FS_Singleton
<1>2. CASE t \notin DOMAIN index
  <2>1. {t} \cap DOMAIN index = {}
    BY <1>2
  <2> QED BY <1>2, <2>1, FS_EmptySet
<1> QED BY <1>1, <1>2

\* A timer that enters the index is counted, unless it is there.
LEMMA RegisterCounts ==
    ASSUME CountsOk, Register
    PROVE  CountsOk'
<1>1. PICK t : t = Timer
  OBVIOUS
<1>2. /\ DOMAIN index' = DOMAIN index \cup {t} /\ fired' = fired
      /\ expected' = IF t \in DOMAIN index THEN expected ELSE [expected EXCEPT ![t] = @ + 1]
  BY <1>1, WithDomain DEF Register
<1>3. CASE t \in DOMAIN index \/ t \notin Timers
  <2>1. expected' = expected
    BY <1>2, <1>3 DEF CountsOk
  <2>2. \A u \in Timers : u \in DOMAIN index' <=> u \in DOMAIN index
    BY <1>2, <1>3
  <2> QED BY <1>2, <2>1, <2>2 DEF CountsOk
<1>4. CASE t \notin DOMAIN index /\ t \in Timers
  <2>1. PICK n \in Nat : n = expected[t] + 1
    BY <1>4 DEF CountsOk
  <2>2. expected' = [expected EXCEPT ![t] = n]
    BY <1>2, <1>4, <2>1 DEF CountsOk
  <2>3. /\ expected' \in [Timers -> Nat] /\ expected'[t] = n
        /\ \A u \in Timers \ {t} : expected'[u] = expected[u]
    BY <1>4, <2>2 DEF CountsOk
  <2>4. fired[t] < n
    BY <1>4, <2>1 DEF CountsOk
  <2> QED BY <1>2, <2>3, <2>4 DEF CountsOk
<1> QED BY <1>3, <1>4

\* A fire that is taken takes its timer out of the index.
LEMMA FireCounts ==
    ASSUME CountsOk, FireTaken
    PROVE  CountsOk'
<1>1. PICK t \in DOMAIN index : TakeFire(t) /\ expected' = expected
  BY DEF FireTaken
<1>2. DOMAIN index' = DOMAIN index \ {t} /\ fired' = [fired EXCEPT ![t] = @ + 1]
  BY <1>1, WithoutDomain DEF TakeFire
<1>3. CASE t \notin Timers
  <2>1. fired' = fired
    BY <1>2, <1>3 DEF CountsOk
  <2>2. \A u \in Timers : u \in DOMAIN index' <=> u \in DOMAIN index
    BY <1>2, <1>3
  <2> QED BY <1>1, <2>1, <2>2 DEF CountsOk
<1>4. CASE t \in Timers
  <2>1. PICK n \in Nat : n = fired[t] + 1
    BY <1>4 DEF CountsOk
  <2>2. fired' = [fired EXCEPT ![t] = n]
    BY <1>2, <1>4, <2>1 DEF CountsOk
  <2>3. /\ fired' \in [Timers -> Nat] /\ fired'[t] = n
        /\ \A u \in Timers \ {t} : fired'[u] = fired[u]
    BY <1>4, <2>2 DEF CountsOk
  <2>4. n <= expected[t]
    BY <1>1, <1>4, <2>1 DEF CountsOk
  <2> QED BY <1>1, <1>2, <2>3, <2>4 DEF CountsOk
<1> QED BY <1>3, <1>4

\* What leaves the index uncounted takes nothing from the balance.
LEMMA ShrinkCounts ==
    ASSUME CountsOk, IndexShrinks
    PROVE  CountsOk'
BY DEF CountsOk, IndexShrinks

\* Of a timer that entered the index n times at most n fires were taken, and at most n - 1
\* while it is there, whatever crashes, lost requests, late fires and reconciliations
\* come between (takeTimerFired, JournalInbound, reconcileTimers).
THEOREM WfTimerOnce == Spec => []TimerOnce
<1>1. Init => CountsOk
  BY DEF Init, CountsOk, Timers
<1>2. CountsOk /\ [Next]_vars => CountsOk'
  <2> SUFFICES ASSUME CountsOk, [Next]_vars PROVE CountsOk'
    OBVIOUS
  <2>1. CASE UNCHANGED vars
    BY <2>1 DEF CountsOk, vars, store, history
  <2>2. CASE Next
    BY <2>2, TransitionIndex, RecoveryIndex, InboundIndex, EnvironmentIndex,
       RegisterCounts, FireCounts, ShrinkCounts DEF Next
  <2> QED BY <2>1, <2>2
<1>3. CountsOk => TimerOnce
  <2> SUFFICES ASSUME CountsOk, NEW t \in Messages \X Keys
               PROVE  fired[t] + Cardinality({t} \cap DOMAIN index) <= expected[t]
    BY DEF TimerOnce
  <2>1. fired[t] \in Nat /\ expected[t] \in Nat
    BY DEF CountsOk, Timers
  <2>2. IF t \in DOMAIN index THEN fired[t] < expected[t] ELSE fired[t] <= expected[t]
    BY DEF CountsOk, Timers
  <2> QED BY <2>1, <2>2, IndexedOnce
<1> QED BY <1>1, <1>2, <1>3, PTL DEF Spec

----------------------------------------------------------------------------
(* The inductive invariant of the journal, the instances and the loop. *)

\* An inbound event: a message, or the fire of a timer.
IsEvent(e) == (e.kind = "message" /\ e.id \in Messages) \/ (e.kind = "fire" /\ e.id[2] \in Keys)

\* A row of the journal.
IsRow(r) ==
    /\ r = [inst |-> r.inst, kind |-> r.kind, id |-> r.id, attempts |-> r.attempts]
    /\ r.inst \in received /\ r.kind \in {"create", "event"}
    /\ r.id \in Nat /\ r.id <= serial /\ r.attempts \in Nat

\* A transition that runs.
IsAct(w) ==
    /\ w = [at |-> "act", inst |-> w.inst, kind |-> w.kind, event |-> w.event, id |-> w.id,
            todo |-> w.todo, emitted |-> w.emitted, status |-> w.status, fire_at |-> w.fire_at,
            leftover |-> w.leftover]
    /\ w.inst \in received /\ w.kind \in {"create", "event", "internal", "close"}
    /\ w.status \in {"running", "ended"} /\ (w.kind = "close" => w.status = "ended")

\* What runs: a transition, the transition of an inbound event, or an internal event.
Acts == work.at = "act"
OnInbound == work.at = "act" /\ work.kind \in {"create", "event"}
OnInternal == work.at = "drain" \/ (work.at = "act" /\ work.kind = "internal")

\* What a start has still to do: instances to drain, the journal to list, its rows to run again.
Drains == {k \in agenda : k.do = "drain"}
Replays == {k \in agenda : k.do = "replay"}
Early == \E k \in agenda : k.do = "list"

\* The tables have the shape the engine gives them.
TablesOk ==
    /\ serial \in Nat /\ received \subseteq Messages
    /\ \A e \in DOMAIN journal : IsEvent(e) /\ IsRow(journal[e])
    /\ \A i \in DOMAIN rows : /\ i \in received /\ rows[i].status \in {"running", "ended"}
                              /\ rows[i].born \in Nat /\ rows[i].born <= serial
    /\ \A k \in Replays : IsRow(k.row)
    /\ \A k \in Drains : k = [do |-> "drain", inst |-> k.inst]

\* The loop is idle, runs a transition or is between an instance's internal events.
WorkOk == work = Idle \/ IsAct(work) \/ (work.at = "drain" /\ work.inst \in received)

\* A start drains its instances, lists the journal, then runs its rows, in this order.
StagesOk ==
    /\ ~up => DOMAIN registry = {} /\ work = Idle /\ agenda = {}
    /\ Early => Replays = {} /\ (work = Idle \/ OnInternal)
    /\ Drains /= {} => Early

\* Who is in the registry, and who runs.
RegistryOk ==
    /\ \A i \in DOMAIN registry :
          /\ i \in DOMAIN rows /\ rows[i].status = "running"
          /\ registry[i].status = "running" /\ registry[i].born = rows[i].born
    /\ work.at = "drain" \/ (Acts /\ work.kind /= "create") => work.inst \in DOMAIN registry
    /\ Acts /\ work.kind = "create" =>
          work.inst \notin DOMAIN rows /\ \A j \in DOMAIN registry : ThreadOf[j] /= ThreadOf[work.inst]
    /\ \A k \in Drains : k.inst \in DOMAIN registry /\ (work /= Idle => k.inst /= work.inst)

\* A thread has one instance in the registry; another one that runs is left from a commit
\* that failed.
ThreadsOk ==
    /\ \A i, j \in DOMAIN registry : i /= j => ThreadOf[i] /= ThreadOf[j]
    /\ \A i, j \in DOMAIN rows : i /= j => rows[i].born /= rows[j].born
    /\ up => \A i \in DOMAIN rows : rows[i].status = "running" => i \in DOMAIN registry \cup unsaved
    /\ OneConversation

\* The journal's rows, their order and what was taken.
EntriesOk ==
    /\ \A e, f \in DOMAIN journal : e /= f => journal[e].id /= journal[f].id
    /\ \A e \in DOMAIN journal : e \in DOMAIN taken /\ taken[e] = journal[e].inst
    /\ \A e \in DOMAIN journal : journal[e].kind = "create" =>
          /\ e = Message(journal[e].inst) /\ journal[e].inst \notin DOMAIN rows
          /\ \A f \in DOMAIN taken : taken[f] = journal[e].inst => f = e

\* No event comes twice.
HistoryOk ==
    /\ DOMAIN ran = DOMAIN taken
    /\ \A e \in DOMAIN taken :
          /\ IsEvent(e) /\ taken[e] \in received
          /\ e.kind = "message" => e.id \in received
          /\ e.kind = "fire" => /\ <<e.id[1], e.id[2]>> \in Timers /\ e.id[3] \in Nat
                                /\ e.id[3] <= fired[<<e.id[1], e.id[2]>>]

\* The event that runs has its row.
RunOk ==
    /\ OnInbound => /\ work.event \in DOMAIN journal /\ journal[work.event].inst = work.inst
                    /\ journal[work.event].kind = work.kind /\ journal[work.event].id = work.id
    /\ Acts /\ work.kind = "internal" => work.event.kind = "internal"

\* The rows to run again are in the journal, after the one that runs.
ReplaysOk ==
    /\ \A k \in Replays :
          /\ k.event \in DOMAIN taken /\ taken[k.event] = k.row.inst
          /\ k.row.kind = "create" \/ k.row.inst \in DOMAIN registry =>
                k.event \in DOMAIN journal /\ journal[k.event] = k.row
          /\ OnInbound => work.id < k.row.id /\ work.event /= k.event
    /\ \A k, l \in Replays : l /= k => l.event /= k.event /\ l.row.id /= k.row.id

\* An inbound event is once in a state, and the state in memory has all that is saved.
Once(done) == \A e \in DOMAIN done : e.kind = "internal" \/ (e \in DOMAIN taken /\ done[e] = 1)
DoneOk ==
    /\ \A i \in DOMAIN rows : Once(rows[i].done)
    /\ \A i \in DOMAIN registry : Once(registry[i].done)
    /\ \A i \in DOMAIN registry : DOMAIN rows[i].done \subseteq DOMAIN registry[i].done

\* What is in a running instance's saved state has left the journal, what is in memory only
\* is there in its instance's name and before all that is still to run.
AheadOk ==
    /\ \A i \in DOMAIN rows : rows[i].status = "running" => DOMAIN rows[i].done \cap DOMAIN journal = {}
    /\ \A i \in DOMAIN registry : \A e \in DOMAIN registry[i].done \cap DOMAIN journal :
          /\ journal[e].inst = i
          /\ ~Early
          /\ \A k \in Replays : journal[e].id < k.row.id
          /\ OnInbound /\ work.inst = i => journal[e].id < work.id
          /\ OnInternal => work.inst /= i
    /\ \A i \in DOMAIN registry : OnInbound => work.event \notin DOMAIN registry[i].done
    /\ \A i \in DOMAIN registry : \A k \in Replays : k.event \notin DOMAIN registry[i].done

\* A row of an instance in the registry was run, runs, or is still to run; an instance that
\* ended in the store is one whose end was committed.
RunOrDue(e) ==
    \/ e \in DOMAIN registry[journal[e].inst].done
    \/ OnInbound /\ work.event = e
    \/ Early
    \/ \E k \in Replays : k.event = e
EndsOk == \A i \in DOMAIN rows : rows[i].status = "ended" => i \in ended
KeptOk ==
    /\ \A e \in DOMAIN journal : journal[e].inst \in DOMAIN registry => RunOrDue(e)
    /\ NothingLost /\ EndsOk

\* A row counts its runs (IncrementInboundReplay), a run behind.
RunsOk ==
    /\ \A e \in DOMAIN ran : /\ ran[e] \in Nat /\ ran[e] <= MaxReplayAttempts + 1
                             /\ e \in DOMAIN journal => ran[e] <= journal[e].attempts + 1
    /\ \A k \in Replays : ran[k.event] <= k.row.attempts + 1

\* Fires are counted.
FiredOk == fired \in [Timers -> Nat]

\* The inductive invariant of the journal, the instances and what runs.
CoreInv ==
    /\ TablesOk /\ WorkOk /\ StagesOk /\ RegistryOk /\ ThreadsOk /\ EntriesOk /\ HistoryOk
    /\ RunOk /\ ReplaysOk /\ DoneOk /\ AheadOk /\ KeptOk /\ RunsOk /\ FiredOk

----------------------------------------------------------------------------
(* Steps that leave the journal and the instances alone. *)

\* The transition that runs goes on.
SameRun ==
    /\ work.at = "act" /\ IsAct(work)'
    /\ work'.inst = work.inst /\ work'.kind = work.kind /\ work'.event = work.event /\ work'.id = work.id

\* A step that leaves the journal and the instances alone.
Quiet ==
    /\ UNCHANGED <<rows, journal, serial, registry, taken, dropped, ran, unsaved, ended, fired>>
    /\ received \subseteq received' /\ received' \subseteq Messages
    /\ work' = work \/ SameRun
    /\ UNCHANGED <<up, Replays, Drains, Early>>
    /\ ~up => agenda' = agenda

\* Such a step keeps the invariant.
LEMMA QuietSafe ==
    ASSUME CoreInv, Quiet
    PROVE  CoreInv'
<1>1. /\ work'.at = work.at /\ (work' = Idle <=> work = Idle)
      /\ work.at = "act" => /\ work'.inst = work.inst /\ work'.kind = work.kind
                            /\ work'.event = work.event /\ work'.id = work.id
      /\ work /= Idle => work'.inst = work.inst
  <2>1. CASE work' = work
    BY <2>1
  <2>2. CASE SameRun
    BY <2>2 DEF SameRun, IsAct, Idle
  <2> QED BY <2>1, <2>2 DEF Quiet
<1>2. (Acts' <=> Acts) /\ (OnInbound' <=> OnInbound) /\ (OnInternal' <=> OnInternal)
  BY <1>1 DEF Acts, OnInbound, OnInternal
<1>3. \A r : IsRow(r) => IsRow(r)'
  BY DEF IsRow, Quiet
<1>4. TablesOk'
  BY <1>3 DEF CoreInv, TablesOk, Quiet, IsEvent
<1>5. WorkOk'
  <2>1. CASE work' = work
    BY <2>1 DEF CoreInv, WorkOk, Quiet, IsAct
  <2>2. CASE SameRun
    BY <2>2 DEF SameRun, WorkOk
  <2> QED BY <2>1, <2>2 DEF Quiet
<1>6. StagesOk'
  BY <1>1, <1>2 DEF CoreInv, StagesOk, Quiet
<1>7. RegistryOk'
  BY <1>1, <1>2 DEF CoreInv, RegistryOk, Quiet, Acts, Idle
<1>8. ThreadsOk'
  BY DEF CoreInv, ThreadsOk, Quiet, OneConversation, Running
<1>9. EntriesOk' /\ HistoryOk' /\ FiredOk'
  BY DEF CoreInv, EntriesOk, HistoryOk, FiredOk, Quiet, IsEvent
<1>10. RunOk'
  BY <1>1, <1>2 DEF CoreInv, RunOk, Quiet, OnInbound, Acts
<1>11. ReplaysOk'
  BY <1>1, <1>2 DEF CoreInv, ReplaysOk, Quiet, OnInbound
<1>12. DoneOk'
  BY DEF CoreInv, DoneOk, Once, Quiet
<1>13. AheadOk'
  BY <1>1, <1>2 DEF CoreInv, AheadOk, Quiet, OnInbound, OnInternal
<1>14. KeptOk'
  BY <1>1, <1>2 DEF CoreInv, KeptOk, RunOrDue, NothingLost, EndsOk, Quiet, OnInbound
<1>15. RunsOk'
  BY DEF CoreInv, RunsOk, Quiet
<1> QED BY <1>4, <1>5, <1>6, <1>7, <1>8, <1>9, <1>10, <1>11, <1>12, <1>13, <1>14, <1>15 DEF CoreInv

----------------------------------------------------------------------------
(* An event is taken. *)

Fresh(e) ==
    /\ e \notin DOMAIN taken /\ IsEvent(e)
    /\ e.kind = "message" => e.id \in received'
    /\ e.kind = "fire" => /\ <<e.id[1], e.id[2]>> \in Timers /\ e.id[3] \in Nat
                          /\ e.id[3] <= fired'[<<e.id[1], e.id[2]>>]

TakeMove(i, kind, e) ==
    /\ Take(i, kind, e) /\ Fresh(e)
    /\ UNCHANGED <<rows, registry, dropped, unsaved, ended, up>>
    /\ up /\ work = Idle
    /\ Replays = {} /\ Replays' = {} /\ Drains = {} /\ Drains' = {} /\ ~Early /\ ~Early'
    /\ received \subseteq received' /\ received' \subseteq Messages /\ i \in received'
    /\ FiredOk' /\ \A t \in Timers : fired[t] <= fired'[t]
    /\ \/ kind = "event" /\ i \in DOMAIN registry
       \/ /\ kind = "create" /\ e = Message(i) /\ i \notin received
          /\ \A j \in DOMAIN registry : ThreadOf[j] /= ThreadOf[i]

\* Taking an inbound event into the journal keeps the invariant.
LEMMA TakeSafe ==
    ASSUME CoreInv, NEW i, NEW kind, NEW e, TakeMove(i, kind, e)
    PROVE  CoreInv'
<1>0. /\ TablesOk /\ RegistryOk /\ EntriesOk /\ HistoryOk /\ FiredOk /\ KeptOk
  BY DEF CoreInv
<1>1. /\ serial \in Nat /\ serial' = serial + 1
      /\ e \notin DOMAIN journal /\ DOMAIN journal' = DOMAIN journal \cup {e}
      /\ journal'[e] = [inst |-> i, kind |-> kind, id |-> serial + 1, attempts |-> 0]
      /\ \A f \in DOMAIN journal : journal'[f] = journal[f]
  BY <1>0 DEF TakeMove, Take, TablesOk, EntriesOk, Fresh, With
<1>2. /\ IsAct(work)' /\ work'.at = "act" /\ work' /= Idle
      /\ work'.inst = i /\ work'.kind = kind /\ work'.event = e /\ work'.id = serial + 1
  BY DEF TakeMove, Take, Begin, IsAct, Idle
<1>3. Acts' /\ OnInbound' /\ ~OnInternal' /\ ~OnInbound /\ ~OnInternal
  BY <1>2 DEF Acts, OnInbound, OnInternal, TakeMove, Idle
<1>4. /\ DOMAIN taken' = DOMAIN taken \cup {e} /\ taken'[e] = i
      /\ \A f \in DOMAIN taken : taken'[f] = taken[f]
  BY DEF TakeMove, Take, Fresh, With
<1>5. /\ DOMAIN ran' = DOMAIN ran \cup {e} /\ ran'[e] = 1
      /\ \A f \in DOMAIN ran : ran'[f] = ran[f]
  <2>1. e \notin DOMAIN ran
    BY <1>0 DEF HistoryOk, TakeMove, Fresh
  <2>2. ran' = Count(ran, e)
    BY DEF TakeMove, Take
  <2> QED BY <2>1, <2>2 DEF Count, With
<1>6. \A r : IsRow(r) => IsRow(r)'
  BY <1>1 DEF IsRow, TakeMove
<1>7. TablesOk'
  <2>1. PICK r : r = [inst |-> i, kind |-> kind, id |-> serial + 1, attempts |-> 0]
    OBVIOUS
  <2>2. IsRow(r)'
    BY <1>1, <2>1 DEF IsRow, TakeMove
  <2>3. (\A f \in DOMAIN journal : IsEvent(f) /\ IsRow(journal[f]))'
    BY <1>0, <1>1, <1>6, <2>1, <2>2 DEF TablesOk, IsEvent, TakeMove, Fresh
  <2>4. \A j \in DOMAIN rows : rows[j].born \in Nat /\ rows[j].born <= serial'
    BY <1>0, <1>1 DEF TablesOk
  <2> QED BY <1>0, <1>1, <2>3, <2>4 DEF TablesOk, TakeMove
<1>8. WorkOk' /\ StagesOk'
  BY <1>2 DEF WorkOk, StagesOk, TakeMove
<1>9. RegistryOk'
  BY <1>0, <1>2, <1>3 DEF RegistryOk, TakeMove, TablesOk, Acts
<1>10. ThreadsOk'
  BY DEF CoreInv, ThreadsOk, TakeMove, OneConversation, Running
<1>11. EntriesOk'
  <2>1. \A f, g \in DOMAIN journal' : f /= g => journal'[f].id /= journal'[g].id
    BY <1>0, <1>1 DEF EntriesOk, TablesOk, IsRow
  <2>2. \A f \in DOMAIN journal' : f \in DOMAIN taken' /\ taken'[f] = journal'[f].inst
    BY <1>0, <1>1, <1>4 DEF EntriesOk
  <2>3. ASSUME NEW f \in DOMAIN journal', journal'[f].kind = "create"
        PROVE  /\ f = Message(journal'[f].inst) /\ journal'[f].inst \notin DOMAIN rows'
               /\ \A g \in DOMAIN taken' : taken'[g] = journal'[f].inst => g = f
    <3>1. CASE f = e
      <4>1. kind = "create" /\ journal'[f].inst = i
        BY <1>1, <2>3, <3>1
      <4>2. e = Message(i) /\ i \notin received
        BY <1>0, <4>1 DEF TakeMove
      <4>3. i \notin DOMAIN rows /\ \A g \in DOMAIN taken : taken[g] /= i
        BY <1>0, <4>2 DEF TablesOk, HistoryOk
      <4> QED BY <1>4, <3>1, <4>1, <4>2, <4>3 DEF TakeMove
    <3>2. CASE f /= e
      <4>1. /\ f \in DOMAIN journal /\ journal'[f] = journal[f] /\ journal[f].inst \notin DOMAIN rows
            /\ f = Message(journal[f].inst) /\ journal[f].inst \in received
            /\ \A g \in DOMAIN taken : taken[g] = journal[f].inst => g = f
        BY <1>0, <1>1, <2>3, <3>2 DEF EntriesOk, TablesOk, IsRow
      <4>2. i /= journal[f].inst
        BY <1>0, <4>1 DEF TakeMove, RegistryOk
      <4> QED BY <1>4, <4>1, <4>2 DEF TakeMove
    <3> QED BY <3>1, <3>2
  <2> QED BY <2>1, <2>2, <2>3 DEF EntriesOk
<1>12. HistoryOk'
  <2>1. DOMAIN ran' = DOMAIN taken'
    BY <1>0, <1>4, <1>5 DEF HistoryOk
  <2>2. ASSUME NEW f \in DOMAIN taken'
        PROVE  /\ IsEvent(f) /\ taken'[f] \in received'
               /\ f.kind = "message" => f.id \in received'
               /\ f.kind = "fire" => /\ <<f.id[1], f.id[2]>> \in Timers /\ f.id[3] \in Nat
                                     /\ f.id[3] <= fired'[<<f.id[1], f.id[2]>>]
    <3>1. CASE f = e
      BY <1>4, <3>1 DEF TakeMove, Fresh
    <3>2. CASE f /= e
      <4>1. f \in DOMAIN taken /\ taken'[f] = taken[f]
        BY <1>4, <3>2
      <4>2. /\ IsEvent(f) /\ taken[f] \in received /\ (f.kind = "message" => f.id \in received)
        BY <1>0, <4>1 DEF HistoryOk
      <4>3. f.kind = "fire" => /\ <<f.id[1], f.id[2]>> \in Timers /\ f.id[3] \in Nat
                                /\ f.id[3] <= fired[<<f.id[1], f.id[2]>>]
        BY <1>0, <4>1 DEF HistoryOk
      <4>4. \A t \in Timers : fired[t] <= fired'[t] /\ fired[t] \in Nat /\ fired'[t] \in Nat
        BY <1>0 DEF TakeMove, FiredOk
      <4> QED BY <4>1, <4>2, <4>3, <4>4 DEF TakeMove
    <3> QED BY <3>1, <3>2
  <2> QED BY <2>1, <2>2 DEF HistoryOk, IsEvent
<1>13. RunOk'
  BY <1>1, <1>2 DEF RunOk, OnInbound, Acts, TakeMove
<1>14. ReplaysOk'
  BY DEF ReplaysOk, TakeMove
<1>15. DoneOk'
  BY <1>4 DEF CoreInv, DoneOk, Once, TakeMove
<1>16. AheadOk'
  <2>1. e.kind /= "internal"
    BY DEF TakeMove, Fresh, IsEvent
  <2>2. /\ \A j \in DOMAIN rows : e \notin DOMAIN rows[j].done
        /\ \A j \in DOMAIN registry : e \notin DOMAIN registry[j].done
    BY <2>1 DEF CoreInv, DoneOk, Once, TakeMove, Fresh
  <2>3. \A f \in DOMAIN journal : journal[f].id < serial + 1
    BY <1>0, <1>1 DEF TablesOk, IsRow
  <2> QED BY <1>1, <1>2, <1>3, <2>2, <2>3 DEF CoreInv, AheadOk, TakeMove
<1>17. KeptOk'
  <2>1. \A f \in DOMAIN journal : journal[f].inst \in DOMAIN registry => f \in DOMAIN registry[journal[f].inst].done
    BY <1>0, <1>3 DEF KeptOk, RunOrDue, TakeMove
  <2>2. \A f \in DOMAIN journal' : journal'[f].inst \in DOMAIN registry' => RunOrDue(f)'
    BY <1>1, <1>2, <1>3, <2>1 DEF RunOrDue, TakeMove
  <2>3. NothingLost' /\ EndsOk'
    BY <1>0, <1>1, <1>4 DEF KeptOk, NothingLost, EndsOk, TakeMove
  <2> QED BY <2>2, <2>3 DEF KeptOk
<1>18. RunsOk'
  BY <1>1, <1>5, WfAssumption DEF CoreInv, RunsOk, TakeMove
<1>19. FiredOk'
  BY DEF TakeMove
<1> QED BY <1>7, <1>8, <1>9, <1>10, <1>11, <1>12, <1>13, <1>14, <1>15, <1>16, <1>17, <1>18, <1>19 DEF CoreInv

----------------------------------------------------------------------------
(* A transition commits, or its commit fails. *)

\* The instance as a transition leaves it: its event is in its state, once if it is an
\* inbound one.
LEMMA OutcomeIs ==
    ASSUME CoreInv, work.at = "act", NEW out, out = Outcome
    PROVE  /\ out.status = work.status
           /\ work.kind = "create" => out.born = serial + 1 /\ DOMAIN out.done = {work.event}
           /\ work.kind /= "create" =>
                 /\ work.inst \in DOMAIN registry /\ out.born = registry[work.inst].born
                 /\ DOMAIN registry[work.inst].done \subseteq DOMAIN out.done
                 /\ DOMAIN rows[work.inst].done \subseteq DOMAIN out.done
                 /\ DOMAIN out.done \subseteq DOMAIN registry[work.inst].done \cup {work.event}
           /\ work.kind = "close" => DOMAIN out.done = DOMAIN registry[work.inst].done
           /\ work.kind /= "close" => work.event \in DOMAIN out.done
           /\ Once(out.done)
<1>0. RegistryOk /\ RunOk /\ EntriesOk /\ DoneOk /\ AheadOk
  BY DEF CoreInv
<1>1. CASE work.kind = "create"
  <2>1. /\ out.status = work.status /\ out.born = serial + 1
        /\ out.done = Count(<< >>, work.event)
    BY <1>1 DEF Outcome
  <2>2. DOMAIN out.done = {work.event} /\ out.done[work.event] = 1
    BY <2>1 DEF Count, With
  <2>3. work.event \in DOMAIN taken
    BY <1>0, <1>1 DEF RunOk, EntriesOk, OnInbound
  <2> QED BY <1>1, <2>1, <2>2, <2>3 DEF Once
<1>2. CASE work.kind = "close"
  <2>1. work.inst \in DOMAIN registry
    BY <1>0, <1>2 DEF RegistryOk, Acts
  <2>2. /\ out.status = work.status /\ out.born = registry[work.inst].born
        /\ out.done = registry[work.inst].done
    BY <1>2 DEF Outcome
  <2> QED BY <1>0, <1>2, <2>1, <2>2 DEF DoneOk
<1>3. CASE work.kind \notin {"create", "close"}
  <2>1. work.inst \in DOMAIN registry
    BY <1>0, <1>3 DEF RegistryOk, Acts
  <2>2. PICK done : done = registry[work.inst].done
    OBVIOUS
  <2>3. /\ out.status = work.status /\ out.born = registry[work.inst].born
        /\ out.done = Count(done, work.event)
    BY <1>3, <2>2 DEF Outcome
  <2>4. /\ DOMAIN out.done = DOMAIN done \cup {work.event}
        /\ \A e \in DOMAIN done : e /= work.event => out.done[e] = done[e]
        /\ work.event \notin DOMAIN done => out.done[work.event] = 1
    BY <2>3 DEF Count, With
  <2>5. \/ work.event.kind = "internal"
        \/ work.event \in DOMAIN taken /\ work.event \notin DOMAIN done
    <3>1. CASE work.kind = "event"
      BY <1>0, <2>1, <2>2, <3>1 DEF RunOk, EntriesOk, OnInbound, AheadOk
    <3>2. CASE work.kind = "internal"
      BY <1>0, <3>2 DEF RunOk, Acts
    <3>3. work.kind \in {"event", "internal"}
      BY <1>3 DEF CoreInv, WorkOk, IsAct, Idle
    <3> QED BY <3>1, <3>2, <3>3
  <2>6. Once(done) /\ DOMAIN rows[work.inst].done \subseteq DOMAIN done
    BY <1>0, <2>1, <2>2 DEF DoneOk
  <2>7. Once(out.done)
    BY <2>4, <2>5, <2>6 DEF Once
  <2> QED BY <1>3, <2>1, <2>2, <2>3, <2>4, <2>6, <2>7
<1> QED BY <1>1, <1>2, <1>3

\* The only event of an instance that is being made is the one that makes it.
LEMMA CreationAlone ==
    ASSUME CoreInv, work.at = "act", work.kind = "create"
    PROVE  \A f \in DOMAIN taken : taken[f] = work.inst => f = work.event
<1>1. /\ work.event \in DOMAIN journal /\ journal[work.event].inst = work.inst
      /\ journal[work.event].kind = "create"
  BY DEF CoreInv, RunOk, OnInbound
<1> QED BY <1>1 DEF CoreInv, EntriesOk

\* What a commit takes out of the journal is in the state it writes, and nothing that is in
\* it stays.
LEMMA ConsumedIs ==
    ASSUME CoreInv, work.at = "act", NEW out, out = Outcome, NEW left, left = Consumed
    PROVE  /\ DOMAIN left \subseteq DOMAIN journal
           /\ \A f \in DOMAIN left : left[f] = journal[f]
           /\ \A f \in DOMAIN journal \ DOMAIN left :
                 OnInbound /\ journal[f].inst = work.inst /\ journal[f].id <= work.id /\ f \in DOMAIN out.done
           /\ OnInbound => work.event \notin DOMAIN left
           /\ work.kind /= "close" => DOMAIN left \cap DOMAIN out.done = {}
<1>0. /\ TablesOk /\ RegistryOk /\ RunOk /\ EntriesOk /\ AheadOk /\ KeptOk /\ ReplaysOk /\ StagesOk /\ HistoryOk
  BY DEF CoreInv
<1>1. CASE ~OnInbound
  <2>1. left = journal
    BY <1>1 DEF Consumed, OnInbound
  <2>2. ASSUME work.kind /= "close" PROVE DOMAIN left \cap DOMAIN out.done = {}
    <3>1. work.kind = "internal"
      BY <1>1, <2>2 DEF OnInbound, CoreInv, WorkOk, IsAct, Idle
    <3>2. /\ work.inst \in DOMAIN registry
          /\ DOMAIN out.done \subseteq DOMAIN registry[work.inst].done \cup {work.event}
      BY <3>1, OutcomeIs
    <3>3. work.event.kind = "internal"
      BY <1>0, <3>1 DEF RunOk, Acts
    <3>4. work.event \notin DOMAIN journal
      BY <1>0, <3>3 DEF TablesOk, IsEvent
    <3>5. DOMAIN registry[work.inst].done \cap DOMAIN journal = {}
      BY <1>0, <3>1, <3>2 DEF AheadOk, OnInternal
    <3> QED BY <2>1, <3>2, <3>4, <3>5
  <2> QED BY <1>1, <2>1, <2>2
<1>2. CASE OnInbound
  <2>1. work.kind \in {"create", "event"}
    BY <1>2 DEF OnInbound
  <2>2. /\ DOMAIN left = {f \in DOMAIN journal : ~(journal[f].inst = work.inst /\ journal[f].id <= work.id)}
        /\ \A f \in DOMAIN left : left[f] = journal[f]
    BY <2>1 DEF Consumed, Without
  <2>3. /\ work.event \in DOMAIN journal /\ journal[work.event].inst = work.inst
        /\ journal[work.event].id = work.id /\ work.id \in Nat
    BY <1>0, <1>2 DEF RunOk, TablesOk, IsRow
  <2>4. work.event \notin DOMAIN left
    BY <2>2, <2>3
  <2>5. ASSUME NEW f \in DOMAIN journal, journal[f].inst = work.inst, journal[f].id <= work.id
        PROVE  f \in DOMAIN out.done
    <3>1. CASE work.kind = "create"
      <4>1. taken[f] = work.inst /\ f \in DOMAIN taken
        BY <1>0, <2>5 DEF EntriesOk
      <4> QED BY <3>1, <4>1, CreationAlone, OutcomeIs
    <3>2. CASE work.kind = "event"
      <4>1. /\ work.inst \in DOMAIN registry /\ work.event \in DOMAIN out.done
            /\ DOMAIN registry[work.inst].done \subseteq DOMAIN out.done
        BY <3>2, OutcomeIs
      <4>2. RunOrDue(f)
        BY <1>0, <2>5, <4>1 DEF KeptOk
      <4>3. ~Early
        BY <1>0, <1>2 DEF StagesOk, OnInbound, OnInternal, Idle
      <4>4. ASSUME NEW k \in Replays, k.event = f PROVE FALSE
        <5>1. taken[f] = work.inst
          BY <1>0, <2>5 DEF EntriesOk
        <5>2. k.row.inst = work.inst
          BY <1>0, <4>4, <5>1 DEF ReplaysOk
        <5>3. journal[f] = k.row /\ work.id < k.row.id
          BY <1>0, <1>2, <4>1, <4>4, <5>2 DEF ReplaysOk
        <5>4. k.row.id \in Nat
          BY <1>0 DEF TablesOk, IsRow
        <5> QED BY <2>3, <2>5, <5>3, <5>4
      <4> QED BY <2>5, <4>1, <4>2, <4>3, <4>4 DEF RunOrDue
    <3> QED BY <2>1, <3>1, <3>2
  <2>6. ASSUME NEW f \in DOMAIN left, f \in DOMAIN out.done PROVE FALSE
    <3>1. f \in DOMAIN journal /\ f /= work.event
      BY <2>2, <2>4, <2>6
    <3>2. CASE work.kind = "create"
      BY <3>1, <3>2, <2>6, OutcomeIs
    <3>3. CASE work.kind = "event"
      <4>1. work.inst \in DOMAIN registry /\ f \in DOMAIN registry[work.inst].done
        BY <2>6, <3>1, <3>3, OutcomeIs
      <4>2. journal[f].inst = work.inst /\ journal[f].id < work.id
        BY <1>0, <1>2, <3>1, <4>1 DEF AheadOk
      <4>3. journal[f].id \in Nat
        BY <1>0, <3>1 DEF TablesOk, IsRow
      <4> QED BY <2>2, <2>3, <4>2, <4>3
    <3> QED BY <2>1, <3>2, <3>3
  <2> QED BY <1>2, <2>2, <2>4, <2>5, <2>6
<1> QED BY <1>1, <1>2

\* The rows still to run again are not of the instance that commits.
LEMMA ReplaysApart ==
    ASSUME CoreInv, work.at = "act", NEW out, out = Outcome, NEW k \in Replays
    PROVE  /\ k.event \notin DOMAIN out.done
           /\ work.kind = "create" => k.row.inst /= work.inst
           /\ OnInbound => k.event /= work.event /\ work.id < k.row.id
<1>0. RunOk /\ ReplaysOk /\ AheadOk /\ HistoryOk /\ EntriesOk
  BY DEF CoreInv
<1>1. OnInbound => k.event /= work.event /\ work.id < k.row.id
  BY <1>0 DEF ReplaysOk
<1>2. k.event \in DOMAIN taken /\ taken[k.event] = k.row.inst /\ k.event.kind /= "internal"
  BY <1>0 DEF ReplaysOk, HistoryOk, IsEvent
<1>3. CASE work.kind = "create"
  BY <1>1, <1>2, <1>3, CreationAlone, OutcomeIs DEF OnInbound
<1>4. CASE work.kind /= "create"
  <2>1. k.event \notin DOMAIN registry[work.inst].done
    BY <1>0, <1>4, OutcomeIs DEF AheadOk
  <2>2. work.kind = "event" \/ work.kind = "internal" \/ work.kind = "close"
    BY <1>4 DEF CoreInv, WorkOk, IsAct, Idle
  <2>3. CASE work.kind = "event"
    BY <1>1, <1>4, <2>1, <2>3, OutcomeIs DEF OnInbound
  <2>4. CASE work.kind = "internal"
    <3>1. work.event.kind = "internal"
      BY <1>0, <2>4 DEF RunOk, Acts
    <3> QED BY <1>1, <1>2, <1>4, <2>1, <3>1, OutcomeIs
  <2>5. CASE work.kind = "close"
    BY <1>1, <1>4, <2>1, <2>5, OutcomeIs
  <2> QED BY <2>2, <2>3, <2>4, <2>5
<1> QED BY <1>3, <1>4

\* A commit.
LEMMA CommitSafe ==
    ASSUME CoreInv, Commit
    PROVE  CoreInv'
<1>0. /\ TablesOk /\ RegistryOk /\ RunOk /\ EntriesOk /\ AheadOk /\ KeptOk /\ ReplaysOk /\ StagesOk
      /\ HistoryOk /\ ThreadsOk /\ DoneOk /\ RunsOk /\ FiredOk /\ WorkOk
  BY DEF CoreInv
<1>1. /\ work.at = "act" /\ up /\ up' = up /\ IsAct(work) /\ work /= Idle
      /\ UNCHANGED <<agenda, received, taken, dropped, ran, unsaved, fired>>
      /\ ended' = IF work.status = "ended" THEN ended \cup {work.inst} ELSE ended
  BY <1>0 DEF Commit, Ready, history, WorkOk, Idle
<1>2. PICK i : i = work.inst
  OBVIOUS
<1>3. PICK out : out = Outcome
  OBVIOUS
<1>4. /\ DOMAIN rows' = DOMAIN rows \cup {i} /\ rows'[i] = out
      /\ \A j \in DOMAIN rows : j /= i => rows'[j] = rows[j]
  BY <1>2, <1>3 DEF Commit, With
<1>5. /\ serial \in Nat /\ serial <= serial' /\ serial' \in Nat
      /\ work.kind = "create" => serial' = serial + 1
  BY <1>0 DEF Commit, TablesOk
<1>6. /\ DOMAIN journal' \subseteq DOMAIN journal
      /\ \A f \in DOMAIN journal' : journal'[f] = journal[f]
      /\ \A f \in DOMAIN journal \ DOMAIN journal' :
            OnInbound /\ journal[f].inst = i /\ journal[f].id <= work.id /\ f \in DOMAIN out.done
      /\ OnInbound => work.event \notin DOMAIN journal'
      /\ work.kind /= "close" => DOMAIN journal' \cap DOMAIN out.done = {}
  <2>1. journal' = Consumed
    BY DEF Commit
  <2> QED BY <1>1, <1>2, <1>3, <2>1, ConsumedIs
<1>7. /\ out.status = work.status
      /\ work.kind = "create" => out.born = serial + 1 /\ DOMAIN out.done = {work.event}
      /\ work.kind /= "create" =>
            /\ i \in DOMAIN registry /\ i \in DOMAIN rows /\ out.born = registry[i].born
            /\ DOMAIN registry[i].done \subseteq DOMAIN out.done
            /\ DOMAIN rows[i].done \subseteq DOMAIN out.done
      /\ Once(out.done)
  BY <1>0, <1>1, <1>2, <1>3, OutcomeIs DEF RegistryOk
<1>8. /\ \A j \in DOMAIN registry' : j /= i => j \in DOMAIN registry /\ registry'[j] = registry[j]
      /\ \A j \in DOMAIN registry : j /= i => j \in DOMAIN registry' /\ registry'[j] = registry[j]
      /\ i \in DOMAIN registry' => registry'[i] = out /\ work.status = "running"
      /\ work.status = "running" => i \in DOMAIN registry'
  <2>1. CASE work.status = "running"
    BY <1>2, <1>3, <2>1 DEF Commit, Settled, With
  <2>2. CASE work.status /= "running"
    BY <1>2, <1>3, <2>2 DEF Commit, Settled, Without
  <2> QED BY <2>1, <2>2
<1>9. \/ work.status = "ended" /\ work' = Idle
      \/ work.status = "running" /\ work'.at = "drain" /\ work'.inst = i
  BY <1>1, <1>2 DEF Commit, IsAct
<1>10. ~Acts' /\ ~OnInbound' /\ (OnInternal' => work'.inst = i) /\ (OnInternal' \/ work' = Idle)
  BY <1>9 DEF Acts, OnInbound, OnInternal, Idle
<1>11. Replays' = Replays /\ Drains' = Drains /\ Early' = Early
  BY <1>1 DEF Replays, Drains, Early
<1>12. /\ i \in DOMAIN registry' => DOMAIN journal' \cap DOMAIN out.done = {}
       /\ out.status = "running" => DOMAIN journal' \cap DOMAIN out.done = {}
  BY <1>1, <1>6, <1>7, <1>8 DEF IsAct
<1>13. \A r : IsRow(r) => IsRow(r)'
  BY <1>1, <1>5 DEF IsRow
<1>14. TablesOk'
  <2>1. (\A f \in DOMAIN journal : IsEvent(f) /\ IsRow(journal[f]))'
    BY <1>0, <1>6, <1>13 DEF TablesOk, IsEvent
  <2>2. \A j \in DOMAIN rows' : /\ j \in received /\ rows'[j].status \in {"running", "ended"}
                                /\ rows'[j].born \in Nat /\ rows'[j].born <= serial'
    <3>1. i \in received /\ out.status \in {"running", "ended"}
      BY <1>1, <1>2, <1>7 DEF IsAct
    <3>2. out.born \in Nat /\ out.born <= serial'
      BY <1>0, <1>5, <1>7 DEF TablesOk, RegistryOk
    <3>3. \A j \in DOMAIN rows : /\ j \in received /\ rows[j].status \in {"running", "ended"}
                                /\ rows[j].born \in Nat /\ rows[j].born <= serial'
      BY <1>0, <1>5 DEF TablesOk
    <3> QED BY <1>4, <3>1, <3>2, <3>3
  <2> QED BY <1>0, <1>1, <1>5, <1>11, <1>13, <2>1, <2>2 DEF TablesOk
<1>15. WorkOk' /\ StagesOk'
  <2>1. i \in received
    BY <1>1, <1>2 DEF IsAct
  <2> QED BY <1>0, <1>1, <1>9, <1>10, <1>11, <2>1 DEF WorkOk, StagesOk
<1>16. RegistryOk'
  <2>1. ASSUME NEW j \in DOMAIN registry'
        PROVE  /\ j \in DOMAIN rows' /\ rows'[j].status = "running"
               /\ registry'[j].status = "running" /\ registry'[j].born = rows'[j].born
    BY <1>0, <1>4, <1>7, <1>8 DEF RegistryOk
  <2>2. \A k \in Drains : k.inst \in DOMAIN registry' /\ k.inst /= i
    BY <1>0, <1>1, <1>2, <1>8 DEF RegistryOk
  <2>3. work'.at = "drain" => work'.inst \in DOMAIN registry'
    BY <1>8, <1>9 DEF Idle
  <2> QED BY <1>9, <1>10, <1>11, <2>1, <2>2, <2>3 DEF RegistryOk
<1>17. ThreadsOk'
  <2>1. \A j, l \in DOMAIN registry' : j /= l => ThreadOf[j] /= ThreadOf[l]
    <3>1. \A j \in DOMAIN registry : j /= i => ThreadOf[j] /= ThreadOf[i]
      BY <1>0, <1>1, <1>2, <1>7 DEF ThreadsOk, RegistryOk, Acts
    <3> QED BY <1>0, <1>8, <3>1 DEF ThreadsOk
  <2>2. \A j, l \in DOMAIN rows' : j /= l => rows'[j].born /= rows'[l].born
    <3>1. \A j \in DOMAIN rows : j /= i => rows[j].born /= out.born
      <4>1. CASE work.kind = "create"
        BY <1>0, <1>5, <1>7, <4>1 DEF TablesOk
      <4>2. CASE work.kind /= "create"
        BY <1>0, <1>7, <4>2 DEF ThreadsOk, RegistryOk
      <4> QED BY <4>1, <4>2
    <3> QED BY <1>0, <1>4, <3>1 DEF ThreadsOk
  <2>3. \A j \in DOMAIN rows' : rows'[j].status = "running" => j \in DOMAIN registry' \cup unsaved'
    BY <1>0, <1>1, <1>4, <1>7, <1>8 DEF ThreadsOk
  <2>4. OneConversation'
    BY <2>1, <2>3 DEF OneConversation, Running
  <2> QED BY <2>1, <2>2, <2>3, <2>4 DEF ThreadsOk
<1>18. EntriesOk'
  <2>1. \A f \in DOMAIN journal' : journal'[f].kind = "create" => journal'[f].inst /= i
    <3>1. CASE work.kind = "create"
      <4>1. \A f \in DOMAIN taken : taken[f] = i => f = work.event
        BY <1>1, <1>2, <3>1, CreationAlone
      <4>2. OnInbound
        BY <1>1, <3>1 DEF OnInbound
      <4> QED BY <1>0, <1>6, <4>1, <4>2 DEF EntriesOk
    <3>2. CASE work.kind /= "create"
      BY <1>0, <1>6, <1>7, <3>2 DEF EntriesOk
    <3> QED BY <3>1, <3>2
  <2> QED BY <1>0, <1>1, <1>4, <1>6, <2>1 DEF EntriesOk
<1>19. HistoryOk' /\ RunOk' /\ FiredOk'
  BY <1>0, <1>1, <1>10 DEF HistoryOk, RunOk, FiredOk, IsEvent
<1>20. ReplaysOk'
  <2>1. ASSUME NEW k \in Replays, k.row.kind = "create" \/ k.row.inst \in DOMAIN registry'
        PROVE  k.event \in DOMAIN journal' /\ journal'[k.event] = k.row
    <3>1. k.row.kind = "create" \/ k.row.inst \in DOMAIN registry
      BY <1>1, <1>2, <1>3, <1>7, <1>8, <2>1, ReplaysApart
    <3>2. k.event \in DOMAIN journal /\ journal[k.event] = k.row
      BY <1>0, <3>1 DEF ReplaysOk
    <3>3. k.event \notin DOMAIN out.done
      BY <1>1, <1>3, ReplaysApart
    <3> QED BY <1>6, <3>2, <3>3
  <2> QED BY <1>0, <1>1, <1>10, <1>11, <2>1 DEF ReplaysOk
<1>21. DoneOk'
  <2>1. \A done : Once(done) => Once(done)'
    BY <1>1 DEF Once
  <2> QED BY <1>0, <1>4, <1>7, <1>8, <2>1 DEF DoneOk, RegistryOk
<1>22. AheadOk'
  <2>1. \A j \in DOMAIN rows' : rows'[j].status = "running" => DOMAIN rows'[j].done \cap DOMAIN journal' = {}
    BY <1>0, <1>4, <1>6, <1>12 DEF AheadOk
  <2>2. ASSUME NEW j \in DOMAIN registry', NEW f \in DOMAIN registry'[j].done \cap DOMAIN journal'
        PROVE  /\ journal'[f].inst = j /\ ~Early /\ j /= i
               /\ \A k \in Replays : journal'[f].id < k.row.id
    <3>1. j /= i
      BY <1>8, <1>12
    <3>2. j \in DOMAIN registry /\ f \in DOMAIN registry[j].done \cap DOMAIN journal /\ journal'[f] = journal[f]
      BY <1>6, <1>8, <3>1
    <3> QED BY <1>0, <3>1, <3>2 DEF AheadOk
  <2>3. \A j \in DOMAIN registry' : \A k \in Replays : k.event \notin DOMAIN registry'[j].done
    BY <1>0, <1>1, <1>3, <1>8, ReplaysApart DEF AheadOk
  <2> QED BY <1>10, <1>11, <2>1, <2>2, <2>3 DEF AheadOk
<1>23. KeptOk'
  <2>1. ASSUME NEW f \in DOMAIN journal', journal'[f].inst \in DOMAIN registry'
        PROVE  RunOrDue(f)'
    <3>1. f \in DOMAIN journal /\ journal'[f] = journal[f]
      BY <1>6
    <3>2. ~(OnInbound /\ work.event = f)
      BY <1>6
    <3>3. CASE journal[f].inst = i
      <4>1. f \in DOMAIN taken /\ taken[f] = i
        BY <1>0, <3>1, <3>3 DEF EntriesOk
      <4>2. work.kind /= "create"
        BY <1>1, <1>2, <3>2, <4>1, CreationAlone DEF OnInbound
      <4>3. RunOrDue(f)
        BY <1>0, <1>7, <3>1, <3>3, <4>2 DEF KeptOk
      <4>4. f \in DOMAIN registry[i].done => f \in DOMAIN registry'[i].done
        BY <1>7, <1>8, <2>1, <3>1, <3>3, <4>2
      <4> QED BY <1>11, <3>1, <3>2, <3>3, <4>3, <4>4 DEF RunOrDue
    <3>4. CASE journal[f].inst /= i
      <4>1. journal[f].inst \in DOMAIN registry /\ registry'[journal[f].inst] = registry[journal[f].inst]
        BY <1>8, <2>1, <3>1, <3>4
      <4>2. RunOrDue(f)
        BY <1>0, <3>1, <4>1 DEF KeptOk
      <4> QED BY <1>11, <3>1, <3>2, <4>1, <4>2 DEF RunOrDue
    <3> QED BY <3>3, <3>4
  <2>2. ASSUME NEW f \in DOMAIN taken', f \notin DOMAIN journal' \cup dropped', taken'[f] \notin ended'
        PROVE  taken'[f] \in DOMAIN rows' /\ f \in DOMAIN rows'[taken'[f]].done
    <3>1. f \in DOMAIN taken /\ taken'[f] = taken[f] /\ f \notin dropped /\ taken[f] \notin ended
      BY <1>1, <2>2
    <3>2. CASE taken[f] = i
      <4>1. CASE f \in DOMAIN journal
        BY <1>4, <1>6, <2>2, <3>1, <3>2, <4>1
      <4>2. CASE f \notin DOMAIN journal /\ work.kind = "create"
        BY <1>1, <1>2, <1>4, <1>7, <3>1, <3>2, <4>2, CreationAlone
      <4>3. CASE f \notin DOMAIN journal /\ work.kind /= "create"
        <5>1. f \in DOMAIN rows[i].done
          BY <1>0, <3>1, <3>2, <4>3 DEF KeptOk, NothingLost
        <5> QED BY <1>4, <1>7, <3>1, <3>2, <4>3, <5>1
      <4> QED BY <4>1, <4>2, <4>3
    <3>3. CASE taken[f] /= i
      <4>1. f \notin DOMAIN journal
        <5>1. f \in DOMAIN journal => journal[f].inst /= i
          BY <1>0, <3>3 DEF EntriesOk
        <5> QED BY <1>6, <2>2, <5>1
      <4>2. taken[f] \in DOMAIN rows /\ f \in DOMAIN rows[taken[f]].done
        BY <1>0, <3>1, <4>1 DEF KeptOk, NothingLost
      <4> QED BY <1>4, <3>1, <3>3, <4>2
    <3> QED BY <3>2, <3>3
  <2>3. EndsOk'
    BY <1>0, <1>1, <1>2, <1>4, <1>7 DEF KeptOk, EndsOk
  <2>4. NothingLost'
    BY <2>2 DEF NothingLost
  <2> QED BY <2>1, <2>3, <2>4 DEF KeptOk
<1>24. RunsOk'
  BY <1>0, <1>1, <1>6, <1>11 DEF RunsOk
<1> QED BY <1>14, <1>15, <1>16, <1>17, <1>18, <1>19, <1>20, <1>21, <1>22, <1>23, <1>24 DEF CoreInv

\* A commit that fails.
LEMMA CommitFailsSafe ==
    ASSUME CoreInv, CommitFails
    PROVE  CoreInv'
<1>0. /\ TablesOk /\ RegistryOk /\ RunOk /\ EntriesOk /\ AheadOk /\ KeptOk /\ ReplaysOk /\ StagesOk
      /\ HistoryOk /\ ThreadsOk /\ DoneOk /\ RunsOk /\ FiredOk /\ WorkOk
  BY DEF CoreInv
<1>1. /\ work.at = "act" /\ up /\ up' = up /\ IsAct(work) /\ work /= Idle /\ work' = Idle
      /\ UNCHANGED <<rows, journal, serial, agenda, received, taken, dropped, ran, fired, ended>>
  BY <1>0 DEF CommitFails, Ready, store, WorkOk, Idle
<1>2. PICK i : i = work.inst
  OBVIOUS
<1>3. PICK out : out = Outcome
  OBVIOUS
<1>4. unsaved' = IF work.status = "ended" /\ i \in DOMAIN rows THEN unsaved \cup {i} ELSE unsaved
  BY <1>2 DEF CommitFails
<1>5. /\ out.status = work.status
      /\ work.kind = "create" => i \notin DOMAIN rows /\ i \notin DOMAIN registry
      /\ work.kind /= "create" =>
            /\ i \in DOMAIN registry /\ i \in DOMAIN rows /\ out.born = registry[i].born
            /\ DOMAIN registry[i].done \subseteq DOMAIN out.done
            /\ DOMAIN rows[i].done \subseteq DOMAIN out.done
            /\ DOMAIN out.done \subseteq DOMAIN registry[i].done \cup {work.event}
      /\ work.kind /= "close" => work.event \in DOMAIN out.done
      /\ Once(out.done)
  BY <1>0, <1>1, <1>2, <1>3, OutcomeIs DEF RegistryOk, Acts
<1>6. /\ \A j \in DOMAIN registry' : j /= i => j \in DOMAIN registry /\ registry'[j] = registry[j]
      /\ \A j \in DOMAIN registry : j /= i => j \in DOMAIN registry' /\ registry'[j] = registry[j]
      /\ i \in DOMAIN registry' => registry'[i] = out /\ work.status = "running" /\ work.kind /= "create"
      /\ work.kind /= "create" /\ work.status = "running" => i \in DOMAIN registry'
  <2>1. CASE work.kind = "create"
    BY <1>2, <1>5, <2>1 DEF CommitFails
  <2>2. CASE work.kind /= "create" /\ work.status = "running"
    BY <1>2, <1>3, <2>2 DEF CommitFails, Settled, With
  <2>3. CASE work.kind /= "create" /\ work.status /= "running"
    BY <1>2, <1>3, <2>3 DEF CommitFails, Settled, Without
  <2> QED BY <2>1, <2>2, <2>3
<1>7. ~Acts' /\ ~OnInbound' /\ ~OnInternal' /\ work'.at /= "drain"
  BY <1>1 DEF Acts, OnInbound, OnInternal, Idle
<1>8. Replays' = Replays /\ Drains' = Drains /\ Early' = Early
  BY <1>1 DEF Replays, Drains, Early
<1>9. \A r : IsRow(r) => IsRow(r)'
  BY <1>1 DEF IsRow
<1>10. TablesOk' /\ WorkOk' /\ StagesOk'
  BY <1>0, <1>1, <1>8, <1>9 DEF TablesOk, WorkOk, StagesOk, IsEvent
<1>11. RegistryOk'
  <2>1. ASSUME NEW j \in DOMAIN registry'
        PROVE  /\ j \in DOMAIN rows' /\ rows'[j].status = "running"
               /\ registry'[j].status = "running" /\ registry'[j].born = rows'[j].born
    BY <1>0, <1>1, <1>5, <1>6 DEF RegistryOk
  <2>2. \A k \in Drains : k.inst \in DOMAIN registry'
    BY <1>0, <1>1, <1>2, <1>6 DEF RegistryOk
  <2> QED BY <1>1, <1>7, <1>8, <2>1, <2>2 DEF RegistryOk
<1>12. ThreadsOk'
  <2>1. DOMAIN registry' \subseteq DOMAIN registry
    BY <1>5, <1>6
  <2>2. \A j \in DOMAIN rows : rows[j].status = "running" => j \in DOMAIN registry' \cup unsaved'
    <3>1. work.status \in {"running", "ended"}
      BY <1>1 DEF IsAct
    <3> QED BY <1>0, <1>1, <1>4, <1>5, <1>6, <3>1 DEF ThreadsOk
  <2>3. OneConversation'
    BY <1>0, <1>1, <2>1, <2>2 DEF OneConversation, Running, ThreadsOk
  <2> QED BY <1>0, <1>1, <2>1, <2>2, <2>3 DEF ThreadsOk
<1>13. EntriesOk' /\ HistoryOk' /\ RunOk' /\ FiredOk' /\ RunsOk'
  BY <1>0, <1>1, <1>7, <1>8 DEF EntriesOk, HistoryOk, RunOk, FiredOk, RunsOk, IsEvent
<1>14. ReplaysOk'
  <2>1. DOMAIN registry' \subseteq DOMAIN registry
    BY <1>5, <1>6
  <2> QED BY <1>0, <1>1, <1>7, <1>8, <2>1 DEF ReplaysOk
<1>15. DoneOk'
  <2>1. \A done : Once(done) => Once(done)'
    BY <1>1 DEF Once
  <2> QED BY <1>0, <1>1, <1>5, <1>6, <2>1 DEF DoneOk
<1>16. AheadOk'
  <2>1. ASSUME NEW j \in DOMAIN registry', NEW f \in DOMAIN registry'[j].done \cap DOMAIN journal
        PROVE  journal[f].inst = j /\ ~Early /\ \A k \in Replays : journal[f].id < k.row.id
    <3>1. CASE j \in DOMAIN registry /\ f \in DOMAIN registry[j].done
      BY <1>0, <3>1 DEF AheadOk
    <3>2. CASE ~(j \in DOMAIN registry /\ f \in DOMAIN registry[j].done)
      <4>1. j = i /\ f = work.event /\ work.kind /= "create" /\ f \in DOMAIN journal
        BY <1>5, <1>6, <2>1, <3>2
      <4>2. f.kind /= "internal"
        BY <1>0, <4>1 DEF TablesOk, IsEvent
      <4>3. work.kind = "event"
        <5>1. work.kind /= "internal"
          BY <1>0, <1>1, <4>1, <4>2 DEF RunOk, Acts
        <5>2. work.kind /= "close"
          BY <1>1, <1>6, <4>1 DEF IsAct
        <5> QED BY <1>1, <4>1, <5>1, <5>2 DEF IsAct
      <4>4. OnInbound /\ ~OnInternal
        BY <1>1, <4>3 DEF OnInbound, OnInternal
      <4>5. ~Early
        BY <1>0, <1>1, <4>4 DEF StagesOk
      <4> QED BY <1>0, <1>2, <4>1, <4>4, <4>5 DEF RunOk, ReplaysOk
    <3> QED BY <3>1, <3>2
  <2>2. \A j \in DOMAIN registry' : \A k \in Replays : k.event \notin DOMAIN registry'[j].done
    BY <1>0, <1>1, <1>3, <1>6, ReplaysApart DEF AheadOk
  <2> QED BY <1>0, <1>1, <1>7, <1>8, <2>1, <2>2 DEF AheadOk
<1>17. KeptOk'
  <2>1. ASSUME NEW f \in DOMAIN journal, journal[f].inst \in DOMAIN registry'
        PROVE  RunOrDue(f)'
    <3>1. journal[f].inst \in DOMAIN registry
      BY <1>5, <1>6, <2>1
    <3>2. RunOrDue(f)
      BY <1>0, <3>1 DEF KeptOk
    <3>3. f \in DOMAIN registry[journal[f].inst].done => f \in DOMAIN registry'[journal[f].inst].done
      BY <1>5, <1>6, <2>1, <3>1
    <3>4. OnInbound /\ work.event = f => f \in DOMAIN registry'[journal[f].inst].done
      <4>1. SUFFICES ASSUME OnInbound, work.event = f PROVE f \in DOMAIN registry'[journal[f].inst].done
        OBVIOUS
      <4>2. journal[f].inst = i /\ work.kind /= "close"
        BY <1>0, <1>2, <4>1 DEF RunOk, OnInbound
      <4> QED BY <1>5, <1>6, <2>1, <4>1, <4>2
    <3> QED BY <1>1, <1>8, <3>2, <3>3, <3>4 DEF RunOrDue
  <2>2. NothingLost' /\ EndsOk'
    BY <1>0, <1>1 DEF KeptOk, NothingLost, EndsOk
  <2> QED BY <1>1, <2>1, <2>2 DEF KeptOk
<1> QED BY <1>10, <1>11, <1>12, <1>13, <1>14, <1>15, <1>16, <1>17 DEF CoreInv

----------------------------------------------------------------------------
(* Instances and rows that go. *)

\* Rows leave the journal and instances the registry; what runs ends.
Leaves ==
    /\ UNCHANGED <<serial, received, taken, ran, fired, up>>
    /\ work' = Idle /\ up
    /\ DOMAIN registry' \subseteq DOMAIN registry
    /\ \A j \in DOMAIN registry' : registry'[j] = registry[j]
    /\ DOMAIN journal' \subseteq DOMAIN journal
    /\ \A f \in DOMAIN journal' : journal'[f] = journal[f]
    /\ DOMAIN rows' \subseteq DOMAIN rows
    /\ \A j \in DOMAIN rows' : /\ rows'[j].done = rows[j].done /\ rows'[j].born = rows[j].born
                               /\ rows'[j].status \in {rows[j].status, "ended"}
    /\ \A j \in DOMAIN registry' : j \in DOMAIN rows' /\ rows'[j].status = "running"
    /\ \A j \in DOMAIN registry \ DOMAIN registry' :
          j \in unsaved' \/ (j \in DOMAIN rows' => rows'[j].status = "ended")
    /\ unsaved \subseteq unsaved' /\ dropped \subseteq dropped' /\ ended \subseteq ended'
    /\ \A j \in DOMAIN rows' : rows'[j].status = "ended" => rows[j].status = "ended" \/ j \in ended'
    /\ \A j \in DOMAIN rows \ DOMAIN rows' : j \in ended'
    /\ Replays' \subseteq Replays /\ Drains' = Drains /\ Early' = Early
    /\ \A k \in Drains : k.inst \in DOMAIN registry'
    /\ \A f \in DOMAIN journal \ DOMAIN journal' :
          f \in dropped' \/ journal[f].inst \in ended'
    /\ \A k \in Replays' : k.row.kind = "create" \/ k.row.inst \in DOMAIN registry' =>
          k.event \in DOMAIN journal'
    /\ \A f \in DOMAIN journal' : journal'[f].inst \in DOMAIN registry' =>
          ~OnInbound /\ \A k \in Replays \ Replays' : k.event /= f
\* The end of an instance, in memory and in the store, keeps the invariant.
LEMMA LeavesSafe ==
    ASSUME CoreInv, Leaves
    PROVE  CoreInv'
<1>0. /\ TablesOk /\ RegistryOk /\ RunOk /\ EntriesOk /\ AheadOk /\ KeptOk /\ ReplaysOk /\ StagesOk
      /\ HistoryOk /\ ThreadsOk /\ DoneOk /\ RunsOk /\ FiredOk /\ WorkOk
  BY DEF CoreInv
<1>1. ~Acts' /\ ~OnInbound' /\ ~OnInternal' /\ work'.at /= "drain"
  BY DEF Acts, OnInbound, OnInternal, Idle, Leaves
<1>2. \A r : IsRow(r) => IsRow(r)'
  BY DEF IsRow, Leaves
<1>3. TablesOk'
  BY <1>0, <1>2 DEF TablesOk, Leaves, IsEvent
<1>4. WorkOk' /\ StagesOk'
  BY <1>0 DEF WorkOk, StagesOk, Leaves
<1>5. RegistryOk'
  BY <1>0, <1>1 DEF RegistryOk, Leaves
<1>6. ThreadsOk'
  <2>1. \A j \in DOMAIN rows' : rows'[j].status = "running" => j \in DOMAIN registry' \cup unsaved'
    BY <1>0 DEF ThreadsOk, Leaves
  <2>2. \A j, l \in DOMAIN registry' : j /= l => ThreadOf[j] /= ThreadOf[l]
    BY <1>0 DEF ThreadsOk, Leaves
  <2>3. \A j, l \in DOMAIN rows' : j /= l => rows'[j].born /= rows'[l].born
    BY <1>0 DEF ThreadsOk, Leaves
  <2>4. OneConversation'
    BY <2>1, <2>2 DEF OneConversation, Running
  <2> QED BY <2>1, <2>2, <2>3, <2>4 DEF ThreadsOk
<1>7. EntriesOk' /\ HistoryOk' /\ FiredOk' /\ RunOk'
  BY <1>0, <1>1 DEF EntriesOk, HistoryOk, FiredOk, RunOk, Leaves, IsEvent
<1>8. ReplaysOk'
  BY <1>0, <1>1 DEF ReplaysOk, Leaves
<1>9. DoneOk'
  <2>1. \A done : Once(done) => Once(done)'
    BY DEF Once, Leaves
  <2> QED BY <1>0, <2>1 DEF DoneOk, Leaves
<1>10. AheadOk'
  BY <1>0, <1>1 DEF AheadOk, Leaves
<1>11. KeptOk'
  <2>1. ASSUME NEW f \in DOMAIN journal', journal'[f].inst \in DOMAIN registry'
        PROVE  RunOrDue(f)'
    <3>1. f \in DOMAIN journal /\ journal'[f] = journal[f] /\ journal[f].inst \in DOMAIN registry
      BY <2>1 DEF Leaves
    <3>2. RunOrDue(f)
      BY <1>0, <3>1 DEF KeptOk
    <3> QED BY <2>1, <3>1, <3>2 DEF RunOrDue, Leaves
  <2>2. NothingLost' /\ EndsOk'
    BY <1>0 DEF KeptOk, NothingLost, EndsOk, Leaves, EntriesOk
  <2> QED BY <2>1, <2>2 DEF KeptOk
<1>12. RunsOk'
  BY <1>0 DEF RunsOk, Leaves
<1> QED BY <1>3, <1>4, <1>5, <1>6, <1>7, <1>8, <1>9, <1>10, <1>11, <1>12 DEF CoreInv

\* An instance that ended goes from the store, with its rows.
LEMMA CollectSafe ==
    ASSUME CoreInv, NEW i, Collect(i)
    PROVE  CoreInv'
<1>0. /\ TablesOk /\ RegistryOk /\ RunOk /\ EntriesOk /\ AheadOk /\ KeptOk /\ ReplaysOk /\ StagesOk
      /\ HistoryOk /\ ThreadsOk /\ DoneOk /\ RunsOk /\ FiredOk /\ WorkOk
  BY DEF CoreInv
<1>1. /\ UNCHANGED <<serial, received, taken, ran, fired, up, work, registry, unsaved, ended, dropped, agenda>>
      /\ i \in DOMAIN rows /\ rows[i].status = "ended"
  BY DEF Collect, memory, history
<1>2. DOMAIN rows' = DOMAIN rows \ {i} /\ \A j \in DOMAIN rows' : rows'[j] = rows[j]
  BY DEF Collect, Without
<1>3. /\ DOMAIN journal' = {f \in DOMAIN journal : journal[f].inst /= i}
      /\ \A f \in DOMAIN journal' : journal'[f] = journal[f]
  BY DEF Collect, Without
<1>4. Replays' = Replays /\ Drains' = Drains /\ Early' = Early
  BY <1>1 DEF Replays, Drains, Early
<1>5. (Acts' <=> Acts) /\ (OnInbound' <=> OnInbound) /\ (OnInternal' <=> OnInternal)
  BY <1>1 DEF Acts, OnInbound, OnInternal
<1>6. \A r : IsRow(r) => IsRow(r)'
  BY <1>1 DEF IsRow
<1>7. i \notin DOMAIN registry
  BY <1>0, <1>1 DEF RegistryOk
<1>8. TablesOk'
  BY <1>0, <1>1, <1>2, <1>3, <1>4, <1>6 DEF TablesOk, IsEvent
<1>9. WorkOk' /\ StagesOk'
  BY <1>0, <1>1, <1>4, <1>5 DEF WorkOk, StagesOk, IsAct
<1>10. RegistryOk'
  BY <1>0, <1>1, <1>2, <1>4, <1>5, <1>7 DEF RegistryOk
<1>11. ThreadsOk'
  BY <1>0, <1>1, <1>2 DEF ThreadsOk, OneConversation, Running
<1>12. EntriesOk' /\ HistoryOk' /\ FiredOk'
  BY <1>0, <1>1, <1>2, <1>3 DEF EntriesOk, HistoryOk, FiredOk, IsEvent
<1>13. RunOk'
  <2>1. OnInbound => work.inst /= i
    BY <1>0, <1>1, <1>7 DEF RegistryOk, OnInbound, Acts
  <2> QED BY <1>0, <1>1, <1>3, <1>5, <2>1 DEF RunOk
<1>14. ReplaysOk'
  <2>1. \A k \in Replays : k.row.kind = "create" \/ k.row.inst \in DOMAIN registry => k.event \in DOMAIN journal'
    BY <1>0, <1>1, <1>3, <1>7 DEF ReplaysOk, EntriesOk
  <2> QED BY <1>0, <1>1, <1>3, <1>4, <1>5, <2>1 DEF ReplaysOk
<1>15. DoneOk'
  <2>1. \A done : Once(done) => Once(done)'
    BY <1>1 DEF Once
  <2> QED BY <1>0, <1>1, <1>2, <1>7, <2>1 DEF DoneOk, RegistryOk
<1>16. AheadOk'
  BY <1>0, <1>1, <1>2, <1>3, <1>4, <1>5 DEF AheadOk
<1>17. KeptOk'
  <2>1. ASSUME NEW f \in DOMAIN journal', journal'[f].inst \in DOMAIN registry'
        PROVE  RunOrDue(f)'
    <3>1. RunOrDue(f) /\ journal'[f] = journal[f]
      BY <1>0, <1>1, <1>3, <2>1 DEF KeptOk
    <3> QED BY <1>1, <1>4, <1>5, <3>1 DEF RunOrDue
  <2>2. NothingLost' /\ EndsOk'
    BY <1>0, <1>1, <1>2, <1>3 DEF KeptOk, NothingLost, EndsOk, EntriesOk
  <2> QED BY <2>1, <2>2 DEF KeptOk
<1>18. RunsOk'
  BY <1>0, <1>1, <1>3, <1>4 DEF RunsOk
<1> QED BY <1>8, <1>9, <1>10, <1>11, <1>12, <1>13, <1>14, <1>15, <1>16, <1>17, <1>18 DEF CoreInv

----------------------------------------------------------------------------
(* The loop turns to an instance without an inbound event, or stops. *)

\* An internal event, the drain of an instance, or its close.
Turns ==
    /\ UNCHANGED <<rows, journal, serial, registry, received, taken, dropped, ran, unsaved, ended, fired, up>>
    /\ up /\ ~OnInbound
    /\ \/ IsAct(work)' /\ work'.kind = "internal" /\ work'.event.kind = "internal"
       \/ IsAct(work)' /\ work'.kind = "close" /\ ~Early
       \/ work'.at = "drain"
    /\ work'.inst \in DOMAIN registry
    /\ Replays' = Replays /\ Drains' \subseteq Drains /\ Early' = Early
    /\ \A k \in Drains' : k.inst /= work'.inst
    /\ OnInternal' => DOMAIN registry[work'.inst].done \cap DOMAIN journal = {}

\* The turn of the loop to an instance's internal events keeps the invariant.
LEMMA TurnsSafe ==
    ASSUME CoreInv, Turns
    PROVE  CoreInv'
<1>0. /\ TablesOk /\ RegistryOk /\ RunOk /\ EntriesOk /\ AheadOk /\ KeptOk /\ ReplaysOk /\ StagesOk
      /\ HistoryOk /\ ThreadsOk /\ DoneOk /\ RunsOk /\ FiredOk /\ WorkOk
  BY DEF CoreInv
<1>1. /\ work'.at \in {"act", "drain"} /\ ~OnInbound' /\ work' /= Idle
      /\ work'.at = "act" => work'.kind \in {"internal", "close"}
      /\ Early => OnInternal'
  BY DEF Turns, IsAct, OnInbound, OnInternal, Idle
<1>2. \A r : IsRow(r) => IsRow(r)'
  BY DEF IsRow, Turns
<1>3. TablesOk'
  BY <1>0, <1>2 DEF TablesOk, Turns, IsEvent
<1>4. WorkOk'
  <2>1. work'.inst \in received'
    BY <1>0 DEF Turns, RegistryOk, TablesOk
  <2> QED BY <2>1 DEF WorkOk, Turns
<1>5. StagesOk'
  BY <1>0, <1>1 DEF StagesOk, Turns
<1>6. RegistryOk'
  BY <1>0, <1>1 DEF RegistryOk, Turns, Acts
<1>7. ThreadsOk' /\ EntriesOk' /\ HistoryOk' /\ FiredOk' /\ RunsOk'
  BY <1>0 DEF ThreadsOk, OneConversation, Running, EntriesOk, HistoryOk, FiredOk, RunsOk, Turns, IsEvent
<1>8. RunOk'
  BY <1>1 DEF RunOk, Turns, Acts, IsAct
<1>9. ReplaysOk'
  BY <1>0, <1>1 DEF ReplaysOk, Turns
<1>10. DoneOk'
  BY <1>0 DEF DoneOk, Once, Turns
<1>11. AheadOk'
  BY <1>0, <1>1 DEF AheadOk, Turns
<1>12. KeptOk'
  BY <1>0, <1>1 DEF KeptOk, RunOrDue, NothingLost, EndsOk, Turns
<1> QED BY <1>3, <1>4, <1>5, <1>6, <1>7, <1>8, <1>9, <1>10, <1>11, <1>12 DEF CoreInv

\* The process stops: what it had in memory is gone.
LEMMA StopSafe ==
    ASSUME CoreInv, Stop
    PROVE  CoreInv'
<1>0. /\ TablesOk /\ EntriesOk /\ AheadOk /\ KeptOk /\ HistoryOk /\ ThreadsOk /\ DoneOk /\ RunsOk /\ FiredOk
  BY DEF CoreInv
<1>1. /\ UNCHANGED <<rows, journal, serial, received, taken, dropped, ran, unsaved, ended, fired>>
      /\ ~up' /\ DOMAIN registry' = {} /\ work' = Idle /\ agenda' = {}
  BY DEF Stop, store
<1>2. Replays' = {} /\ Drains' = {} /\ ~Early'
  BY <1>1 DEF Replays, Drains, Early
<1>3. ~Acts' /\ ~OnInbound' /\ ~OnInternal' /\ work'.at /= "drain"
  BY <1>1 DEF Acts, OnInbound, OnInternal, Idle
<1>4. TablesOk'
  BY <1>0, <1>1, <1>2 DEF TablesOk, IsEvent, IsRow
<1>5. WorkOk' /\ StagesOk' /\ RegistryOk' /\ RunOk' /\ ReplaysOk'
  BY <1>1, <1>2, <1>3 DEF WorkOk, StagesOk, RegistryOk, RunOk, ReplaysOk
<1>6. ThreadsOk' /\ EntriesOk' /\ HistoryOk' /\ FiredOk' /\ RunsOk' /\ DoneOk'
  BY <1>0, <1>1, <1>2 DEF ThreadsOk, OneConversation, Running, EntriesOk, HistoryOk, FiredOk, RunsOk, DoneOk,
                          Once, IsEvent
<1>7. AheadOk' /\ KeptOk'
  BY <1>0, <1>1, <1>2, <1>3 DEF AheadOk, KeptOk, NothingLost, EndsOk
<1> QED BY <1>4, <1>5, <1>6, <1>7 DEF CoreInv

----------------------------------------------------------------------------
(* A start. *)

\* The instances of S end in the store, with their rows of the journal.
LEMMA EndStoredIs ==
    ASSUME NEW S, EndStored(S)
    PROVE  /\ DOMAIN rows' = DOMAIN rows
           /\ \A i \in DOMAIN rows : /\ rows'[i].done = rows[i].done /\ rows'[i].born = rows[i].born
                                     /\ i \in S => rows'[i].status = "ended"
                                     /\ i \notin S => rows'[i] = rows[i]
           /\ DOMAIN journal' = {f \in DOMAIN journal : journal[f].inst \notin S}
           /\ \A f \in DOMAIN journal' : journal'[f] = journal[f]
           /\ ended' = ended \cup S
<1>1. rows' = [i \in DOMAIN rows |->
                  IF i \in S THEN [status |-> "ended", born |-> rows[i].born, done |-> rows[i].done]
                  ELSE rows[i]]
  BY DEF EndStored
<1>2. /\ DOMAIN journal' = {f \in DOMAIN journal : journal[f].inst \notin S}
      /\ \A f \in DOMAIN journal' : journal'[f] = journal[f]
  BY DEF EndStored, Without
<1>3. ended' = ended \cup S
  BY DEF EndStored
<1> QED BY <1>1, <1>2, <1>3

\* A start keeps the eldest of the instances on a thread, and lists the journal later.
LEMMA StartSafe ==
    ASSUME CoreInv, Start
    PROVE  CoreInv'
<1>0. /\ TablesOk /\ EntriesOk /\ AheadOk /\ KeptOk /\ HistoryOk /\ ThreadsOk /\ DoneOk /\ RunsOk /\ FiredOk
      /\ StagesOk
  BY DEF CoreInv
<1>1. PICK S : S = {i \in DOMAIN rows : rows[i].status = "running"}
  OBVIOUS
<1>2. PICK R : R = {i \in S : \E j \in S : ThreadOf[j] = ThreadOf[i] /\ rows[j].born < rows[i].born}
  OBVIOUS
<1>3. /\ ~up /\ up' = TRUE /\ unsaved' = {} /\ EndStored(R)
      /\ registry' = [i \in S \ R |-> rows[i]]
      /\ agenda' = {[do |-> "drain", inst |-> i] : i \in S \ R} \cup {[do |-> "list"]}
      /\ UNCHANGED <<serial, work, received, taken, dropped, ran, fired>>
  BY <1>1, <1>2, Zenon DEF Start
<1>4. work = Idle /\ work' = Idle
  BY <1>0, <1>3 DEF StagesOk
<1>5. /\ DOMAIN rows' = DOMAIN rows /\ R \subseteq S /\ S \subseteq DOMAIN rows
      /\ \A i \in DOMAIN rows : /\ rows'[i].done = rows[i].done /\ rows'[i].born = rows[i].born
                                /\ i \in R => rows'[i].status = "ended"
                                /\ i \notin R => rows'[i] = rows[i]
      /\ DOMAIN journal' = {f \in DOMAIN journal : journal[f].inst \notin R}
      /\ \A f \in DOMAIN journal' : journal'[f] = journal[f]
      /\ ended' = ended \cup R
  <2>1. EndStored(R)
    BY <1>3
  <2>2. R \subseteq S /\ S \subseteq DOMAIN rows
    BY <1>1, <1>2
  <2> HIDE <1>1, <1>2, <1>3
  <2> QED BY <2>1, <2>2, EndStoredIs
<1>6. /\ DOMAIN registry' = S \ R
      /\ \A i \in S \ R : registry'[i] = rows[i] /\ rows'[i] = rows[i] /\ rows[i].status = "running"
      /\ \A i \in DOMAIN rows : rows'[i].status = "running" => i \in S \ R
  BY <1>1, <1>3, <1>5
<1>7. /\ Replays' = {} /\ Early'
      /\ \A k \in Drains' : k = [do |-> "drain", inst |-> k.inst] /\ k.inst \in S \ R
  <2>1. \A k \in agenda' : \/ k = [do |-> "drain", inst |-> k.inst] /\ k.inst \in S \ R
                           \/ k = [do |-> "list"]
    BY <1>3
  <2>2. [do |-> "list"] \in agenda'
    BY <1>3
  <2> HIDE <1>3
  <2> QED BY <2>1, <2>2 DEF Replays, Drains, Early
<1>8. ~Acts' /\ ~OnInbound' /\ ~OnInternal' /\ work'.at /= "drain"
  BY <1>4 DEF Acts, OnInbound, OnInternal, Idle
<1>9. \A r : IsRow(r) => IsRow(r)'
  BY <1>3 DEF IsRow
<1>10. \A i, j \in S \ R : i /= j => ThreadOf[i] /= ThreadOf[j]
  <2>1. SUFFICES ASSUME NEW i \in S \ R, NEW j \in S \ R, i /= j, ThreadOf[i] = ThreadOf[j]
                 PROVE  FALSE
    OBVIOUS
  <2>2. rows[i].born \in Nat /\ rows[j].born \in Nat /\ rows[i].born /= rows[j].born
    BY <1>0, <1>5, <2>1 DEF TablesOk, ThreadsOk
  <2>3. ~(rows[i].born < rows[j].born) /\ ~(rows[j].born < rows[i].born)
    BY <1>2, <2>1
  <2> QED BY <2>2, <2>3
<1>11. TablesOk'
  <2>1. \A i \in DOMAIN rows : rows'[i].status \in {"running", "ended"}
    BY <1>0, <1>5 DEF TablesOk
  <2>2. (\A f \in DOMAIN journal : IsEvent(f) /\ IsRow(journal[f]))'
    BY <1>0, <1>5, <1>9 DEF TablesOk, IsEvent
  <2> QED BY <1>0, <1>3, <1>5, <1>7, <2>1, <2>2 DEF TablesOk
<1>12. WorkOk' /\ StagesOk' /\ RunOk' /\ ReplaysOk'
  BY <1>3, <1>4, <1>7, <1>8 DEF WorkOk, StagesOk, RunOk, ReplaysOk
<1>13. RegistryOk'
  BY <1>4, <1>5, <1>6, <1>7, <1>8 DEF RegistryOk
<1>14. ThreadsOk'
  <2>1. OneConversation'
    BY <1>5, <1>6, <1>10 DEF OneConversation, Running
  <2> QED BY <1>0, <1>5, <1>6, <1>10, <2>1 DEF ThreadsOk
<1>15. EntriesOk' /\ HistoryOk' /\ FiredOk'
  BY <1>0, <1>3, <1>5 DEF EntriesOk, HistoryOk, FiredOk, IsEvent
<1>16. DoneOk'
  <2>1. \A done : Once(done) => Once(done)'
    BY <1>3 DEF Once
  <2> QED BY <1>0, <1>5, <1>6, <2>1 DEF DoneOk
<1>17. AheadOk'
  <2>1. \A i \in S : DOMAIN rows[i].done \cap DOMAIN journal' = {}
    BY <1>0, <1>1, <1>5 DEF AheadOk
  <2> QED BY <1>5, <1>6, <1>7, <1>8, <2>1 DEF AheadOk
<1>18. KeptOk'
  <2>1. NothingLost' /\ EndsOk'
    BY <1>0, <1>3, <1>5, <1>6 DEF KeptOk, NothingLost, EndsOk, EntriesOk
  <2> QED BY <1>7, <2>1 DEF KeptOk, RunOrDue
<1>19. RunsOk'
  BY <1>0, <1>3, <1>5, <1>7 DEF RunsOk
<1> QED BY <1>11, <1>12, <1>13, <1>14, <1>15, <1>16, <1>17, <1>18, <1>19 DEF CoreInv

\* The journal is listed: all that is in it is to run again.
LEMMA ListSafe ==
    ASSUME CoreInv, NEW task \in agenda, ListInbound(task)
    PROVE  CoreInv'
<1>0. /\ TablesOk /\ RegistryOk /\ RunOk /\ EntriesOk /\ AheadOk /\ KeptOk /\ ReplaysOk /\ StagesOk
      /\ HistoryOk /\ ThreadsOk /\ DoneOk /\ RunsOk /\ FiredOk /\ WorkOk
  BY DEF CoreInv
<1>1. /\ UNCHANGED <<rows, journal, serial, registry, received, taken, dropped, ran, unsaved, ended, fired, up, work>>
      /\ up /\ work = Idle /\ Early
  BY DEF ListInbound, Due, store, history, Early
<1>2. /\ agenda' = {[do |-> "replay", event |-> e, row |-> journal[e]] : e \in DOMAIN journal}
                      \cup {[do |-> "reconcile"]}
  BY DEF ListInbound
<1>3. Replays' = {[do |-> "replay", event |-> e, row |-> journal[e]] : e \in DOMAIN journal}
  BY <1>2 DEF Replays
<1>4. Drains' = {} /\ ~Early'
  BY <1>2 DEF Drains, Early
<1>5. /\ \A k \in Replays' : k.event \in DOMAIN journal /\ k.row = journal[k.event]
      /\ \A k \in Replays' : k = [do |-> "replay", event |-> k.event, row |-> k.row]
      /\ \A e \in DOMAIN journal : \E k \in Replays' : k.event = e
  <2>1. ASSUME NEW e \in DOMAIN journal PROVE \E k \in Replays' : k.event = e
    <3>1. [do |-> "replay", event |-> e, row |-> journal[e]] \in Replays'
      BY <1>3
    <3> QED BY <3>1
  <2>2. ASSUME NEW k \in Replays'
        PROVE  /\ k.event \in DOMAIN journal /\ k.row = journal[k.event]
               /\ k = [do |-> "replay", event |-> k.event, row |-> k.row]
    <3>1. PICK e \in DOMAIN journal : k = [do |-> "replay", event |-> e, row |-> journal[e]]
      BY <1>3
    <3> QED BY <3>1
  <2> QED BY <2>1, <2>2
<1>6. ~Acts' /\ ~OnInbound' /\ ~OnInternal' /\ work'.at /= "drain"
  BY <1>1 DEF Acts, OnInbound, OnInternal, Idle
<1>7. \A r : IsRow(r) => IsRow(r)'
  BY <1>1 DEF IsRow
<1>8. TablesOk'
  BY <1>0, <1>1, <1>4, <1>5, <1>7 DEF TablesOk, IsEvent
<1>9. WorkOk' /\ StagesOk' /\ RunOk'
  BY <1>1, <1>4, <1>6 DEF WorkOk, StagesOk, RunOk
<1>10. RegistryOk' /\ ThreadsOk' /\ EntriesOk' /\ HistoryOk' /\ FiredOk'
  BY <1>0, <1>1, <1>4, <1>6 DEF RegistryOk, ThreadsOk, OneConversation, Running, EntriesOk, HistoryOk, FiredOk, IsEvent
<1>11. ReplaysOk'
  BY <1>0, <1>1, <1>5, <1>6 DEF ReplaysOk, EntriesOk
<1>12. DoneOk'
  BY <1>0, <1>1 DEF DoneOk, Once
<1>13. AheadOk'
  <2>1. \A i \in DOMAIN registry : DOMAIN registry[i].done \cap DOMAIN journal = {}
    BY <1>0, <1>1 DEF AheadOk
  <2> QED BY <1>0, <1>1, <1>4, <1>5, <1>6, <2>1 DEF AheadOk
<1>14. KeptOk'
  BY <1>0, <1>1, <1>5 DEF KeptOk, RunOrDue, NothingLost, EndsOk
<1>15. RunsOk'
  <2>1. \A e \in DOMAIN journal : e \in DOMAIN ran
    BY <1>0 DEF EntriesOk, HistoryOk
  <2> QED BY <1>0, <1>1, <1>5, <2>1 DEF RunsOk
<1> QED BY <1>8, <1>9, <1>10, <1>11, <1>12, <1>13, <1>14, <1>15 DEF CoreInv

\* A row of the journal runs again, with its attempt counted.
RunMove(task, i, kind) ==
    /\ task \in Replays /\ agenda' = agenda \ {task}
    /\ up /\ work = Idle /\ task.row.attempts < MaxReplayAttempts
    /\ \A k \in Replays : ~(k.row.id < task.row.id)
    /\ work' = Begin(i, kind, task.event, task.row.id, FALSE)
    /\ ran' = Count(ran, task.event)
    /\ task.event \in DOMAIN journal /\ journal[task.event] = task.row
    /\ DOMAIN journal' = DOMAIN journal
    /\ journal'[task.event] = [inst |-> i, kind |-> kind, id |-> task.row.id, attempts |-> task.row.attempts + 1]
    /\ \A f \in DOMAIN journal : f /= task.event => journal'[f] = journal[f]
    /\ DOMAIN taken' = DOMAIN taken /\ taken'[task.event] = i
    /\ \A f \in DOMAIN taken : f /= task.event => taken'[f] = taken[f]
    /\ UNCHANGED <<rows, serial, registry, received, dropped, unsaved, ended, fired, up>>
    /\ \/ kind = "event" /\ i \in DOMAIN registry
       \/ /\ kind = "create" /\ task.row.kind = "create" /\ i = task.row.inst /\ i \notin DOMAIN rows
          /\ \A j \in DOMAIN registry : ThreadOf[j] /= ThreadOf[i]

\* The run of a journaled row keeps the invariant.
LEMMA RunSafe ==
    ASSUME CoreInv, NEW task, NEW i, NEW kind, RunMove(task, i, kind)
    PROVE  CoreInv'
<1>0. /\ TablesOk /\ RegistryOk /\ RunOk /\ EntriesOk /\ AheadOk /\ KeptOk /\ ReplaysOk /\ StagesOk
      /\ HistoryOk /\ ThreadsOk /\ DoneOk /\ RunsOk /\ FiredOk /\ WorkOk
  BY DEF CoreInv
<1>1. PICK e : e = task.event
  OBVIOUS
<1>2. PICK row : row = task.row
  OBVIOUS
<1>3. /\ e \in DOMAIN journal /\ journal[e] = row /\ DOMAIN journal' = DOMAIN journal
      /\ journal'[e] = [inst |-> i, kind |-> kind, id |-> row.id, attempts |-> row.attempts + 1]
      /\ \A f \in DOMAIN journal : f /= e => journal'[f] = journal[f]
      /\ DOMAIN taken' = DOMAIN taken /\ taken'[e] = i
      /\ \A f \in DOMAIN taken : f /= e => taken'[f] = taken[f]
      /\ UNCHANGED <<rows, serial, registry, received, dropped, unsaved, ended, fired, up>>
      /\ up /\ work = Idle
  BY <1>1, <1>2 DEF RunMove
<1>4. IsRow(row) /\ e \in DOMAIN taken /\ taken[e] = row.inst /\ IsEvent(e)
  BY <1>0, <1>3 DEF TablesOk, EntriesOk
<1>5. i \in received /\ kind \in {"create", "event"}
  BY <1>0, <1>2, <1>4 DEF RunMove, RegistryOk, TablesOk, IsRow
<1>6. /\ IsAct(work)' /\ work'.at = "act" /\ work' /= Idle
      /\ work'.inst = i /\ work'.kind = kind /\ work'.event = e /\ work'.id = row.id
  <2>1. work' = Begin(i, kind, e, row.id, FALSE)
    BY <1>1, <1>2 DEF RunMove
  <2> QED BY <1>3, <1>5, <2>1 DEF Begin, IsAct, Idle
<1>7. Acts' /\ OnInbound' /\ ~OnInternal' /\ ~OnInbound /\ ~OnInternal
  BY <1>3, <1>5, <1>6 DEF Acts, OnInbound, OnInternal, Idle
<1>8. ~Early /\ ~Early' /\ Drains = {} /\ Drains' = {} /\ Replays' = Replays \ {task} /\ task \in Replays
  BY <1>0 DEF RunMove, StagesOk, Early, Drains, Replays
<1>9. \A k \in Replays' : /\ k \in Replays /\ k.event /= e /\ row.id < k.row.id
  <2>1. \A k \in Replays' : k \in Replays /\ k.event /= e /\ k.row.id /= row.id
    BY <1>0, <1>1, <1>2, <1>8 DEF ReplaysOk
  <2>2. \A k \in Replays : k.row.id \in Nat /\ row.id \in Nat /\ ~(k.row.id < row.id)
    BY <1>0, <1>2, <1>8 DEF RunMove, TablesOk, IsRow
  <2> QED BY <2>1, <2>2
<1>10. PICK n \in Nat : n = row.attempts
  BY <1>4 DEF IsRow
<1>11. PICK m \in Nat : m = ran[e] /\ e \in DOMAIN ran
  BY <1>0, <1>4 DEF HistoryOk, RunsOk
<1>12. m <= n + 1 /\ n < MaxReplayAttempts
  BY <1>0, <1>2, <1>3, <1>10, <1>11 DEF RunsOk, RunMove
<1>13. /\ DOMAIN ran' = DOMAIN ran /\ ran'[e] = m + 1
       /\ \A f \in DOMAIN ran : f /= e => ran'[f] = ran[f]
  <2>1. ran' = Count(ran, e)
    BY <1>1 DEF RunMove
  <2> QED BY <1>11, <2>1 DEF Count, With
<1>14. \A r : IsRow(r) => IsRow(r)'
  BY <1>3 DEF IsRow
<1>15. TablesOk'
  <2>1. PICK r : r = [inst |-> i, kind |-> kind, id |-> row.id, attempts |-> n + 1]
    OBVIOUS
  <2>2. IsRow(r)'
    BY <1>3, <1>4, <1>5, <2>1 DEF IsRow
  <2>3. (\A f \in DOMAIN journal : IsEvent(f) /\ IsRow(journal[f]))'
    BY <1>0, <1>3, <1>10, <1>14, <2>1, <2>2 DEF TablesOk, IsEvent
  <2>4. \A k \in Replays' : IsRow(k.row)'
    BY <1>0, <1>9, <1>14 DEF TablesOk
  <2> QED BY <1>0, <1>3, <1>8, <2>3, <2>4 DEF TablesOk
<1>16. WorkOk' /\ StagesOk'
  BY <1>3, <1>6, <1>8 DEF WorkOk, StagesOk
<1>17. RegistryOk'
  <2>1. /\ kind /= "create" => i \in DOMAIN registry
        /\ kind = "create" => i \notin DOMAIN rows /\ \A j \in DOMAIN registry : ThreadOf[j] /= ThreadOf[i]
    BY DEF RunMove
  <2>2. \A j \in DOMAIN registry :
          /\ j \in DOMAIN rows /\ rows[j].status = "running"
          /\ registry[j].status = "running" /\ registry[j].born = rows[j].born
    BY <1>0 DEF RegistryOk
  <2> QED BY <1>3, <1>6, <1>8, <2>1, <2>2 DEF RegistryOk, Acts
<1>18. ThreadsOk' /\ FiredOk'
  BY <1>0, <1>3 DEF ThreadsOk, OneConversation, Running, FiredOk
<1>19. EntriesOk'
  <2>1. \A f \in DOMAIN journal : journal'[f].id = journal[f].id
    BY <1>3
  <2>2. \A f \in DOMAIN journal' : f \in DOMAIN taken' /\ taken'[f] = journal'[f].inst
    BY <1>0, <1>3 DEF EntriesOk
  <2>3. ASSUME NEW f \in DOMAIN journal', journal'[f].kind = "create"
        PROVE  /\ f = Message(journal'[f].inst) /\ journal'[f].inst \notin DOMAIN rows'
               /\ \A g \in DOMAIN taken' : taken'[g] = journal'[f].inst => g = f
    <3>1. /\ f \in DOMAIN journal /\ journal[f].kind = "create" /\ journal'[f].inst = journal[f].inst
      <4>1. CASE f = e
        <5>1. kind = "create"
          BY <1>3, <2>3, <4>1
        <5>2. row.kind = "create" /\ i = row.inst
          BY <1>2, <5>1 DEF RunMove
        <5> QED BY <1>3, <4>1, <5>2
      <4>2. CASE f /= e
        BY <1>3, <2>3, <4>2
      <4> QED BY <4>1, <4>2
    <3>2. /\ f = Message(journal[f].inst) /\ journal[f].inst \notin DOMAIN rows
          /\ \A g \in DOMAIN taken : taken[g] = journal[f].inst => g = f
      BY <1>0, <3>1 DEF EntriesOk
    <3>3. i = journal[f].inst => i = row.inst
      BY <1>0, <1>2, <3>2 DEF RunMove, RegistryOk
    <3> QED BY <1>3, <1>4, <3>1, <3>2, <3>3
  <2> QED BY <1>0, <1>3, <2>1, <2>2, <2>3 DEF EntriesOk
<1>20. HistoryOk'
  BY <1>0, <1>3, <1>5, <1>13 DEF HistoryOk, IsEvent
<1>21. RunOk'
  BY <1>3, <1>5, <1>6 DEF RunOk, OnInbound, Acts
<1>22. ReplaysOk'
  BY <1>0, <1>3, <1>6, <1>9 DEF ReplaysOk
<1>23. DoneOk'
  BY <1>0, <1>3 DEF DoneOk, Once
<1>24. \A j \in DOMAIN registry : e \notin DOMAIN registry[j].done
  BY <1>0, <1>1, <1>8 DEF AheadOk
<1>25. AheadOk'
  <2>1. \A j \in DOMAIN registry : \A f \in DOMAIN registry[j].done \cap DOMAIN journal :
           f /= e /\ journal[f].inst = j /\ journal[f].id < row.id
           /\ \A k \in Replays : journal[f].id < k.row.id
    BY <1>0, <1>2, <1>8, <1>24 DEF AheadOk
  <2> QED BY <1>0, <1>3, <1>6, <1>7, <1>8, <1>9, <1>24, <2>1 DEF AheadOk
<1>26. KeptOk'
  <2>1. ASSUME NEW f \in DOMAIN journal, f /= e, journal[f].inst \in DOMAIN registry
        PROVE  f \in DOMAIN registry[journal[f].inst].done \/ \E k \in Replays' : k.event = f
    <3>1. RunOrDue(f)
      BY <1>0, <2>1 DEF KeptOk
    <3> QED BY <1>1, <1>7, <1>8, <2>1, <3>1 DEF RunOrDue
  <2>2. NothingLost' /\ EndsOk'
    BY <1>0, <1>3 DEF KeptOk, NothingLost, EndsOk
  <2> QED BY <1>3, <1>6, <1>7, <2>1, <2>2 DEF KeptOk, RunOrDue
<1>27. RunsOk'
  <2>1. journal'[e].attempts = n + 1
    BY <1>3, <1>10
  <2>2. ran'[e] \in Nat /\ ran'[e] <= MaxReplayAttempts + 1 /\ ran'[e] <= journal'[e].attempts + 1
    BY <1>12, <1>13, <2>1, WfAssumption
  <2>3. \A f \in DOMAIN journal : f /= e => journal'[f].attempts = journal[f].attempts
    BY <1>3
  <2>4. \A k \in Replays' : ran'[k.event] = ran[k.event]
    BY <1>0, <1>9, <1>13 DEF ReplaysOk, HistoryOk
  <2> QED BY <1>0, <1>3, <1>9, <1>13, <2>2, <2>3, <2>4 DEF RunsOk
<1> QED BY <1>15, <1>16, <1>17, <1>18, <1>19, <1>20, <1>21, <1>22, <1>23, <1>25, <1>26, <1>27 DEF CoreInv

----------------------------------------------------------------------------
(* The timers of the index, and the script of what runs. *)

\* The actions of a definition, and the second halves of the timer actions.
Steps == Actions \cup ({"register", "forget"} \X Keys)

\* The clock, whose timers there are, and what a script is made of.
TimesOk ==
    /\ now \in 0 .. MaxTime
    /\ DOMAIN index \subseteq Timers /\ DOMAIN armed \subseteq Timers /\ IsFiniteSet(DOMAIN index)
    /\ Acts => work.todo \in Seq(Steps)

\* The timer actions of a script name a key.
LEMMA StepKey ==
    ASSUME NEW step \in Steps, step[1] \in {"schedule", "cancel", "reschedule", "register", "forget"}
    PROVE  step[2] \in Keys /\ step = <<step[1], step[2]>>
BY DEF Steps, Actions

\* The script of an event.
LEMMA ScriptSteps ==
    ASSUME NEW e, IsEvent(e) \/ e.kind = "internal"
    PROVE  Script(e) \in Seq(Steps)
<1>1. Script(e) \in Seq(Actions)
  <2>1. CASE e.kind = "message"
    BY <2>1, WfAssumption DEF Script, IsEvent
  <2>2. CASE e.kind = "fire"
    BY <2>2, WfAssumption DEF Script, IsEvent
  <2>3. CASE e.kind = "internal"
    BY <2>3, WfAssumption DEF Script
  <2> QED BY <2>1, <2>2, <2>3 DEF IsEvent
<1>2. Actions \subseteq Steps
  BY DEF Steps
<1> QED BY <1>1, <1>2

\* The cancels of an instance's timers.
LEMMA CancelSteps ==
    ASSUME TimesOk, NEW i, NEW cancels \in CancelAll(i)
    PROVE  cancels \in Seq(Steps)
<1>1. PICK S : S = {<<"cancel", t[2]>> : t \in TimersOf(i)}
  OBVIOUS
<1>2. IsFiniteSet(S)
  <2>1. IsFiniteSet(TimersOf(i))
    BY FS_Subset DEF TimesOk, TimersOf
  <2>2. PICK f : f = [t \in TimersOf(i) |-> <<"cancel", t[2]>>]
    OBVIOUS
  <2>3. f \in Surjection(TimersOf(i), S)
    BY <1>1, <2>2 DEF Surjection
  <2> QED BY <2>1, <2>3, FS_Surjection
<1>3. Cardinality(S) \in Nat
  BY <1>2, FS_CardinalityType
<1>4. cancels \in [1 .. Cardinality(S) -> S]
  BY <1>1 DEF CancelAll, SetToSeqs
<1>5. S \subseteq Steps
  <2>1. \A t \in TimersOf(i) : t[2] \in Keys
    BY DEF TimersOf, TimesOk, Timers
  <2> QED BY <1>1, <2>1 DEF Steps, Actions
<1> QED BY <1>3, <1>4, <1>5

\* What an action of a script works on.
LEMMA ActingIs ==
    ASSUME CoreInv, TimesOk, NEW do, Acting(do)
    PROVE  /\ up /\ work.at = "act" /\ Acts /\ IsAct(work) /\ work /= Idle
           /\ work.todo \in Seq(Steps) /\ work.todo /= << >>
           /\ Head(work.todo) \in Steps /\ Head(work.todo)[1] = do /\ Rest \in Seq(Steps)
           /\ do \in {"schedule", "cancel", "reschedule", "register", "forget"} =>
                 Timer \in Timers /\ Timer[2] \in Keys /\ Timer = <<work.inst, Timer[2]>>
                 /\ Head(work.todo) = <<do, Timer[2]>>
<1>1. /\ up /\ work.at = "act" /\ Acts /\ IsAct(work) /\ work /= Idle /\ work.inst \in Messages
  BY DEF Acting, Acts, CoreInv, WorkOk, IsAct, Idle, TablesOk
<1>2. /\ work.todo \in Seq(Steps) /\ work.todo /= << >> /\ Head(work.todo)[1] = do
  BY <1>1 DEF TimesOk, Acting
<1>3. Head(work.todo) \in Steps /\ Rest \in Seq(Steps)
  BY <1>2 DEF Rest
<1>4. ASSUME do \in {"schedule", "cancel", "reschedule", "register", "forget"}
      PROVE  Timer \in Timers /\ Timer[2] \in Keys /\ Timer = <<work.inst, Timer[2]>>
             /\ Head(work.todo) = <<do, Timer[2]>>
  <2>1. PICK s \in Steps : s = Head(work.todo)
    BY <1>3
  <2>2. s[1] = do /\ s[2] \in Keys /\ s = <<s[1], s[2]>>
    BY <1>2, <1>4, <2>1, StepKey
  <2>3. Timer = <<work.inst, s[2]>>
    BY <2>1 DEF Timer
  <2> QED BY <1>1, <2>1, <2>2, <2>3 DEF Timers
<1> QED BY <1>1, <1>2, <1>3, <1>4

\* One step onto a script.
LEMMA OneMore ==
    ASSUME NEW k \in Keys, NEW do \in {"register", "forget"}, NEW rest \in Seq(Steps)
    PROVE  <<<<do, k>>>> \o rest \in Seq(Steps)
BY DEF Steps

----------------------------------------------------------------------------
(* The actions of a transition leave the journal and the instances alone. *)

\* The agenda stays.
LEMMA AgendaKept ==
    ASSUME agenda' = agenda
    PROVE  Replays' = Replays /\ Drains' = Drains /\ Early' = Early
BY DEF Replays, Drains, Early

\* A request to SY.timer is about one timer.
LEMMA RequestKeeps ==
    ASSUME NEW t, NEW at, \/ Request(Scheduled(t, at)) \/ Request(Moved(t, at)) \/ armed' = With(armed, t, at)
                          \/ Request(Without(armed, {t}))
    PROVE  DOMAIN armed' \subseteq DOMAIN armed \cup {t}
BY DEF Request, Scheduled, Moved, With, Without

\* A step of a script that keeps to its instance and its timer.
LEMMA ScriptStep ==
    ASSUME CoreInv, TimesOk, work.at = "act", up,
           UNCHANGED <<rows, journal, serial, registry, received, taken, dropped, ran, unsaved, ended, fired, up, agenda, now>>,
           SameRun, work'.todo \in Seq(Steps),
           DOMAIN index' \subseteq DOMAIN index \/ (Timer \in Timers /\ DOMAIN index' \subseteq DOMAIN index \cup {Timer}),
           DOMAIN armed' \subseteq DOMAIN armed \/ (Timer \in Timers /\ DOMAIN armed' \subseteq DOMAIN armed \cup {Timer})
    PROVE  CoreInv' /\ TimesOk'
<1>1. Quiet
  BY AgendaKept DEF Quiet, CoreInv, TablesOk
<1>2. CoreInv'
  BY <1>1, QuietSafe
<1>3. IsFiniteSet(DOMAIN index \cup {Timer}) /\ IsFiniteSet(DOMAIN index)
  BY FS_AddElement DEF TimesOk
<1>4. IsFiniteSet(DOMAIN index')
  BY <1>3, FS_Subset
<1> QED BY <1>2, <1>4 DEF TimesOk

\* ScheduleIn, ScheduleAt: the invariant is kept.
LEMMA SendScheduleSafe ==
    ASSUME CoreInv, TimesOk, SendSchedule
    PROVE  CoreInv' /\ TimesOk'
<1>1. Acting("schedule")
  BY DEF SendSchedule
<1>2. /\ up /\ work.at = "act" /\ IsAct(work) /\ Rest \in Seq(Steps) /\ Timer \in Timers /\ Timer[2] \in Keys
  BY <1>1, ActingIs
<1>3. PICK todo \in Seq(Steps) : todo = <<<<"register", Timer[2]>>>> \o Rest
  BY <1>2, OneMore
<1>4. work' = [work EXCEPT !.todo = todo, !.fire_at = now + TimerDelay]
  BY <1>3 DEF SendSchedule
<1>5. UNCHANGED <<rows, journal, serial, registry, received, taken, dropped, ran, unsaved, ended, fired, up, agenda, now, index>>
  BY DEF SendSchedule, store
<1>6. SameRun /\ work'.todo \in Seq(Steps)
  BY <1>2, <1>4, <1>5 DEF SameRun, IsAct
<1>7. DOMAIN armed' \subseteq DOMAIN armed \cup {Timer}
  BY RequestKeeps DEF SendSchedule, RequestSchedule
<1> QED BY <1>2, <1>5, <1>6, <1>7, ScriptStep

\* RescheduleTimer: the invariant is kept.
LEMMA SendRescheduleSafe ==
    ASSUME CoreInv, TimesOk, SendReschedule
    PROVE  CoreInv' /\ TimesOk'
<1>1. Acting("reschedule")
  BY DEF SendReschedule
<1>2. /\ up /\ work.at = "act" /\ IsAct(work) /\ Rest \in Seq(Steps) /\ Timer \in Timers /\ Timer[2] \in Keys
  BY <1>1, ActingIs
<1>3. PICK todo \in Seq(Steps) : todo = <<<<"register", Timer[2]>>>> \o Rest
  BY <1>2, OneMore
<1>4. work' = [work EXCEPT !.todo = todo, !.fire_at = now + MoveDelay]
  BY <1>3 DEF SendReschedule
<1>5. UNCHANGED <<rows, journal, serial, registry, received, taken, dropped, ran, unsaved, ended, fired, up, agenda, now, index>>
  BY DEF SendReschedule, store, history
<1>6. SameRun /\ work'.todo \in Seq(Steps)
  BY <1>2, <1>4, <1>5 DEF SameRun, IsAct
<1>7. DOMAIN armed' \subseteq DOMAIN armed \cup {Timer}
  <2>1. Request(Moved(Timer, now + MoveDelay)) \/ armed' = With(armed, Timer, now + MoveDelay)
    BY DEF SendReschedule
  <2> QED BY <2>1, RequestKeeps
<1> QED BY <1>2, <1>5, <1>6, <1>7, ScriptStep

\* RegisterTimer: the invariant is kept.
LEMMA RegisterSafe ==
    ASSUME CoreInv, TimesOk, Register
    PROVE  CoreInv' /\ TimesOk'
<1>1. Acting("register")
  BY DEF Register
<1>2. /\ up /\ work.at = "act" /\ IsAct(work) /\ Rest \in Seq(Steps) /\ Timer \in Timers
  BY <1>1, ActingIs
<1>3. work' = [work EXCEPT !.todo = Rest]
  BY DEF Register
<1>4. UNCHANGED <<rows, journal, serial, registry, received, taken, dropped, ran, unsaved, ended, fired, up, agenda, now, armed>>
  BY DEF Register, timers
<1>5. SameRun /\ work'.todo \in Seq(Steps)
  BY <1>2, <1>3, <1>4 DEF SameRun, IsAct
<1>6. DOMAIN index' \subseteq DOMAIN index \cup {Timer}
  BY DEF Register, With
<1> QED BY <1>2, <1>4, <1>5, <1>6, ScriptStep

\* CancelTimer: the invariant is kept.
LEMMA SendCancelSafe ==
    ASSUME CoreInv, TimesOk, SendCancel
    PROVE  CoreInv' /\ TimesOk'
<1>1. Acting("cancel")
  BY DEF SendCancel
<1>2. /\ up /\ work.at = "act" /\ IsAct(work) /\ Rest \in Seq(Steps) /\ Timer \in Timers /\ Timer[2] \in Keys
  BY <1>1, ActingIs
<1>3. PICK todo \in Seq(Steps) : todo = <<<<"forget", Timer[2]>>>> \o Rest
  BY <1>2, OneMore
<1>4. work' = [work EXCEPT !.todo = todo]
  BY <1>3 DEF SendCancel
<1>5. UNCHANGED <<rows, journal, serial, registry, received, taken, dropped, ran, unsaved, ended, fired, up, agenda, now, index>>
  BY DEF SendCancel, store, history
<1>6. SameRun /\ work'.todo \in Seq(Steps)
  BY <1>2, <1>4, <1>5 DEF SameRun, IsAct
<1>7. DOMAIN armed' \subseteq DOMAIN armed \cup {Timer}
  BY RequestKeeps DEF SendCancel
<1> QED BY <1>2, <1>5, <1>6, <1>7, ScriptStep

\* DeleteTimer: the invariant is kept.
LEMMA ForgetSafe ==
    ASSUME CoreInv, TimesOk, Forget
    PROVE  CoreInv' /\ TimesOk'
<1>1. Acting("forget")
  BY DEF Forget
<1>2. /\ up /\ work.at = "act" /\ IsAct(work) /\ Rest \in Seq(Steps) /\ Timer \in Timers
  BY <1>1, ActingIs
<1>3. work' = [work EXCEPT !.todo = Rest]
  BY DEF Forget
<1>4. UNCHANGED <<rows, journal, serial, registry, received, taken, dropped, ran, unsaved, ended, fired, up, agenda, now, armed>>
  BY DEF Forget, timers, history
<1>5. SameRun /\ work'.todo \in Seq(Steps)
  BY <1>2, <1>3, <1>4 DEF SameRun, IsAct
<1>6. DOMAIN index' \subseteq DOMAIN index
  BY DEF Forget, Without
<1> QED BY <1>2, <1>4, <1>5, <1>6, ScriptStep

\* A timer action that is skipped: the invariant is kept.
LEMMA SkipSafe ==
    ASSUME CoreInv, TimesOk, SkipTimerAction
    PROVE  CoreInv' /\ TimesOk'
<1>1. PICK do : Acting(do)
  BY DEF SkipTimerAction
<1>2. /\ up /\ work.at = "act" /\ IsAct(work) /\ Rest \in Seq(Steps)
  BY <1>1, ActingIs
<1>3. work' = [work EXCEPT !.todo = Rest]
  BY DEF SkipTimerAction
<1>4. UNCHANGED <<rows, journal, serial, registry, received, taken, dropped, ran, unsaved, ended, fired, up, agenda, now,
                  index, armed>>
  BY DEF SkipTimerAction, timers, store
<1>5. SameRun /\ work'.todo \in Seq(Steps)
  BY <1>2, <1>3, <1>4 DEF SameRun, IsAct
<1> QED BY <1>2, <1>4, <1>5, ScriptStep

\* A message that is sent: the invariant is kept.
LEMMA SendSafe ==
    ASSUME CoreInv, TimesOk, Send
    PROVE  CoreInv' /\ TimesOk'
<1>1. PICK do : Acting(do)
  BY DEF Send
<1>2. /\ up /\ work.at = "act" /\ IsAct(work) /\ Rest \in Seq(Steps)
  BY <1>1, ActingIs
<1>3. PICK emitted : work' = [work EXCEPT !.todo = Rest, !.emitted = emitted]
  BY DEF Send
<1>4. UNCHANGED <<rows, journal, serial, registry, received, taken, dropped, ran, unsaved, ended, fired, up, agenda, now,
                  index, armed>>
  BY DEF Send, timers, store, history
<1>5. SameRun /\ work'.todo \in Seq(Steps)
  BY <1>2, <1>3, <1>4 DEF SameRun, IsAct
<1> QED BY <1>2, <1>4, <1>5, ScriptStep

\* A transition that ends the instance: the invariant is kept.
LEMMA EndSafe ==
    ASSUME CoreInv, TimesOk, End
    PROVE  CoreInv' /\ TimesOk'
<1>1. PICK do : Acting(do)
  BY DEF End
<1>2. /\ up /\ work.at = "act" /\ IsAct(work)
  BY <1>1, ActingIs
<1>3. PICK cancels \in CancelAll(work.inst) :
         work' = [work EXCEPT !.todo = cancels, !.emitted = FALSE, !.status = "ended"]
  BY DEF End
<1>4. UNCHANGED <<rows, journal, serial, registry, received, taken, dropped, ran, unsaved, ended, fired, up, agenda, now,
                  index, armed>>
  BY DEF End, timers, store, history
<1>5. SameRun /\ work'.todo \in Seq(Steps)
  BY <1>2, <1>3, <1>4, CancelSteps DEF SameRun, IsAct
<1> QED BY <1>2, <1>4, <1>5, ScriptStep

\* A list of timers that fails: the invariant is kept.
LEMMA CancelNoneSafe ==
    ASSUME CoreInv, TimesOk, CancelNone
    PROVE  CoreInv' /\ TimesOk'
<1>1. Acting("cancel")
  BY DEF CancelNone
<1>2. /\ up /\ work.at = "act" /\ IsAct(work)
  BY <1>1, ActingIs
<1>3. work' = [work EXCEPT !.todo = << >>]
  BY DEF CancelNone
<1>4. UNCHANGED <<rows, journal, serial, registry, received, taken, dropped, ran, unsaved, ended, fired, up, agenda, now,
                  index, armed>>
  BY DEF CancelNone, timers, store, history
<1>5. SameRun /\ work'.todo \in Seq(Steps)
  BY <1>2, <1>3, <1>4 DEF SameRun, IsAct
<1> QED BY <1>2, <1>4, <1>5, ScriptStep

----------------------------------------------------------------------------
(* The index against SY.timer, the clock and what SY.timer does. *)

\* A task of the reconciliation is due when a start has no more to run.
Late == Replays = {} /\ Drains = {} /\ ~Early
\* A task of the reconciliation comes after the rows of the journal.
LEMMA DueLate ==
    ASSUME NEW task \in agenda, NEW do \in {"reconcile", "settle", "timer", "orphan"}, Due(task, do)
    PROVE  Late /\ up /\ work = Idle
<1>1. \A other \in agenda : ~(Stage[other.do] < Stage[do])
  BY DEF Due, Before
<1>2. \A other \in agenda : other.do \notin {"drain", "list", "replay"}
  BY <1>1 DEF Stage
<1> QED BY <1>2 DEF Late, Replays, Drains, Early, Due

\* The receive loop runs when a start is over.
LEMMA LoopLate ==
    ASSUME Loop
    PROVE  Late /\ up /\ work = Idle /\ agenda = {}
BY DEF Loop, Late, Replays, Drains, Early

\* The tasks of a reconciliation.
LEMMA ReconciliationIs ==
    ASSUME NEW listed, NEW asked
    PROVE  \A k \in Reconciliation(listed, asked) :
             \/ /\ k.do = "timer" /\ k.timer \in DOMAIN index /\ k.fire_at = index[k.timer].fire_at
                /\ k.asked = asked /\ k.now = now
                /\ k.sy_at = IF k.timer \in DOMAIN listed THEN listed[k.timer] ELSE -1
             \/ k.do = "orphan" /\ k.timer \in DOMAIN listed
<1>1. PICK R : R = Reconciliation(listed, asked)
  OBVIOUS
<1>2. SUFFICES ASSUME NEW k \in R
               PROVE  \/ /\ k.do = "timer" /\ k.timer \in DOMAIN index /\ k.fire_at = index[k.timer].fire_at
                         /\ k.asked = asked /\ k.now = now
                         /\ k.sy_at = IF k.timer \in DOMAIN listed THEN listed[k.timer] ELSE -1
                      \/ k.do = "orphan" /\ k.timer \in DOMAIN listed
  BY <1>1
<1>3. \/ \E t \in DOMAIN index :
           k = [do |-> "timer", timer |-> t, fire_at |-> index[t].fire_at, asked |-> asked, now |-> now,
                sy_at |-> IF t \in DOMAIN listed THEN listed[t] ELSE -1]
      \/ \E t \in DOMAIN listed : k = [do |-> "orphan", timer |-> t]
  BY <1>1 DEF Reconciliation
<1> QED BY <1>3

\* A step beside the journal and the instances.
LEMMA BesideStep ==
    ASSUME CoreInv, TimesOk, now' \in 0 .. MaxTime, work' = work,
           UNCHANGED <<rows, journal, serial, registry, taken, dropped, ran, unsaved, ended, fired, up>>,
           received \subseteq received', received' \subseteq Messages,
           agenda' = agenda \/ (up /\ Late /\ Late'),
           DOMAIN index' \subseteq DOMAIN index,
           DOMAIN armed' \subseteq DOMAIN armed \cup DOMAIN index
    PROVE  CoreInv' /\ TimesOk'
<1>1. Replays' = Replays /\ Drains' = Drains /\ Early' = Early
  <2>1. CASE agenda' = agenda
    BY <2>1, AgendaKept
  <2>2. CASE Late /\ Late'
    <3>1. Early' <=> Early
      BY <2>2 DEF Late
    <3> QED BY <2>2, <3>1 DEF Late, Early
  <2> QED BY <2>1, <2>2
<1>11. Quiet
  BY <1>1 DEF Quiet
<1>2. CoreInv'
  BY <1>11, QuietSafe
<1>3. IsFiniteSet(DOMAIN index')
  BY FS_Subset DEF TimesOk
<1> QED BY <1>2, <1>3 DEF TimesOk, Acts

\* The clock, the list of SY.timer's timers, and fires and timers that are lost.
LEMMA OutsideSafe ==
    ASSUME CoreInv, TimesOk,
           \/ Tick \/ TimersListed \/ AskTimers
           \/ \E fire \in fires : FireLost(fire)
           \/ \E t \in Timers : TimerFires(t) \/ TimerLost(t)
           \/ \E m \in Messages : ReceiveFails(m)
    PROVE  CoreInv' /\ TimesOk'
<1>0. now \in 0 .. MaxTime /\ received \subseteq Messages
  BY DEF TimesOk, CoreInv, TablesOk
<1>1. CASE Tick
  <2>1. now' \in 0 .. MaxTime
    BY <1>0, <1>1, WfAssumption DEF Tick
  <2> QED BY <1>0, <1>1, <2>1, BesideStep DEF Tick, store, memory, timers, history
<1>2. CASE TimersListed
  BY <1>0, <1>2, BesideStep DEF TimersListed, store, timers
<1>3. CASE AskTimers
  BY <1>0, <1>3, BesideStep DEF AskTimers, store, timers
<1>4. CASE \E fire \in fires : FireLost(fire)
  BY <1>0, <1>4, BesideStep DEF FireLost, store, memory
<1>5. CASE \E t \in Timers : TimerFires(t) \/ TimerLost(t)
  <2>1. DOMAIN armed' \subseteq DOMAIN armed
    BY <1>5 DEF TimerFires, TimerLost, Without
  <2> QED BY <1>0, <1>5, <2>1, BesideStep DEF TimerFires, TimerLost, store, memory, history
<1>6. CASE \E m \in Messages : ReceiveFails(m)
  BY <1>0, <1>6, BesideStep DEF ReceiveFails, store, memory, timers
<1> QED BY <1>1, <1>2, <1>3, <1>4, <1>5, <1>6

\* A list of SY.timer that is taken: the invariant is kept.
LEMMA TakeTimerListSafe ==
    ASSUME CoreInv, TimesOk, TakeTimerList
    PROVE  CoreInv' /\ TimesOk'
<1>0. now \in 0 .. MaxTime /\ received \subseteq Messages /\ Late /\ up
  BY LoopLate DEF TimesOk, CoreInv, TablesOk, TakeTimerList
<1>1. agenda' = agenda \/ \E listed, asked : agenda' = Reconciliation(listed, asked)
  BY DEF TakeTimerList
<1>2. Late'
  BY <1>0, <1>1, ReconciliationIs DEF Late, Replays, Drains, Early
<1> QED BY <1>0, <1>2, BesideStep DEF TakeTimerList, store, timers, history

\* The reconciliation of a start: the invariant is kept.
LEMMA ReconcileSafe ==
    ASSUME CoreInv, TimesOk, NEW task \in agenda, Reconcile(task)
    PROVE  CoreInv' /\ TimesOk'
<1>0. now \in 0 .. MaxTime /\ received \subseteq Messages /\ Late /\ up
  BY DueLate DEF TimesOk, CoreInv, TablesOk, Reconcile
<1>1. agenda' = {} \/ agenda' = Reconciliation(armed, now)
  BY DEF Reconcile
<1>2. Late'
  BY <1>1, ReconciliationIs DEF Late, Replays, Drains, Early
<1> QED BY <1>0, <1>2, BesideStep DEF Reconcile, store, timers

\* A timer of SY.timer that the index has not: the invariant is kept.
LEMMA SettleTimerSafe ==
    ASSUME CoreInv, TimesOk, NEW task \in agenda, SettleTimer(task)
    PROVE  CoreInv' /\ TimesOk'
<1>0. now \in 0 .. MaxTime /\ received \subseteq Messages /\ Late /\ up
  BY DueLate DEF TimesOk, CoreInv, TablesOk, SettleTimer
<1>1. agenda' \subseteq agenda
  BY DEF SettleTimer
<1>2. Late'
  BY <1>0, <1>1 DEF Late, Replays, Drains, Early
<1>3. DOMAIN armed' \subseteq DOMAIN armed
  BY DEF SettleTimer, Request, Without
<1> QED BY <1>0, <1>2, <1>3, BesideStep DEF SettleTimer, store

\* A timer of the index is scheduled again.
LEMMA AgainIs ==
    ASSUME NEW t \in DOMAIN index, NEW since, ScheduleAgain(t, since)
    PROVE  DOMAIN index' = DOMAIN index /\ DOMAIN armed' \subseteq DOMAIN armed \cup DOMAIN index
<1>1. PICK at : \/ RequestSchedule(t, at) /\ index' = [index EXCEPT ![t] = [scheduled |-> since, fire_at |-> at]]
                \/ UNCHANGED <<armed, index>>
  BY DEF ScheduleAgain
<1>2. RequestSchedule(t, at) => DOMAIN armed' \subseteq DOMAIN armed \cup {t}
  BY RequestKeeps DEF RequestSchedule
<1> QED BY <1>1, <1>2

\* The fire of a timer of the index is taken.
LEMMA TakeFireSafe ==
    ASSUME CoreInv, TimesOk, NEW t \in DOMAIN index, TakeFire(t), t[1] \in DOMAIN registry,
           up, work = Idle, Late, Late',
           UNCHANGED <<rows, registry, dropped, unsaved, ended, up, now, received, armed>>
    PROVE  CoreInv' /\ TimesOk'
<1>0. TablesOk /\ RegistryOk /\ HistoryOk /\ FiredOk
  BY DEF CoreInv
<1>1. t \in Timers /\ t[1] \in received /\ t = <<t[1], t[2]>> /\ t[2] \in Keys
  BY <1>0 DEF TimesOk, Timers, RegistryOk, TablesOk
<1>2. PICK n \in Nat : n = fired[t] + 1
  BY <1>0, <1>1 DEF FiredOk
<1>3. fired' = [fired EXCEPT ![t] = n]
  BY <1>2 DEF TakeFire
<1>4. FiredOk' /\ fired'[t] = n /\ \A u \in Timers : fired[u] <= fired'[u]
  BY <1>0, <1>1, <1>2, <1>3 DEF FiredOk
<1>5. PICK e : e = FireOf(t)
  OBVIOUS
<1>6. e = [kind |-> "fire", id |-> <<t[1], t[2], n>>]
  BY <1>2, <1>5 DEF FireOf
<1>7. e.kind = "fire" /\ e.id[1] = t[1] /\ e.id[2] = t[2] /\ e.id[3] = n /\ <<e.id[1], e.id[2]>> = t
  BY <1>1, <1>6
<1>8. e \notin DOMAIN taken
  <2>1. fired[t] \in Nat /\ ~(n <= fired[t])
    BY <1>0, <1>1, <1>2 DEF FiredOk
  <2> QED BY <1>0, <1>7, <2>1 DEF HistoryOk
<1>9. IsEvent(e)
  BY <1>1, <1>7 DEF IsEvent
<1>10. Fresh(e)
  BY <1>1, <1>4, <1>7, <1>8, <1>9 DEF Fresh
<1>11. TakeMove(t[1], "event", e)
  BY <1>0, <1>1, <1>4, <1>5, <1>10 DEF TakeMove, TakeFire, Late, TablesOk
<1>12. CoreInv'
  BY <1>11, TakeSafe
<1>13. DOMAIN index' \subseteq DOMAIN index
  BY DEF TakeFire, Without
<1>14. IsFiniteSet(DOMAIN index')
  BY <1>13, FS_Subset DEF TimesOk
<1>15. work'.todo \in Seq(Steps)
  <2>1. work'.todo = Script(e)
    BY <1>5 DEF TakeFire, Take, Begin
  <2> QED BY <1>9, <2>1, ScriptSteps
<1> QED BY <1>12, <1>13, <1>14, <1>15 DEF TimesOk

\* TIMER_FIRED: the invariant is kept.
LEMMA FireArrivesSafe ==
    ASSUME CoreInv, TimesOk, NEW fire \in fires, FireArrives(fire)
    PROVE  CoreInv' /\ TimesOk'
<1>0. now \in 0 .. MaxTime /\ received \subseteq Messages /\ Late /\ up /\ work = Idle
  BY LoopLate DEF TimesOk, CoreInv, TablesOk, FireArrives
<1>1. /\ UNCHANGED <<now, rows, up, registry, agenda, received, dropped, unsaved, ended>>
  BY DEF FireArrives
<1>2. Late'
  BY <1>0, <1>1, AgendaKept DEF Late
<1>3. PICK t : t = fire.timer
  OBVIOUS
<1>4. CASE t \in DOMAIN index /\ t[1] \in DOMAIN registry /\ TakeFire(t) /\ UNCHANGED armed
  BY <1>0, <1>1, <1>2, <1>4, TakeFireSafe
<1>5. CASE t \in DOMAIN index /\ ScheduleAgain(t, now) /\ UNCHANGED <<journal, serial, work, taken, ran, fired>>
  BY <1>0, <1>1, <1>5, AgainIs, BesideStep
<1>6. CASE UNCHANGED <<journal, serial, work, taken, ran, fired, index, armed>>
  BY <1>0, <1>1, <1>6, BesideStep
<1> QED BY <1>3, <1>4, <1>5, <1>6 DEF FireArrives

\* A timer of the index that is reconciled: the invariant is kept.
LEMMA ReconcileTimerSafe ==
    ASSUME CoreInv, TimesOk, NEW task \in agenda, ReconcileTimer(task)
    PROVE  CoreInv' /\ TimesOk'
<1>0. now \in 0 .. MaxTime /\ received \subseteq Messages /\ Late /\ up /\ work = Idle
  BY DueLate DEF TimesOk, CoreInv, TablesOk, ReconcileTimer
<1>1. /\ UNCHANGED <<now, rows, up, registry, received, dropped, unsaved, ended>>
  BY DEF ReconcileTimer
<1>2. PICK t : t = task.timer
  OBVIOUS
<1>3. agenda' \subseteq agenda \cup {[do |-> "settle", timer |-> t]}
  BY <1>2 DEF ReconcileTimer
<1>4. Late'
  BY <1>0, <1>3 DEF Late, Replays, Drains, Early
<1>5. CASE t \in DOMAIN index /\ t[1] \in DOMAIN registry /\ TakeFire(t) /\ UNCHANGED armed
  BY <1>0, <1>1, <1>4, <1>5, TakeFireSafe
<1>6. CASE t \in DOMAIN index /\ ScheduleAgain(t, task.now) /\ UNCHANGED <<journal, serial, work, taken, ran, fired>>
  BY <1>0, <1>1, <1>4, <1>6, AgainIs, BesideStep
<1>7. CASE /\ UNCHANGED <<journal, serial, work, taken, ran, fired, armed>>
           /\ UNCHANGED index \/ index' = Without(index, {t})
  <2>1. DOMAIN index' \subseteq DOMAIN index
    BY <1>7 DEF Without
  <2> QED BY <1>0, <1>1, <1>4, <1>7, <2>1, BesideStep
<1> QED BY <1>2, <1>5, <1>6, <1>7 DEF ReconcileTimer

\* A message that is journaled: the invariant is kept.
LEMMA ReceiveSafe ==
    ASSUME CoreInv, TimesOk, NEW m \in Messages, Receive(m)
    PROVE  CoreInv' /\ TimesOk'
<1>0. now \in 0 .. MaxTime /\ received \subseteq Messages /\ Late /\ up /\ work = Idle
  BY LoopLate DEF TimesOk, CoreInv, TablesOk, Receive
<1>1. /\ UNCHANGED <<now, rows, up, registry, agenda, dropped, unsaved, ended, fired, index, armed>>
      /\ m \notin received /\ received' = received \cup {m}
  BY DEF Receive, timers
<1>2. Late'
  BY <1>0, <1>1, AgendaKept DEF Late
<1>3. PICK e : e = Message(m)
  OBVIOUS
<1>4. e.kind = "message" /\ e.id = m
  BY <1>3 DEF Message
<1>5. Fresh(e)
  BY <1>1, <1>4 DEF Fresh, IsEvent, CoreInv, HistoryOk
<1>6. ASSUME NEW i, NEW kind, TakeMove(i, kind, e) PROVE CoreInv' /\ TimesOk'
  <2>1. CoreInv'
    BY <1>6, TakeSafe
  <2>2. work'.todo = Script(e)
    BY <1>6 DEF TakeMove, Take, Begin
  <2>3. work'.todo \in Seq(Steps)
    BY <1>5, <2>2, ScriptSteps DEF Fresh
  <2> QED BY <1>1, <2>1, <2>3 DEF TimesOk
<1>7. CASE \E i \in Holders(ThreadOf[m]) : Take(i, "event", e)
  <2>1. PICK i \in DOMAIN registry : Take(i, "event", e)
    BY <1>7 DEF Holders
  <2>2. i \in received
    BY <2>1 DEF CoreInv, RegistryOk, TablesOk
  <2>3. FiredOk' /\ \A t \in Timers : fired[t] <= fired'[t]
    BY <1>1 DEF CoreInv, FiredOk
  <2>4. TakeMove(i, "event", e)
    BY <1>0, <1>1, <1>2, <1>5, <2>1, <2>2, <2>3 DEF TakeMove, Late
  <2> QED BY <1>6, <2>4
<1>8. CASE Holders(ThreadOf[m]) = {} /\ Take(m, "create", e)
  <2>1. \A j \in DOMAIN registry : ThreadOf[j] /= ThreadOf[m]
    BY <1>8 DEF Holders
  <2>2. FiredOk' /\ \A t \in Timers : fired[t] <= fired'[t]
    BY <1>1 DEF CoreInv, FiredOk
  <2>3. TakeMove(m, "create", e)
    BY <1>0, <1>1, <1>2, <1>3, <1>5, <1>8, <2>1, <2>2 DEF TakeMove, Late
  <2> QED BY <1>6, <2>3
<1>9. CASE UNCHANGED <<journal, serial, work, taken, ran>>
  BY <1>0, <1>1, <1>9, BesideStep
<1> QED BY <1>3, <1>7, <1>8, <1>9 DEF Receive

----------------------------------------------------------------------------
(* Commits, starts and ends. *)

\* Timers that go, and a transition that ends or begins.
LEMMA TimesKept ==
    ASSUME TimesOk, now' = now, DOMAIN index' \subseteq DOMAIN index, DOMAIN armed' \subseteq DOMAIN armed,
           Acts' => work'.todo \in Seq(Steps)
    PROVE  TimesOk'
<1>1. IsFiniteSet(DOMAIN index')
  BY FS_Subset DEF TimesOk
<1> QED BY <1>1 DEF TimesOk

\* The cancellation of an instance's timers adds none.
LEMMA CancelStoredIs ==
    ASSUME NEW S, CancelStored(S)
    PROVE  DOMAIN index' \subseteq DOMAIN index /\ DOMAIN armed' \subseteq DOMAIN armed
<1>1. PICK gone, reached : index' = Without(index, gone) /\ armed' = Without(armed, reached)
  BY DEF CancelStored
<1> QED BY <1>1 DEF Without

\* An instance ends with no transition.
LEMMA FailSafe ==
    ASSUME CoreInv, TimesOk, NEW i \in DOMAIN registry, FailInStore(i),
           UNCHANGED <<serial, received, taken, ran, fired, up, dropped, now>>, work' = Idle, up, ~OnInbound,
           Replays' \subseteq Replays, Drains' = Drains, Early' = Early,
           \A k \in Drains : k.inst /= i, \A k \in Replays \ Replays' : k.row.inst = i
    PROVE  CoreInv' /\ TimesOk'
<1>0. /\ TablesOk /\ RegistryOk /\ EntriesOk /\ ReplaysOk
  BY DEF CoreInv
<1>1. /\ DOMAIN registry' = DOMAIN registry \ {i}
      /\ \A j \in DOMAIN registry' : registry'[j] = registry[j]
  BY DEF FailInStore, Without
<1>2. i \in DOMAIN rows
  BY <1>0 DEF RegistryOk
<1>3. /\ DOMAIN rows' = DOMAIN rows
      /\ \A j \in DOMAIN rows : /\ rows'[j].done = rows[j].done /\ rows'[j].born = rows[j].born
                                /\ rows'[j].status \in {rows[j].status, "ended"}
                                /\ j /= i => rows'[j] = rows[j]
      /\ DOMAIN journal' \subseteq DOMAIN journal
      /\ \A f \in DOMAIN journal' : journal'[f] = journal[f]
      /\ \A f \in DOMAIN journal \ DOMAIN journal' : journal[f].inst = i /\ i \in ended'
      /\ i \in unsaved' \/ rows'[i].status = "ended"
      /\ unsaved \subseteq unsaved' /\ ended \subseteq ended'
      /\ \A j \in DOMAIN rows : rows'[j].status = "ended" => rows[j].status = "ended" \/ j \in ended'
  <2>1. CASE EndStored({i}) /\ UNCHANGED unsaved
    <3>1. EndStored({i})
      BY <2>1
    <3>2. /\ DOMAIN rows' = DOMAIN rows
          /\ \A j \in DOMAIN rows : /\ rows'[j].done = rows[j].done /\ rows'[j].born = rows[j].born
                                    /\ j \in {i} => rows'[j].status = "ended"
                                    /\ j \notin {i} => rows'[j] = rows[j]
          /\ DOMAIN journal' = {f \in DOMAIN journal : journal[f].inst \notin {i}}
          /\ \A f \in DOMAIN journal' : journal'[f] = journal[f]
          /\ ended' = ended \cup {i}
      BY <3>1, EndStoredIs
    <3> QED BY <1>2, <2>1, <3>2
  <2>2. CASE unsaved' = unsaved \cup {i} /\ UNCHANGED <<rows, internal, journal, ended>>
    BY <1>2, <2>2
  <2> QED BY <2>1, <2>2 DEF FailInStore
<1>4. ASSUME NEW k \in Replays, k.row.kind = "create" \/ k.row.inst \in DOMAIN registry'
      PROVE  k.event \in DOMAIN journal'
  <2>1. k.event \in DOMAIN journal /\ journal[k.event] = k.row
    BY <1>0, <1>1, <1>4 DEF ReplaysOk
  <2>2. k.row.inst /= i
    BY <1>0, <1>1, <1>2, <1>4, <2>1 DEF EntriesOk
  <2> QED BY <1>3, <2>1, <2>2
<1>5. ASSUME NEW f \in DOMAIN journal', journal'[f].inst \in DOMAIN registry', NEW k \in Replays \ Replays', k.event = f
      PROVE  FALSE
  BY <1>0, <1>1, <1>3, <1>5 DEF EntriesOk, ReplaysOk
<1>6. \A j \in DOMAIN registry' : j \in DOMAIN rows' /\ rows'[j].status = "running"
  BY <1>0, <1>1, <1>3 DEF RegistryOk
<1>7. \A k \in Drains : k.inst \in DOMAIN registry'
  BY <1>0, <1>1 DEF RegistryOk
<1>8. Leaves
  BY <1>1, <1>3, <1>4, <1>5, <1>6, <1>7 DEF Leaves
<1>9. CoreInv'
  BY <1>8, LeavesSafe
<1>10. DOMAIN index' \subseteq DOMAIN index /\ DOMAIN armed' \subseteq DOMAIN armed
  BY CancelStoredIs DEF FailInStore
<1>11. ~Acts'
  BY DEF Acts, Idle
<1> QED BY <1>9, <1>10, <1>11, TimesKept

\* A row of the journal that is not run again.
LEMMA DropSafe ==
    ASSUME CoreInv, TimesOk, NEW task \in Replays, agenda' = agenda \ {task}, Drop(task.event),
           UNCHANGED <<rows, registry, serial, received, taken, ran, fired, up, unsaved, ended, now, index, armed>>,
           work = Idle, work' = Idle, up
    PROVE  CoreInv' /\ TimesOk'
<1>0. /\ TablesOk /\ RegistryOk /\ EntriesOk /\ ReplaysOk /\ StagesOk
  BY DEF CoreInv
<1>1. /\ DOMAIN journal' = DOMAIN journal \ {task.event} /\ \A f \in DOMAIN journal' : journal'[f] = journal[f]
      /\ dropped' = dropped \cup {task.event}
  BY DEF Drop, Without
<1>2. Replays' = Replays \ {task} /\ Drains' = Drains /\ ~Early /\ ~Early'
  BY <1>0 DEF StagesOk, Replays, Drains, Early
<1>3. Early' = Early
  BY <1>2 DEF Early
<1>4. ~OnInbound /\ ~Acts'
  BY DEF OnInbound, Acts, Idle
<1>5. \A k \in Replays' : k.row.kind = "create" \/ k.row.inst \in DOMAIN registry' => k.event \in DOMAIN journal'
  BY <1>0, <1>1, <1>2 DEF ReplaysOk
<1>6. \A j \in DOMAIN registry' : j \in DOMAIN rows' /\ rows'[j].status = "running"
  BY <1>0 DEF RegistryOk
<1>7. \A k \in Drains : k.inst \in DOMAIN registry'
  BY <1>0 DEF RegistryOk
<1>8. Leaves
  BY <1>1, <1>2, <1>3, <1>4, <1>5, <1>6, <1>7 DEF Leaves
<1>9. CoreInv'
  BY <1>8, LeavesSafe
<1> QED BY <1>4, <1>9, TimesKept

\* An internal event: the invariant is kept.
LEMMA DrainSafe ==
    ASSUME CoreInv, TimesOk, Drain
    PROVE  CoreInv' /\ TimesOk'
<1>0. /\ TablesOk /\ RegistryOk /\ EntriesOk /\ ReplaysOk /\ StagesOk /\ AheadOk
  BY DEF CoreInv
<1>1. /\ UNCHANGED <<now, serial, up, agenda, received, taken, dropped, ran, fired>>
      /\ up /\ work.at = "drain" /\ work /= Idle
  BY DEF Drain, Idle
<1>2. PICK i : i = work.inst
  OBVIOUS
<1>3. ~OnInbound /\ OnInternal /\ i \in DOMAIN registry /\ i \in received
  BY <1>0, <1>1, <1>2 DEF OnInbound, OnInternal, RegistryOk, TablesOk
<1>4. Replays' = Replays /\ Drains' = Drains /\ Early' = Early
  BY <1>1, AgendaKept
<1>5. \A k \in Drains : k.inst /= i /\ k.inst \in DOMAIN registry
  BY <1>0, <1>1, <1>2 DEF RegistryOk
<1>6. CASE work' = Idle /\ UNCHANGED <<rows, journal, index, registry, armed, unsaved, ended>>
  <2>1. \A j \in DOMAIN registry : j \in DOMAIN rows /\ rows[j].status = "running"
    BY <1>0 DEF RegistryOk
  <2>2. \A k \in Replays' : k.row.kind = "create" \/ k.row.inst \in DOMAIN registry' => k.event \in DOMAIN journal'
    BY <1>0, <1>4, <1>6 DEF ReplaysOk
  <2>3. Leaves
    BY <1>1, <1>3, <1>4, <1>5, <1>6, <2>1, <2>2 DEF Leaves
  <2>4. ~Acts'
    BY <1>6 DEF Acts, Idle
  <2>5. CoreInv'
    BY <2>3, LeavesSafe
  <2> QED BY <1>1, <1>6, <2>4, <2>5, TimesKept
<1>7. CASE /\ UNCHANGED <<rows, journal, index, registry, armed, unsaved, ended>>
           /\ \E id, leftover : work' = Begin(i, "internal", [kind |-> "internal", id |-> id], 0, leftover)
  <2>1. PICK id, leftover : work' = Begin(i, "internal", [kind |-> "internal", id |-> id], 0, leftover)
    BY <1>7
  <2>2. PICK e : e = [kind |-> "internal", id |-> id]
    OBVIOUS
  <2>3. /\ IsAct(work)' /\ work'.kind = "internal" /\ work'.event = e /\ e.kind = "internal"
        /\ work'.inst = i /\ work'.todo = Script(e)
    BY <1>1, <1>3, <2>1, <2>2 DEF Begin, IsAct
  <2>4. DOMAIN registry[i].done \cap DOMAIN journal = {}
    BY <1>0, <1>2, <1>3 DEF AheadOk
  <2>5. Turns
    BY <1>1, <1>3, <1>4, <1>5, <1>7, <2>3, <2>4 DEF Turns
  <2>6. CoreInv'
    BY <2>5, TurnsSafe
  <2>7. work'.todo \in Seq(Steps)
    BY <2>3, ScriptSteps
  <2> QED BY <1>1, <1>7, <2>6, <2>7, TimesKept
<1>8. CASE FailInStore(i) /\ work' = Idle
  BY <1>1, <1>3, <1>4, <1>5, <1>8, FailSafe
<1> QED BY <1>2, <1>6, <1>7, <1>8 DEF Drain

\* An instance that is drained at a start: the invariant is kept.
LEMMA DrainRecoveredSafe ==
    ASSUME CoreInv, TimesOk, NEW task \in agenda, DrainRecovered(task)
    PROVE  CoreInv' /\ TimesOk'
<1>0. /\ TablesOk /\ RegistryOk /\ EntriesOk /\ ReplaysOk /\ StagesOk /\ AheadOk
  BY DEF CoreInv
<1>1. /\ UNCHANGED <<now, rows, journal, serial, registry, up, received, taken, dropped, ran, unsaved, ended, fired, index, armed>>
      /\ up /\ work = Idle /\ agenda' = agenda \ {task} /\ task.do = "drain"
      /\ work'.at = "drain" /\ work'.inst = task.inst
  BY DEF DrainRecovered, Due, store, timers, history
<1>2. task \in Drains /\ Early /\ task.inst \in DOMAIN registry
  BY <1>0, <1>1 DEF Drains, StagesOk, RegistryOk
<1>3. Replays' = Replays /\ Drains' = Drains \ {task} /\ Early'
  BY <1>1, <1>2 DEF Replays, Drains, Early
<1>4. Early' = Early
  BY <1>2, <1>3 DEF Early
<1>5. \A k \in Drains' : k.inst /= work'.inst
  BY <1>0, <1>1, <1>2, <1>3 DEF TablesOk
<1>6. ~OnInbound /\ DOMAIN registry[task.inst].done \cap DOMAIN journal = {}
  BY <1>0, <1>1, <1>2 DEF OnInbound, Idle, AheadOk
<1>7. Turns
  BY <1>1, <1>2, <1>3, <1>4, <1>5, <1>6 DEF Turns
<1>8. CoreInv' /\ ~Acts'
  BY <1>1, <1>7, TurnsSafe DEF Acts
<1> QED BY <1>1, <1>8, TimesKept

\* An instance that is closed: the invariant is kept.
LEMMA CloseSafe ==
    ASSUME CoreInv, TimesOk, NEW i, Close(i)
    PROVE  CoreInv' /\ TimesOk'
<1>0. /\ TablesOk /\ RegistryOk
  BY DEF CoreInv
<1>1. /\ UNCHANGED <<now, rows, journal, serial, registry, up, received, taken, dropped, ran, unsaved, ended, fired, index, armed,
                     agenda>>
      /\ i \in DOMAIN registry
  BY DEF Close, store, timers, history
<1>2. Late /\ up /\ work = Idle
  BY LoopLate DEF Close
<1>3. PICK cancels \in CancelAll(i) :
         work' = [at |-> "act", inst |-> i, kind |-> "close", event |-> NoEvent, id |-> 0,
                  todo |-> cancels, emitted |-> FALSE, status |-> "ended", fire_at |-> 0, leftover |-> FALSE]
  BY DEF Close
<1>4. i \in received
  BY <1>0, <1>1 DEF RegistryOk, TablesOk
<1>5. IsAct(work)' /\ work'.kind = "close" /\ work'.inst = i /\ work'.todo = cancels /\ ~OnInternal' /\ ~OnInbound
  BY <1>1, <1>2, <1>3, <1>4 DEF IsAct, OnInternal, OnInbound, Idle
<1>6. Replays' = Replays /\ Drains' = Drains /\ Early' = Early
  BY <1>1, AgendaKept
<1>7. Turns
  BY <1>1, <1>2, <1>5, <1>6 DEF Turns, Late
<1>8. CoreInv' /\ work'.todo \in Seq(Steps)
  BY <1>5, <1>7, TurnsSafe, CancelSteps
<1> QED BY <1>1, <1>8, TimesKept

\* A row that runs again: the invariant is kept.
LEMMA ReplaySafe ==
    ASSUME CoreInv, TimesOk, NEW task \in agenda, Replay(task)
    PROVE  CoreInv' /\ TimesOk'
<1>0. /\ TablesOk /\ RegistryOk /\ EntriesOk /\ ReplaysOk /\ StagesOk /\ AheadOk
  BY DEF CoreInv
<1>1. /\ UNCHANGED <<now, rows, serial, registry, up, received, unsaved, ended, fired, index, armed>>
      /\ up /\ work = Idle /\ agenda' = agenda \ {task} /\ task.do = "replay"
      /\ task.row.attempts < MaxReplayAttempts
  BY DEF Replay, Due, timers
<1>2. task \in Replays /\ \A k \in Replays : ~(k.row.id < task.row.id)
  BY <1>1 DEF Replays, Replay, Due, Before
<1>3. PICK e : e = task.event
  OBVIOUS
<1>4. PICK row : row = task.row
  OBVIOUS
<1>5. e \in DOMAIN taken /\ taken[e] = row.inst /\ IsRow(row)
  BY <1>0, <1>2, <1>3, <1>4 DEF ReplaysOk, TablesOk
<1>6. row.kind = "create" \/ row.inst \in DOMAIN registry => e \in DOMAIN journal /\ journal[e] = row
  BY <1>0, <1>2, <1>3, <1>4 DEF ReplaysOk
<1>7. ASSUME NEW i, NEW kind, RunMove(task, i, kind) PROVE CoreInv' /\ TimesOk'
  <2>1. CoreInv'
    BY <1>7, RunSafe
  <2>2. work'.todo = Script(e) /\ IsEvent(e)
    BY <1>0, <1>3, <1>7 DEF RunMove, Begin, TablesOk
  <2>3. work'.todo \in Seq(Steps)
    BY <2>2, ScriptSteps
  <2> QED BY <1>1, <2>1, <2>3, TimesKept
<1>8. ASSUME e \in DOMAIN journal, journal[e] = row,
             journal' = Counted(e)
      PROVE  /\ DOMAIN journal' = DOMAIN journal
             /\ journal'[e] = [inst |-> row.inst, kind |-> row.kind, id |-> row.id, attempts |-> row.attempts + 1]
             /\ \A f \in DOMAIN journal : f /= e => journal'[f] = journal[f]
  <2>1. PICK n \in Nat : n = row.attempts + 1
    BY <1>5 DEF IsRow
  <2>2. journal' = [journal EXCEPT ![e].attempts = n]
    BY <1>8, <2>1 DEF Counted
  <2>3. row = [inst |-> row.inst, kind |-> row.kind, id |-> row.id, attempts |-> row.attempts]
    BY <1>5 DEF IsRow
  <2> QED BY <1>8, <2>1, <2>2, <2>3
<1>9. CASE /\ row.kind = "create" /\ row.inst \notin DOMAIN rows /\ Heirs(e) = {}
           /\ journal' = Counted(e) /\ UNCHANGED <<dropped, taken>>
           /\ work' = Begin(row.inst, "create", e, row.id, FALSE) /\ ran' = Count(ran, e)
  <2>1. e = Message(row.inst)
    BY <1>0, <1>6, <1>9 DEF EntriesOk
  <2>2. \A j \in DOMAIN registry : ThreadOf[j] /= ThreadOf[row.inst]
    BY <1>9, <2>1 DEF Heirs, Holders, Message
  <2>3. RunMove(task, row.inst, "create")
    BY <1>1, <1>2, <1>3, <1>4, <1>5, <1>6, <1>8, <1>9, <2>2 DEF RunMove
  <2> QED BY <1>7, <2>3
<1>10. CASE /\ row.kind = "create" /\ UNCHANGED dropped
            /\ \E i \in Heirs(e) :
                  /\ journal' = [Counted(e) EXCEPT ![e].inst = i, ![e].kind = "event"]
                  /\ work' = Begin(i, "event", e, row.id, FALSE) /\ ran' = Count(ran, e)
                  /\ taken' = [taken EXCEPT ![e] = i]
  <2>1. PICK i \in Heirs(e) :
                  /\ journal' = [Counted(e) EXCEPT ![e].inst = i, ![e].kind = "event"]
                  /\ work' = Begin(i, "event", e, row.id, FALSE) /\ ran' = Count(ran, e)
                  /\ taken' = [taken EXCEPT ![e] = i]
    BY <1>10
  <2>2. i \in DOMAIN registry
    BY <2>1 DEF Heirs, Holders
  <2>3. e \in DOMAIN journal /\ journal[e] = row
    BY <1>6, <1>10
  <2>4. PICK counted : counted = Counted(e)
    OBVIOUS
  <2>5. PICK n \in Nat : n = row.attempts + 1
    BY <1>5 DEF IsRow
  <2>6. row = [inst |-> row.inst, kind |-> row.kind, id |-> row.id, attempts |-> row.attempts]
    BY <1>5 DEF IsRow
  <2>7. /\ DOMAIN counted = DOMAIN journal
        /\ counted[e] = [inst |-> row.inst, kind |-> row.kind, id |-> row.id, attempts |-> n]
        /\ \A f \in DOMAIN journal : f /= e => counted[f] = journal[f]
    <3>1. counted = [journal EXCEPT ![e].attempts = n]
      BY <2>3, <2>4, <2>5 DEF Counted
    <3> QED BY <2>3, <2>6, <3>1
  <2>8. journal' = [counted EXCEPT ![e].inst = i, ![e].kind = "event"]
    BY <2>1, <2>4
  <2>9. /\ DOMAIN journal' = DOMAIN journal
        /\ journal'[e] = [inst |-> i, kind |-> "event", id |-> row.id, attempts |-> n]
        /\ \A f \in DOMAIN journal : f /= e => journal'[f] = journal[f]
    <3>1. PICK half : half = [counted EXCEPT ![e].inst = i]
      OBVIOUS
    <3>2. /\ DOMAIN half = DOMAIN journal
          /\ half[e] = [inst |-> i, kind |-> row.kind, id |-> row.id, attempts |-> n]
          /\ \A f \in DOMAIN journal : f /= e => half[f] = journal[f]
      BY <2>3, <2>7, <3>1
    <3>3. journal' = [half EXCEPT ![e].kind = "event"]
      BY <2>8, <3>1
    <3> HIDE <2>8, <3>1
    <3> QED BY <2>3, <3>2, <3>3
  <2>10. DOMAIN taken' = DOMAIN taken /\ taken'[e] = i /\ \A f \in DOMAIN taken : f /= e => taken'[f] = taken[f]
    BY <1>5, <2>1
  <2>11. RunMove(task, i, "event")
    BY <1>1, <1>2, <1>3, <1>4, <1>10, <2>1, <2>2, <2>3, <2>5, <2>9, <2>10 DEF RunMove
  <2> QED BY <1>7, <2>11
<1>11. CASE /\ row.kind = "event" /\ row.inst \in DOMAIN registry
            /\ journal' = Counted(e) /\ UNCHANGED <<dropped, taken>>
            /\ work' = Begin(row.inst, "event", e, row.id, FALSE) /\ ran' = Count(ran, e)
  <2>1. RunMove(task, row.inst, "event")
    BY <1>1, <1>2, <1>3, <1>4, <1>5, <1>6, <1>8, <1>11 DEF RunMove
  <2> QED BY <1>7, <2>1
<1>12. CASE Drop(e) /\ UNCHANGED <<work, ran, taken>>
  BY <1>1, <1>2, <1>3, <1>12, DropSafe
<1> QED BY <1>3, <1>4, <1>9, <1>10, <1>11, <1>12, Zenon DEF Replay

\* A row given up: the invariant is kept.
LEMMA GiveUpSafe ==
    ASSUME CoreInv, TimesOk, NEW task \in agenda, GiveUp(task)
    PROVE  CoreInv' /\ TimesOk'
<1>1. /\ UNCHANGED <<now, serial, up, work, received, taken, ran, fired>>
      /\ up /\ work = Idle /\ agenda' = agenda \ {task} /\ task.do = "replay"
  BY DEF GiveUp, Due
<1>2. task \in Replays
  BY <1>1 DEF Replays
<1>3. ~Early /\ Drains = {}
  BY <1>2 DEF CoreInv, StagesOk
<1>4. Replays' = Replays \ {task} /\ Drains' = Drains /\ ~Early'
  BY <1>1, <1>3 DEF Replays, Drains, Early
<1>5. Early' = Early
  BY <1>3, <1>4 DEF Early
<1>6. ~OnInbound
  BY <1>1 DEF OnInbound, Idle
<1>7. CASE task.row.inst \in DOMAIN registry /\ FailInStore(task.row.inst) /\ UNCHANGED dropped
  BY <1>1, <1>3, <1>4, <1>5, <1>6, <1>7, FailSafe
<1>8. CASE Drop(task.event) /\ UNCHANGED <<rows, index, armed, registry, unsaved, ended>>
  BY <1>1, <1>2, <1>8, DropSafe
<1> QED BY <1>7, <1>8 DEF GiveUp

----------------------------------------------------------------------------
(* Every step keeps the invariant. *)

\* Commit (commitTransition), and its failure.
LEMMA CommitKeeps ==
    ASSUME CoreInv, TimesOk, Commit \/ CommitFails
    PROVE  CoreInv' /\ TimesOk'
<1>1. CoreInv'
  BY CommitSafe, CommitFailsSafe
<1>2. UNCHANGED <<now, index, armed>>
  BY DEF Commit, CommitFails, store, timers
<1>3. ~Acts'
  <2>1. work.at = "act" /\ (work' = Idle \/ work' = [work EXCEPT !.at = "drain"])
    BY DEF Commit, CommitFails, Ready
  <2>2. IsAct(work)
    BY <2>1 DEF CoreInv, WorkOk, Idle
  <2> QED BY <2>1, <2>2 DEF Acts, Idle, IsAct
<1> QED BY <1>1, <1>2, <1>3, TimesKept

\* A crash.
LEMMA StopKeeps ==
    ASSUME CoreInv, TimesOk, Stop
    PROVE  CoreInv' /\ TimesOk'
<1>1. UNCHANGED <<now, index, armed>> /\ ~Acts'
  BY DEF Stop, store, timers, Acts, Idle
<1> QED BY <1>1, StopSafe, TimesKept

\* A start (Recover).
LEMMA StartKeeps ==
    ASSUME CoreInv, TimesOk, Start
    PROVE  CoreInv' /\ TimesOk'
<1>1. now' = now /\ work' = work /\ ~up /\ \E S : CancelStored(S)
  BY DEF Start
<1>2. DOMAIN index' \subseteq DOMAIN index /\ DOMAIN armed' \subseteq DOMAIN armed
  BY <1>1, CancelStoredIs
<1>3. ~Acts'
  BY <1>1 DEF Acts, Idle, CoreInv, StagesOk
<1> QED BY <1>1, <1>2, <1>3, StartSafe, TimesKept

\* The list of the journal (ListInbound).
LEMMA ListKeeps ==
    ASSUME CoreInv, TimesOk, NEW task \in agenda, ListInbound(task)
    PROVE  CoreInv' /\ TimesOk'
<1>1. UNCHANGED <<now, index, armed, work>>
  BY DEF ListInbound, store, timers
<1>2. CoreInv'
  BY ListSafe
<1> QED BY <1>1, <1>2 DEF TimesOk, Acts

\* The collector (DeleteInstance).
LEMMA CollectKeeps ==
    ASSUME CoreInv, TimesOk, NEW i, Collect(i)
    PROVE  CoreInv' /\ TimesOk'
<1>1. UNCHANGED <<now, armed, work>> /\ DOMAIN index' \subseteq DOMAIN index
  BY DEF Collect, memory, timers, Without
<1>2. CoreInv'
  BY CollectSafe
<1>3. Acts' => work'.todo \in Seq(Steps)
  BY <1>1 DEF TimesOk, Acts
<1> QED BY <1>1, <1>2, <1>3, TimesKept

\* The steps of a transition.
LEMMA TransitionKeeps ==
    ASSUME CoreInv, TimesOk, Transition
    PROVE  CoreInv' /\ TimesOk'
<1>1. CASE SendSchedule
  BY <1>1, SendScheduleSafe
<1>2. CASE SendReschedule
  BY <1>2, SendRescheduleSafe
<1>3. CASE Register
  BY <1>3, RegisterSafe
<1>4. CASE SendCancel
  BY <1>4, SendCancelSafe
<1>5. CASE Forget
  BY <1>5, ForgetSafe
<1>6. CASE SkipTimerAction
  BY <1>6, SkipSafe
<1>7. CASE Send
  BY <1>7, SendSafe
<1>8. CASE End
  BY <1>8, EndSafe
<1>9. CASE Commit \/ CommitFails
  BY <1>9, CommitKeeps
<1>10. CASE Drain
  BY <1>10, DrainSafe
<1>11. CASE CancelNone
  BY <1>11, CancelNoneSafe
<1> QED BY <1>1, <1>2, <1>3, <1>4, <1>5, <1>6, <1>7, <1>8, <1>9, <1>10, <1>11 DEF Transition

\* The steps of a start.
LEMMA RecoveryKeeps ==
    ASSUME CoreInv, TimesOk, Recovery
    PROVE  CoreInv' /\ TimesOk'
<1>1. CASE Start
  BY <1>1, StartKeeps
<1>2. ASSUME NEW task \in agenda, DrainRecovered(task) PROVE CoreInv' /\ TimesOk'
  BY <1>2, DrainRecoveredSafe
<1>3. ASSUME NEW task \in agenda, ListInbound(task) PROVE CoreInv' /\ TimesOk'
  BY <1>3, ListKeeps
<1>4. ASSUME NEW task \in agenda, Replay(task) PROVE CoreInv' /\ TimesOk'
  BY <1>4, ReplaySafe
<1>5. ASSUME NEW task \in agenda, GiveUp(task) PROVE CoreInv' /\ TimesOk'
  BY <1>5, GiveUpSafe
<1>6. ASSUME NEW task \in agenda, Reconcile(task) PROVE CoreInv' /\ TimesOk'
  BY <1>6, ReconcileSafe
<1>7. ASSUME NEW task \in agenda, ReconcileTimer(task) PROVE CoreInv' /\ TimesOk'
  BY <1>7, ReconcileTimerSafe
<1>8. ASSUME NEW task \in agenda, SettleTimer(task) PROVE CoreInv' /\ TimesOk'
  BY <1>8, SettleTimerSafe
<1> QED BY <1>1, <1>2, <1>3, <1>4, <1>5, <1>6, <1>7, <1>8 DEF Recovery

\* What comes to the receive loop.
LEMMA InboundKeeps ==
    ASSUME CoreInv, TimesOk, Inbound
    PROVE  CoreInv' /\ TimesOk'
<1>1. ASSUME NEW m \in Messages, Receive(m) PROVE CoreInv' /\ TimesOk'
  BY <1>1, ReceiveSafe
<1>2. ASSUME NEW m \in Messages, ReceiveFails(m) PROVE CoreInv' /\ TimesOk'
  BY <1>2, OutsideSafe
<1>3. ASSUME NEW fire \in fires, FireArrives(fire) PROVE CoreInv' /\ TimesOk'
  BY <1>3, FireArrivesSafe
<1>4. ASSUME NEW i \in Messages, Close(i) PROVE CoreInv' /\ TimesOk'
  BY <1>4, CloseSafe
<1>5. ASSUME NEW i \in Messages, Collect(i) PROVE CoreInv' /\ TimesOk'
  BY <1>5, CollectKeeps
<1>6. CASE AskTimers
  BY <1>6, OutsideSafe
<1>7. CASE TakeTimerList
  BY <1>7, TakeTimerListSafe
<1> QED BY <1>1, <1>2, <1>3, <1>4, <1>5, <1>6, <1>7 DEF Inbound

\* The clock, a crash, and SY.timer.
LEMMA EnvironmentKeeps ==
    ASSUME CoreInv, TimesOk, Environment
    PROVE  CoreInv' /\ TimesOk'
<1>1. CASE Stop
  BY <1>1, StopKeeps
<1>2. CASE Tick \/ TimersListed \/ \E fire \in fires : FireLost(fire)
  BY <1>2, OutsideSafe
<1>3. CASE \E t \in Timers : TimerFires(t) \/ TimerLost(t)
  BY <1>3, OutsideSafe
<1> QED BY <1>1, <1>2, <1>3 DEF Environment, Timers

\* The invariant holds first and every step keeps it.
LEMMA WfInductive == Spec => [](CoreInv /\ TimesOk)
<1>1. Init => CoreInv /\ TimesOk
  <2> SUFFICES ASSUME Init PROVE CoreInv /\ TimesOk
    OBVIOUS
  <2>1. /\ Replays = {} /\ Drains = {} /\ ~Early /\ ~Acts /\ ~OnInbound /\ ~OnInternal /\ work.at /= "drain"
    BY DEF Init, Replays, Drains, Early, Acts, OnInbound, OnInternal, Idle
  <2>2. /\ DOMAIN rows = {} /\ DOMAIN journal = {} /\ DOMAIN index = {} /\ DOMAIN registry = {}
        /\ DOMAIN armed = {} /\ DOMAIN taken = {} /\ DOMAIN ran = {} /\ serial = 0 /\ received = {}
        /\ up /\ work = Idle /\ now = 0
    BY DEF Init
  <2>3. FiredOk
    BY DEF Init, FiredOk, Timers
  <2>4. TablesOk /\ WorkOk /\ StagesOk /\ RegistryOk
    BY <2>1, <2>2 DEF TablesOk, WorkOk, StagesOk, RegistryOk
  <2>5. ThreadsOk /\ EntriesOk /\ HistoryOk /\ RunOk /\ ReplaysOk
    BY <2>1, <2>2 DEF ThreadsOk, OneConversation, EntriesOk, HistoryOk, RunOk, ReplaysOk
  <2>6. DoneOk /\ AheadOk /\ KeptOk /\ RunsOk
    BY <2>1, <2>2 DEF DoneOk, AheadOk, KeptOk, NothingLost, EndsOk, RunsOk
  <2>7. TimesOk
    BY <2>1, <2>2, WfAssumption, FS_EmptySet DEF TimesOk
  <2> QED BY <2>3, <2>4, <2>5, <2>6, <2>7 DEF CoreInv
<1>2. CoreInv /\ TimesOk /\ [Next]_vars => (CoreInv /\ TimesOk)'
  <2> SUFFICES ASSUME CoreInv, TimesOk, [Next]_vars PROVE CoreInv' /\ TimesOk'
    OBVIOUS
  <2>1. CASE UNCHANGED vars
    BY <2>1, BesideStep DEF vars, store, memory, timers, history, TimesOk, CoreInv, TablesOk
  <2>2. CASE Next
    BY <2>2, TransitionKeeps, RecoveryKeeps, InboundKeeps, EnvironmentKeeps DEF Next
  <2> QED BY <2>1, <2>2
<1> QED BY <1>1, <1>2, PTL DEF Spec

\* Whatever crashes, failed statements and lost requests come between, the registry holds
\* running instances only and every table keeps to its type.
THEOREM WfTypeOK == Spec => []TypeOK
<1>1. CoreInv /\ TimesOk => TypeOK
  <2> SUFFICES ASSUME CoreInv, TimesOk PROVE TypeOK
    OBVIOUS
  <2>1. work.at \in {"idle", "act", "drain"}
    BY DEF CoreInv, WorkOk, Idle, IsAct
  <2>2. \A i \in DOMAIN registry : i \in DOMAIN rows /\ registry[i].status = "running"
    BY DEF CoreInv, RegistryOk
  <2>3. /\ DOMAIN rows \subseteq Messages /\ \A i \in DOMAIN rows : rows[i].status \in {"running", "ended"}
    BY DEF CoreInv, TablesOk
  <2> QED BY <2>1, <2>2, <2>3 DEF TypeOK, TimesOk, Timers
<1> QED BY <1>1, WfInductive, PTL

\* An event the node journaled (JournalInbound) is in the journal until it is part of its
\* instance's committed state or its instance's end was committed, whatever crashes and
\* failed commits come before its commit; a creation no less.
THEOREM WfNothingLost == Spec => []NothingLost
<1>1. CoreInv /\ TimesOk => NothingLost
  BY DEF CoreInv, KeptOk
<1> QED BY <1>1, WfInductive, PTL

\* No inbound event is applied twice to a committed state, although a start runs the
\* journal again and a commit that failed leaves its event behind a state that moved on
\* (CommitInstanceMutation deletes the instance's events up to the one it took).
THEOREM WfAppliedOnce == Spec => []AppliedOnce
<1>1. CoreInv /\ TimesOk => AppliedOnce
  BY DEF CoreInv, DoneOk, Once, AppliedOnce
<1> QED BY <1>1, WfInductive, PTL

\* Two instances run on a thread only when one of them had ended in a commit that failed,
\* and a start lets the eldest of them live (loadRunningInstances).
THEOREM WfOneConversation == Spec => []OneConversation
<1>1. CoreInv /\ TimesOk => OneConversation
  BY DEF CoreInv, ThreadsOk
<1> QED BY <1>1, WfInductive, PTL

\* An event runs live and at no more than MaxReplayAttempts starts: a poison event does not
\* take the node down for ever (CountInboundAttempt, giveUpInbound).
THEOREM WfRunsBounded == Spec => []RunsBounded
<1>1. CoreInv /\ TimesOk => RunsBounded
  BY DEF CoreInv, RunsOk, RunsBounded
<1> QED BY <1>1, WfInductive, PTL

----------------------------------------------------------------------------
(* Why a timer of the index is backed. *)

\* Its instance runs, in the registry or in the transition that makes it.
Live(t) == t[1] \in DOMAIN registry \/ (Acts /\ work.inst = t[1])

\* A timer that is not backed is known to be lost or strayed, is about to leave the index,
\* is to be reconciled by the start that goes on, is a task of the reconciliation, or will
\* be one of the list that is asked for.
Forgetting(t) == Acts /\ work.inst = t[1] /\ work.todo /= << >> /\ Head(work.todo) = <<"forget", t[2]>>
StartPending == \E k \in agenda : k.do \in {"list", "reconcile"}
OnAgenda(t) ==
    \E k \in agenda : /\ k.do = "timer" /\ k.timer = t /\ k.sy_at = -1
                      /\ k.fire_at = index[t].fire_at /\ index[t].scheduled <= k.asked
ToBeListed(t) ==
    /\ degraded
    /\ listing /= NoList => /\ index[t].scheduled <= listing.asked
                            /\ listing.at = "listed" => t \notin DOMAIN listing.timers
Accounted(t) ==
    t \in lost \cup strayed \/ Forgetting(t) \/ StartPending \/ OnAgenda(t) \/ ToBeListed(t)

\* While the engine is up a timer of a live instance is backed or accounted for.
BackedOk == up => \A t \in DOMAIN index : Live(t) => Backed(t) \/ Accounted(t)

\* The list that is asked for, the tasks of a start and the times of the index.
ListingOk ==
    /\ listing = NoList \/ (listing.at \in {"asked", "listed"} /\ degraded)
    /\ degraded => agenda = {} /\ up
    /\ Replays /= {} => \E k \in agenda : k.do = "reconcile"
    /\ \A k \in agenda : k.do = "timer" => k.now \in 0 .. now
    /\ \A t \in DOMAIN index : t[1] \in received /\ index[t].scheduled \in 0 .. now

\* A step that leaves the reconciliation as it is, but for what it has done of it.
Steady ==
    /\ UNCHANGED <<up, degraded, listing>>
    /\ now \in Nat /\ now' \in Nat /\ now <= now' /\ received \subseteq received'
    /\ \A k \in agenda' : k \in agenda \/ k.do = "settle"
    /\ agenda = {} => agenda' = {}
    /\ \A k \in agenda \ agenda' : k.do \notin {"list", "reconcile"}
    /\ \A t \in DOMAIN index' : \/ t \in DOMAIN index /\ index'[t] = index[t]
                                \/ t[1] \in received' /\ index'[t].scheduled \in 0 .. now'

\* Such a step keeps what is known of the reconciliation.
LEMMA SteadyListing ==
    ASSUME ListingOk, Steady
    PROVE  ListingOk'
<1>1. \A k \in Replays' : k \in Replays
  BY DEF Replays, Steady
<1>2. (\A t \in DOMAIN index : t[1] \in received /\ index[t].scheduled \in 0 .. now)'
  <2>1. SUFFICES ASSUME NEW t \in DOMAIN index'
                 PROVE  t[1] \in received' /\ index'[t].scheduled \in 0 .. now'
    OBVIOUS
  <2>2. CASE t \in DOMAIN index /\ index'[t] = index[t]
    BY <2>2 DEF Steady, ListingOk
  <2>3. CASE t[1] \in received' /\ index'[t].scheduled \in 0 .. now'
    BY <2>3
  <2> QED BY <2>2, <2>3 DEF Steady
<1>3. \A k \in agenda' : k.do = "timer" => k.now \in 0 .. now'
  BY DEF Steady, ListingOk
<1>4. Replays' /= {} => \E k \in agenda' : k.do = "reconcile"
  BY <1>1 DEF Steady, ListingOk
<1> QED BY <1>2, <1>3, <1>4 DEF Steady, ListingOk

\* What a step may do to a timer: make it one of the known ones, or leave what accounts for it.
Same(t) ==
    /\ t \in DOMAIN index /\ index'[t] = index[t] /\ Live(t) /\ ~Forgetting(t)
    /\ Backed(t) => Backed(t)'
    /\ \A k \in agenda \ agenda' : k.do = "timer" => k.timer /= t \/ k.sy_at /= -1
Treated(t) == Backed(t)' \/ t \in lost' \cup strayed' \/ Forgetting(t)' \/ Same(t)

\* Such a step, when each timer it leaves unbacked is accounted for, backs the rest.
LEMMA SteadyBacked ==
    ASSUME BackedOk, Steady, lost \subseteq lost', strayed \subseteq strayed',
           up => \A t \in DOMAIN index' : Live(t)' => Treated(t)
    PROVE  BackedOk'
<1>1. SUFFICES ASSUME up, NEW t \in DOMAIN index', Live(t)'
               PROVE  Backed(t)' \/ Accounted(t)'
  BY DEF BackedOk, Steady
<1>2. CASE Backed(t)' \/ t \in lost' \cup strayed' \/ Forgetting(t)'
  BY <1>2 DEF Accounted
<1>3. CASE Same(t)
  <2>1. Backed(t) \/ t \in lost \cup strayed \/ StartPending \/ OnAgenda(t) \/ ToBeListed(t)
    BY <1>1, <1>3 DEF BackedOk, Same, Accounted
  <2>2. Backed(t) => Backed(t)'
    BY <1>3 DEF Same
  <2>3. StartPending => StartPending'
    BY DEF StartPending, Steady
  <2>4. OnAgenda(t) => OnAgenda(t)'
    BY <1>3 DEF OnAgenda, Same
  <2>5. ToBeListed(t) => ToBeListed(t)'
    BY <1>3 DEF ToBeListed, Same, Steady
  <2> QED BY <2>1, <2>2, <2>3, <2>4, <2>5 DEF Accounted
<1> QED BY <1>1, <1>2, <1>3 DEF Treated

----------------------------------------------------------------------------
(* The actions of a transition. *)

\* A transition is about to take the timer of its next step out of the index, or none.
LEMMA ForgettingIs ==
    ASSUME CoreInv, TimesOk, NEW do, Acting(do), NEW t \in DOMAIN index, Forgetting(t)
    PROVE  do = "forget" /\ t = Timer
<1>1. t = <<t[1], t[2]>>
  BY DEF TimesOk, Timers
<1> QED BY <1>1 DEF Forgetting, Acting, Timer

\* A step of a script on the timer u.
ScriptMove(do, u) ==
    /\ Acting(do)
    /\ UNCHANGED <<now, up, agenda, degraded, listing, registry, received, fires>>
    /\ work'.at = "act" /\ work'.inst = work.inst
    /\ lost \subseteq lost' /\ strayed \subseteq strayed'
    /\ \A t \in DOMAIN index' : t = u \/ (t \in DOMAIN index /\ index'[t] = index[t])
    /\ \A t \in DOMAIN armed : t = u \/ t \in DOMAIN armed'
    /\ u \in DOMAIN index' => /\ Treated(u)
                              /\ \/ u \in DOMAIN index /\ index'[u] = index[u]
                                 \/ u[1] \in received /\ index'[u].scheduled \in 0 .. now
    /\ do = "forget" => u = Timer

\* A step of a script keeps every timer backed or accounted for.
LEMMA ScriptBacked ==
    ASSUME CoreInv, TimesOk, ListingOk, BackedOk, NEW do, NEW u, ScriptMove(do, u)
    PROVE  ListingOk' /\ BackedOk'
<1>0. now \in Nat
  BY DEF TimesOk
<1>1. Steady
  BY <1>0 DEF Steady, ScriptMove
<1>2. Acts
  BY DEF ScriptMove, Acting, Acts
<1>3. ASSUME NEW t \in DOMAIN index', Live(t)', t /= u PROVE Same(t)
  <2>1. t \in DOMAIN index /\ index'[t] = index[t]
    BY <1>3 DEF ScriptMove
  <2>2. Live(t)
    BY <1>2, <1>3 DEF Live, ScriptMove
  <2>3. ~Forgetting(t)
    BY <1>3, <2>1, ForgettingIs DEF ScriptMove
  <2>4. Backed(t) => Backed(t)'
    BY <1>3 DEF Backed, ScriptMove
  <2> QED BY <2>1, <2>2, <2>3, <2>4 DEF Same, ScriptMove
<1>4. \A t \in DOMAIN index' : Live(t)' => Treated(t)
  BY <1>3 DEF ScriptMove, Treated
<1>5. lost \subseteq lost' /\ strayed \subseteq strayed'
  BY DEF ScriptMove
<1>6. BackedOk'
  BY <1>1, <1>4, <1>5, SteadyBacked
<1> QED BY <1>1, <1>6, SteadyListing

\* A step that leaves the index alone and takes nothing from SY.timer.
LEMMA ScriptQuiet ==
    ASSUME CoreInv, TimesOk, ListingOk, BackedOk, NEW do, Acting(do), do /= "forget",
           UNCHANGED <<now, up, agenda, degraded, listing, registry, received, fires, index>>,
           work'.at = "act", work'.inst = work.inst,
           lost \subseteq lost', strayed \subseteq strayed', DOMAIN armed \subseteq DOMAIN armed'
    PROVE  ListingOk' /\ BackedOk'
<1>1. PICK u : u = Timer
  OBVIOUS
<1>2. ASSUME u \in DOMAIN index' PROVE Treated(u)
  <2>1. CASE Live(u)
    <3>1. ~Forgetting(u)
      BY <1>2, ForgettingIs
    <3>2. Backed(u) => Backed(u)'
      BY DEF Backed
    <3> QED BY <1>2, <2>1, <3>1, <3>2 DEF Treated, Same
  <2>2. Acts /\ u[1] = work.inst
    BY <1>1 DEF Acting, Acts, Timer
  <2> QED BY <2>1, <2>2 DEF Live
<1>3. ScriptMove(do, u)
  BY <1>1, <1>2 DEF ScriptMove
<1> QED BY <1>3, ScriptBacked

\* ScheduleIn, ScheduleAt: every timer stays backed or accounted for.
LEMMA SendScheduleBacked ==
    ASSUME CoreInv, TimesOk, ListingOk, BackedOk, SendSchedule
    PROVE  ListingOk' /\ BackedOk'
<1>1. Acting("schedule")
  BY DEF SendSchedule
<1>2. IsAct(work)
  BY <1>1, ActingIs
<1>3. work'.at = "act" /\ work'.inst = work.inst
  BY <1>2 DEF SendSchedule, IsAct
<1>4. PICK u : u = Timer
  OBVIOUS
<1>5. /\ UNCHANGED <<now, up, agenda, degraded, listing, registry, received, fires, index, strayed>>
      /\ lost' = IF u \in DOMAIN armed' THEN lost ELSE lost \cup {u}
  BY <1>4 DEF SendSchedule, store, RequestSchedule
<1>6. DOMAIN armed \subseteq DOMAIN armed'
  BY DEF SendSchedule, RequestSchedule, Request, Scheduled, With
<1>7. Treated(u)
  BY <1>5 DEF Treated, Backed
<1>8. ScriptMove("schedule", u)
  BY <1>1, <1>3, <1>5, <1>6, <1>7 DEF ScriptMove
<1> QED BY <1>8, ScriptBacked

\* RescheduleTimer: every timer stays backed or accounted for.
LEMMA SendRescheduleBacked ==
    ASSUME CoreInv, TimesOk, ListingOk, BackedOk, SendReschedule
    PROVE  ListingOk' /\ BackedOk'
<1>1. Acting("reschedule")
  BY DEF SendReschedule
<1>2. IsAct(work)
  BY <1>1, ActingIs
<1>3. work'.at = "act" /\ work'.inst = work.inst
  BY <1>2 DEF SendReschedule, IsAct
<1>4. DOMAIN armed \subseteq DOMAIN armed'
  BY DEF SendReschedule, Request, Moved, With
<1> QED BY <1>1, <1>3, <1>4, ScriptQuiet DEF SendReschedule, store, history

\* RegisterTimer: every timer stays backed or accounted for.
LEMMA RegisterBacked ==
    ASSUME CoreInv, TimesOk, ListingOk, BackedOk, Register
    PROVE  ListingOk' /\ BackedOk'
<1>1. Acting("register")
  BY DEF Register
<1>2. IsAct(work)
  BY <1>1, ActingIs
<1>3. work'.at = "act" /\ work'.inst = work.inst
  BY <1>2 DEF Register, IsAct
<1>4. PICK u : u = Timer
  OBVIOUS
<1>5. PICK r : r = [scheduled |-> now, fire_at |-> work.fire_at]
  OBVIOUS
<1>6. /\ UNCHANGED <<now, up, agenda, degraded, listing, registry, received, fires, armed, lost>>
      /\ index' = With(index, u, r)
      /\ strayed' = IF Backed(u) THEN strayed ELSE strayed \cup {u}
  BY <1>4, <1>5 DEF Register, timers
<1>7. /\ DOMAIN index' = DOMAIN index \cup {u} /\ index'[u] = r
      /\ \A t \in DOMAIN index : t /= u => index'[t] = index[t]
  BY <1>6 DEF With
<1>8. Treated(u)
  BY <1>6 DEF Treated, Backed
<1>9. u[1] \in received /\ r.scheduled \in 0 .. now
  BY <1>2, <1>4, <1>5 DEF Timer, IsAct, TimesOk
<1>10. ScriptMove("register", u)
  BY <1>1, <1>3, <1>6, <1>7, <1>8, <1>9 DEF ScriptMove
<1> QED BY <1>10, ScriptBacked

\* CancelTimer: every timer stays backed or accounted for.
LEMMA SendCancelBacked ==
    ASSUME CoreInv, TimesOk, ListingOk, BackedOk, SendCancel
    PROVE  ListingOk' /\ BackedOk'
<1>1. Acting("cancel")
  BY DEF SendCancel
<1>2. IsAct(work) /\ Rest \in Seq(Steps)
  BY <1>1, ActingIs
<1>3. PICK u : u = Timer
  OBVIOUS
<1>4. u[1] = work.inst
  BY <1>3 DEF Timer
<1>5. PICK todo : todo = <<<<"forget", u[2]>>>> \o Rest
  OBVIOUS
<1>6. todo /= << >> /\ Head(todo) = <<"forget", u[2]>>
  BY <1>2, <1>5
<1>7. work' = [work EXCEPT !.todo = todo]
  BY <1>3, <1>5 DEF SendCancel
<1>8. work'.at = "act" /\ work'.inst = work.inst /\ work'.todo = todo
  BY <1>2, <1>7 DEF IsAct
<1>9. UNCHANGED <<now, up, agenda, degraded, listing, registry, received, fires, index, lost, strayed>>
  BY DEF SendCancel, store, history
<1>10. \A t \in DOMAIN armed : t = u \/ t \in DOMAIN armed'
  BY <1>3 DEF SendCancel, Request, Without
<1>11. Forgetting(u)'
  BY <1>4, <1>6, <1>8 DEF Forgetting, Acts
<1>12. ScriptMove("cancel", u)
  BY <1>1, <1>8, <1>9, <1>10, <1>11 DEF ScriptMove, Treated
<1> QED BY <1>12, ScriptBacked

\* DeleteTimer: every timer stays backed or accounted for.
LEMMA ForgetBacked ==
    ASSUME CoreInv, TimesOk, ListingOk, BackedOk, Forget
    PROVE  ListingOk' /\ BackedOk'
<1>1. Acting("forget")
  BY DEF Forget
<1>2. IsAct(work)
  BY <1>1, ActingIs
<1>3. work'.at = "act" /\ work'.inst = work.inst
  BY <1>2 DEF Forget, IsAct
<1>4. PICK u : u = Timer
  OBVIOUS
<1>5. UNCHANGED <<now, up, agenda, degraded, listing, registry, received, fires, armed, lost, strayed>>
  BY DEF Forget, timers, history
<1>6. DOMAIN index' = DOMAIN index \ {u} /\ \A t \in DOMAIN index' : index'[t] = index[t]
  BY <1>4 DEF Forget, Without
<1>7. ScriptMove("forget", u)
  BY <1>1, <1>3, <1>4, <1>5, <1>6 DEF ScriptMove
<1> QED BY <1>7, ScriptBacked

\* A timer action that is skipped: every timer stays backed or accounted for.
LEMMA SkipBacked ==
    ASSUME CoreInv, TimesOk, ListingOk, BackedOk, SkipTimerAction
    PROVE  ListingOk' /\ BackedOk'
<1>1. PICK do : Acting(do)
  BY DEF SkipTimerAction
<1>2. IsAct(work)
  BY <1>1, ActingIs
<1>3. work'.at = "act" /\ work'.inst = work.inst
  BY <1>2 DEF SkipTimerAction, IsAct
<1>4. UNCHANGED <<now, up, agenda, degraded, listing, registry, received, fires, armed, index, strayed>>
  BY DEF SkipTimerAction, timers, store
<1>5. CASE UNCHANGED lost /\ (Acting("schedule") \/ Acting("cancel") \/ Acting("reschedule"))
  BY <1>3, <1>4, <1>5, ScriptQuiet
<1>6. CASE lost' = lost \cup {Timer}
  <2>1. PICK u : u = Timer
    OBVIOUS
  <2>2. Treated(u)
    BY <1>6, <2>1 DEF Treated
  <2>3. ScriptMove(do, u)
    BY <1>1, <1>3, <1>4, <1>6, <2>1, <2>2 DEF ScriptMove
  <2> QED BY <2>3, ScriptBacked
<1> QED BY <1>5, <1>6 DEF SkipTimerAction

\* A message that is sent: every timer stays backed or accounted for.
LEMMA SendBacked ==
    ASSUME CoreInv, TimesOk, ListingOk, BackedOk, Send
    PROVE  ListingOk' /\ BackedOk'
<1>1. PICK do : Acting(do) /\ do /= "forget"
  BY DEF Send
<1>2. IsAct(work)
  BY <1>1, ActingIs
<1>3. PICK emitted : work' = [work EXCEPT !.todo = Rest, !.emitted = emitted]
  BY DEF Send
<1>4. work'.at = "act" /\ work'.inst = work.inst
  BY <1>2, <1>3 DEF IsAct
<1> QED BY <1>1, <1>4, ScriptQuiet DEF Send, timers, store, history

\* A transition that ends the instance: every timer stays backed or accounted for.
LEMMA EndBacked ==
    ASSUME CoreInv, TimesOk, ListingOk, BackedOk, End
    PROVE  ListingOk' /\ BackedOk'
<1>1. PICK do : Acting(do)
  BY DEF End
<1>2. IsAct(work)
  BY <1>1, ActingIs
<1>3. PICK cancels : work' = [work EXCEPT !.todo = cancels, !.emitted = FALSE, !.status = "ended"]
  BY DEF End
<1>4. work'.at = "act" /\ work'.inst = work.inst
  BY <1>2, <1>3 DEF IsAct
<1>5. UNCHANGED <<now, up, agenda, degraded, listing, registry, received, fires, armed, index, strayed>>
  BY DEF End, timers, store
<1>6. CASE UNCHANGED lost /\ \E other : Acting(other) /\ other /= "forget"
  BY <1>4, <1>5, <1>6, ScriptQuiet
<1>7. CASE lost' = lost \cup {Timer}
  <2>1. PICK u : u = Timer
    OBVIOUS
  <2>2. Treated(u)
    BY <1>7, <2>1 DEF Treated
  <2>3. ScriptMove(do, u)
    BY <1>1, <1>4, <1>5, <1>7, <2>1, <2>2 DEF ScriptMove
  <2> QED BY <2>3, ScriptBacked
<1> QED BY <1>6, <1>7 DEF End

\* A list of timers that fails: every timer stays backed or accounted for.
LEMMA CancelNoneBacked ==
    ASSUME CoreInv, TimesOk, ListingOk, BackedOk, CancelNone
    PROVE  ListingOk' /\ BackedOk'
<1>1. Acting("cancel")
  BY DEF CancelNone
<1>2. IsAct(work)
  BY <1>1, ActingIs
<1>3. work'.at = "act" /\ work'.inst = work.inst
  BY <1>2 DEF CancelNone, IsAct
<1> QED BY <1>1, <1>3, ScriptQuiet DEF CancelNone, timers, store, history

----------------------------------------------------------------------------
(* Steps beside a transition. *)

\* A step that leaves what runs alone.
LEMMA StillTreated ==
    ASSUME NEW t \in DOMAIN index, index'[t] = index[t], UNCHANGED <<work, registry, agenda>>, Live(t)',
           Backed(t) => Backed(t)'
    PROVE  Treated(t)
<1>1. Live(t) /\ (Forgetting(t)' <=> Forgetting(t))
  BY DEF Live, Forgetting, Acts
<1> QED BY <1>1 DEF Treated, Same

\* Between two transitions no timer is being forgotten.
LEMMA IdleForgets ==
    ASSUME work = Idle \/ work.at = "drain" \/ Ready, NEW t
    PROVE  ~Forgetting(t)
BY DEF Forgetting, Acts, Idle, Ready

\* The timers of ended instances go, and no others.
LEMMA CancelStoredTimers ==
    ASSUME NEW S, CancelStored(S)
    PROVE  \A t \in DOMAIN index' : /\ t \in DOMAIN index /\ index'[t] = index[t]
                                    /\ t \in DOMAIN armed => t \in DOMAIN armed'
<1>1. PICK gone : gone = UNION {TimersOf(i) : i \in S}
  OBVIOUS
<1>2. PICK reached \in SUBSET gone : index' = Without(index, gone) /\ armed' = Without(armed, reached)
  BY <1>1 DEF CancelStored
<1> QED BY <1>2 DEF Without

\* The clock, fires and timers, messages that fail, instances that go from the store.
LEMMA BesideBacked ==
    ASSUME CoreInv, TimesOk, ListingOk, BackedOk,
           UNCHANGED <<up, registry, work, agenda, degraded, listing>>,
           now' \in Nat, now <= now', received \subseteq received',
           lost \subseteq lost', strayed \subseteq strayed',
           \A t \in DOMAIN index' : t \in DOMAIN index /\ index'[t] = index[t],
           \A t \in DOMAIN index' : Backed(t) => Backed(t)' \/ t \in lost'
    PROVE  ListingOk' /\ BackedOk'
<1>1. Steady
  BY DEF Steady, TimesOk
<1>2. ASSUME NEW t \in DOMAIN index', Live(t)' PROVE Treated(t)
  <2>1. CASE t \in lost'
    BY <2>1 DEF Treated
  <2>2. CASE t \notin lost'
    BY <1>2, <2>2, StillTreated
  <2> QED BY <2>1, <2>2
<1>3. BackedOk'
  BY <1>1, <1>2, SteadyBacked
<1> QED BY <1>1, <1>3, SteadyListing

\* The clock, SY.timer, a message that cannot be journaled and the collector.
LEMMA OutsideBacked ==
    ASSUME CoreInv, TimesOk, ListingOk, BackedOk,
           \/ Tick
           \/ \E fire \in fires : FireLost(fire)
           \/ \E t \in Timers : TimerFires(t) \/ TimerLost(t)
           \/ \E m \in Messages : ReceiveFails(m)
           \/ \E i \in Messages : Collect(i)
    PROVE  ListingOk' /\ BackedOk'
<1>0. now \in Nat
  BY DEF TimesOk
<1>1. CASE Tick
  <2>1. now' = now + 1 /\ UNCHANGED <<index, armed, fires, up, registry, work, agenda, degraded, listing, received, lost, strayed>>
    BY <1>1 DEF Tick, store, memory, timers, history
  <2>2. now' \in Nat /\ now <= now'
    BY <1>0, <2>1
  <2> QED BY <2>1, <2>2, BesideBacked DEF Backed
<1>2. CASE \E fire \in fires : FireLost(fire)
  <2>1. PICK fire \in fires : FireLost(fire)
    BY <1>2
  <2>2. /\ UNCHANGED <<now, index, armed, up, registry, work, agenda, degraded, listing, received, strayed>>
        /\ fires' = fires \ {fire} /\ lost' = lost \cup {fire.timer}
    BY <2>1 DEF FireLost, store, memory
  <2>3. \A t : Backed(t) => Backed(t)' \/ t \in lost'
    BY <2>2 DEF Backed
  <2> QED BY <1>0, <2>2, <2>3, BesideBacked
<1>3. CASE \E t \in Timers : TimerFires(t)
  <2>1. PICK u \in Timers : TimerFires(u)
    BY <1>3
  <2>2. /\ UNCHANGED <<now, index, up, registry, work, agenda, degraded, listing, received, strayed, lost>>
        /\ armed' = Without(armed, {u}) /\ fires' = fires \cup {[timer |-> u, scheduled |-> armed[u]]}
    BY <2>1 DEF TimerFires, store, memory, history
  <2>3. DOMAIN armed' = DOMAIN armed \ {u}
    BY <2>2 DEF Without
  <2>4. PICK f : f = [timer |-> u, scheduled |-> armed[u]]
    OBVIOUS
  <2>5. f.timer = u /\ f \in fires' /\ fires \subseteq fires'
    BY <2>2, <2>4
  <2>6. \A t : Backed(t) => Backed(t)'
    BY <2>3, <2>5 DEF Backed
  <2> QED BY <1>0, <2>2, <2>6, BesideBacked
<1>4. CASE \E t \in Timers : TimerLost(t)
  <2>1. PICK u \in Timers : TimerLost(u)
    BY <1>4
  <2>2. /\ UNCHANGED <<now, index, fires, up, registry, work, agenda, degraded, listing, received, strayed>>
        /\ armed' = Without(armed, {u}) /\ lost' = lost \cup {u}
    BY <2>1 DEF TimerLost, store, memory
  <2>3. DOMAIN armed' = DOMAIN armed \ {u}
    BY <2>2 DEF Without
  <2>4. \A t : Backed(t) => Backed(t)' \/ t \in lost'
    BY <2>2, <2>3 DEF Backed
  <2> QED BY <1>0, <2>2, <2>4, BesideBacked
<1>5. CASE \E m \in Messages : ReceiveFails(m)
  <2>1. /\ UNCHANGED <<now, index, armed, fires, up, registry, work, agenda, degraded, listing, lost, strayed>>
        /\ received \subseteq received'
    BY <1>5 DEF ReceiveFails, store, memory, timers
  <2> QED BY <1>0, <2>1, BesideBacked DEF Backed
<1>6. CASE \E i \in Messages : Collect(i)
  <2>1. /\ UNCHANGED <<now, armed, fires, up, registry, work, agenda, degraded, listing, received, lost, strayed>>
        /\ \A t \in DOMAIN index' : t \in DOMAIN index /\ index'[t] = index[t]
    BY <1>6 DEF Collect, memory, timers, history, Without
  <2> QED BY <1>0, <2>1, BesideBacked DEF Backed
<1> QED BY <1>1, <1>2, <1>3, <1>4, <1>5, <1>6

----------------------------------------------------------------------------
(* A transition begins or ends. *)

\* The beginning and the end of a transition.
LEMMA TurnBacked ==
    ASSUME CoreInv, TimesOk, ListingOk, BackedOk,
           work = Idle \/ work.at = "drain" \/ Ready,
           UNCHANGED <<now, up, degraded, listing, fires>>, received \subseteq received',
           agenda' \subseteq agenda, \A k \in agenda \ agenda' : k.do = "drain",
           lost \subseteq lost', strayed \subseteq strayed',
           \A t \in DOMAIN index' : /\ t \in DOMAIN index /\ index'[t] = index[t]
                                    /\ t \in DOMAIN armed => t \in DOMAIN armed'
                                    /\ Live(t)' => Live(t)
    PROVE  ListingOk' /\ BackedOk'
<1>1. Steady
  BY DEF Steady, TimesOk
<1>2. ASSUME NEW t \in DOMAIN index', Live(t)' PROVE Same(t)
  <2>1. ~Forgetting(t)
    BY IdleForgets
  <2>2. Backed(t) => Backed(t)'
    BY <1>2 DEF Backed
  <2> QED BY <1>2, <2>1, <2>2 DEF Same
<1>3. BackedOk'
  BY <1>1, <1>2, SteadyBacked DEF Treated
<1> QED BY <1>1, <1>3, SteadyListing

\* Commit: every timer stays backed or accounted for.
LEMMA CommitBacked ==
    ASSUME CoreInv, TimesOk, ListingOk, BackedOk, Commit \/ CommitFails
    PROVE  ListingOk' /\ BackedOk'
<1>1. /\ UNCHANGED <<now, up, degraded, listing, fires, armed, index, received, agenda, lost, strayed>>
      /\ Ready
  BY DEF Commit, CommitFails, store, timers, history
<1>2. DOMAIN registry' \subseteq DOMAIN registry \cup {work.inst}
  BY DEF Commit, CommitFails, Settled, With, Without
<1>3. ~Acts'
  <2>1. work.at = "act" /\ (work' = Idle \/ work' = [work EXCEPT !.at = "drain"])
    BY DEF Commit, CommitFails, Ready
  <2>2. IsAct(work)
    BY <2>1 DEF CoreInv, WorkOk, Idle
  <2> QED BY <2>1, <2>2 DEF Acts, Idle, IsAct
<1>4. \A t : Live(t)' => Live(t)
  BY <1>1, <1>2, <1>3 DEF Live, Acts, Ready
<1> QED BY <1>1, <1>4, TurnBacked

\* An internal event: every timer stays backed or accounted for.
LEMMA DrainBacked ==
    ASSUME CoreInv, TimesOk, ListingOk, BackedOk, Drain
    PROVE  ListingOk' /\ BackedOk'
<1>1. /\ UNCHANGED <<now, up, degraded, listing, fires, received, agenda, lost, strayed>>
      /\ work.at = "drain"
  BY DEF Drain
<1>2. work.inst \in DOMAIN registry
  BY <1>1 DEF CoreInv, RegistryOk
<1>3. CASE UNCHANGED <<index, registry, armed>> /\ (work' = Idle \/ work'.inst = work.inst)
  <2>1. \A t : Live(t)' => Live(t)
    BY <1>2, <1>3 DEF Live, Acts, Idle
  <2> QED BY <1>1, <1>3, <2>1, TurnBacked
<1>4. CASE FailInStore(work.inst) /\ work' = Idle
  <2>1. \A t : Live(t)' => Live(t)
    BY <1>4 DEF Live, Acts, Idle, FailInStore, Without
  <2>2. \A t \in DOMAIN index' : /\ t \in DOMAIN index /\ index'[t] = index[t]
                                 /\ t \in DOMAIN armed => t \in DOMAIN armed'
    BY <1>4, CancelStoredTimers DEF FailInStore
  <2> QED BY <1>1, <2>1, <2>2, TurnBacked
<1> QED BY <1>3, <1>4 DEF Drain, Begin

\* An instance that is drained at a start: every timer stays backed or accounted for.
LEMMA DrainRecoveredBacked ==
    ASSUME CoreInv, TimesOk, ListingOk, BackedOk, NEW task \in agenda, DrainRecovered(task)
    PROVE  ListingOk' /\ BackedOk'
<1>1. /\ UNCHANGED <<now, up, degraded, listing, fires, armed, index, registry, received, lost, strayed>>
      /\ work = Idle /\ agenda' = agenda \ {task} /\ task.do = "drain" /\ work'.at = "drain"
  BY DEF DrainRecovered, Due, store, timers, history
<1>2. \A t : Live(t)' => Live(t)
  BY <1>1 DEF Live, Acts
<1> QED BY <1>1, <1>2, TurnBacked

\* An instance that is closed: every timer stays backed or accounted for.
LEMMA CloseBacked ==
    ASSUME CoreInv, TimesOk, ListingOk, BackedOk, NEW i, Close(i)
    PROVE  ListingOk' /\ BackedOk'
<1>1. /\ UNCHANGED <<now, up, degraded, listing, fires, armed, index, registry, received, agenda, lost, strayed>>
      /\ work = Idle /\ i \in DOMAIN registry /\ work'.inst = i
  BY DEF Close, Loop, store, timers, history
<1>2. \A t : Live(t)' => Live(t)
  BY <1>1 DEF Live, Acts
<1> QED BY <1>1, <1>2, TurnBacked

\* A message that is journaled: every timer stays backed or accounted for.
LEMMA ReceiveBacked ==
    ASSUME CoreInv, TimesOk, ListingOk, BackedOk, NEW m \in Messages, Receive(m)
    PROVE  ListingOk' /\ BackedOk'
<1>1. /\ UNCHANGED <<now, up, degraded, listing, fires, armed, index, registry, agenda, lost, strayed>>
      /\ work = Idle /\ m \notin received /\ received \subseteq received'
  BY DEF Receive, Loop, timers
<1>2. work' = work \/ work'.inst = m \/ work'.inst \in DOMAIN registry
  <2>1. CASE \E i \in Holders(ThreadOf[m]) : Take(i, "event", Message(m))
    BY <2>1 DEF Take, Begin, Holders
  <2>2. CASE Take(m, "create", Message(m))
    BY <2>2 DEF Take, Begin
  <2>3. CASE work' = work
    BY <2>3
  <2> QED BY <2>1, <2>2, <2>3 DEF Receive
<1>3. \A t \in DOMAIN index : t[1] /= m
  BY <1>1 DEF ListingOk
<1>4. \A t \in DOMAIN index : Live(t)' => Live(t)
  BY <1>1, <1>2, <1>3 DEF Live, Acts
<1> QED BY <1>1, <1>4, TurnBacked

----------------------------------------------------------------------------
(* Fires, and the tasks of a reconciliation. *)

\* A timer scheduled again is with SY.timer, or known to be lost.
LEMMA AgainTreats ==
    ASSUME NEW t \in DOMAIN index, NEW since, ScheduleAgain(t, since)
    PROVE  /\ DOMAIN index' = DOMAIN index /\ \A u \in DOMAIN index : u /= t => index'[u] = index[u]
           /\ index'[t] = index[t] \/ index'[t].scheduled = since
           /\ DOMAIN armed \subseteq DOMAIN armed' /\ lost \subseteq lost'
           /\ t \in DOMAIN armed' \cup lost'
<1>1. CASE \E at : RequestSchedule(t, at) /\ index' = [index EXCEPT ![t] = [scheduled |-> since, fire_at |-> at]]
  <2>1. PICK at : RequestSchedule(t, at) /\ index' = [index EXCEPT ![t] = [scheduled |-> since, fire_at |-> at]]
    BY <1>1
  <2>2. PICK r : r = [scheduled |-> since, fire_at |-> at]
    OBVIOUS
  <2>3. index' = [index EXCEPT ![t] = r] /\ r.scheduled = since
    BY <2>1, <2>2
  <2>4. DOMAIN armed \subseteq DOMAIN armed'
    BY <2>1 DEF RequestSchedule, Request, Scheduled, With
  <2>5. lost \subseteq lost' /\ t \in DOMAIN armed' \cup lost'
    BY <2>1 DEF RequestSchedule
  <2> QED BY <2>3, <2>4, <2>5
<1>2. CASE lost' = lost \cup {t} /\ UNCHANGED <<armed, index>>
  BY <1>2
<1> QED BY <1>1, <1>2 DEF ScheduleAgain

\* A step of the loop on the timer u, with the task that asked for it done.
OneTimer(u) ==
    /\ work = Idle /\ (work' = work \/ (u[1] \in DOMAIN registry /\ work'.inst = u[1]))
    /\ UNCHANGED <<now, up, registry, degraded, listing, received>>
    /\ \A k \in agenda' : k \in agenda \/ k.do = "settle"
    /\ agenda = {} => agenda' = {}
    /\ \A k \in agenda \ agenda' : /\ k.do \notin {"list", "reconcile"}
                                   /\ k.do = "timer" => k.timer = u
    /\ lost \subseteq lost' /\ strayed \subseteq strayed'
    /\ DOMAIN index' \subseteq DOMAIN index /\ \A t \in DOMAIN index' : t /= u => index'[t] = index[t]
    /\ \A t : t /= u => (Backed(t) => Backed(t)')
    /\ u \in DOMAIN index' => index'[u] = index[u] \/ index'[u].scheduled \in 0 .. now
    /\ u \in DOMAIN index' /\ Live(u)' => Treated(u)

\* A step about one timer keeps every timer backed or accounted for.
LEMMA OneTimerBacked ==
    ASSUME CoreInv, TimesOk, ListingOk, BackedOk, NEW u, OneTimer(u)
    PROVE  ListingOk' /\ BackedOk'
<1>1. \A t \in DOMAIN index : t[1] \in received
  BY DEF ListingOk
<1>2. Steady
  BY <1>1 DEF Steady, OneTimer, TimesOk
<1>3. ASSUME NEW t \in DOMAIN index', Live(t)', t /= u PROVE Same(t)
  <2>1. Live(t)
    BY <1>3 DEF Live, Acts, OneTimer, Idle
  <2>2. ~Forgetting(t)
    BY IdleForgets DEF OneTimer
  <2> QED BY <1>3, <2>1, <2>2 DEF Same, OneTimer
<1>4. \A t \in DOMAIN index' : Live(t)' => Treated(t)
  BY <1>3 DEF Treated, OneTimer
<1>5. BackedOk'
  BY <1>2, <1>4, SteadyBacked DEF OneTimer
<1> QED BY <1>2, <1>5, SteadyListing

\* TIMER_FIRED: every timer stays backed or accounted for.
LEMMA FireArrivesBacked ==
    ASSUME CoreInv, TimesOk, ListingOk, BackedOk, NEW fire \in fires, FireArrives(fire)
    PROVE  ListingOk' /\ BackedOk'
<1>0. now \in Nat /\ work = Idle
  BY LoopLate DEF TimesOk, FireArrives
<1>1. /\ UNCHANGED <<now, up, registry, agenda, degraded, listing, received, strayed>>
      /\ fires' = fires \ {fire}
  BY DEF FireArrives
<1>2. PICK u : u = fire.timer
  OBVIOUS
<1>3. ASSUME DOMAIN armed \subseteq DOMAIN armed' PROVE \A t : t /= u => (Backed(t) => Backed(t)')
  BY <1>1, <1>2, <1>3 DEF Backed
<1>4. CASE TakeFire(u) /\ u[1] \in DOMAIN registry /\ UNCHANGED <<armed, lost>>
  <2>1. DOMAIN index' = DOMAIN index \ {u} /\ \A t \in DOMAIN index' : index'[t] = index[t]
    BY <1>4 DEF TakeFire, Without
  <2>2. work'.inst = u[1]
    BY <1>4 DEF TakeFire, Take, Begin
  <2>3. OneTimer(u)
    BY <1>0, <1>1, <1>3, <1>4, <2>1, <2>2 DEF OneTimer
  <2> QED BY <2>3, OneTimerBacked
<1>5. CASE u \in DOMAIN index /\ ScheduleAgain(u, now) /\ UNCHANGED work
  <2>1. /\ DOMAIN index' = DOMAIN index /\ \A t \in DOMAIN index : t /= u => index'[t] = index[t]
        /\ index'[u] = index[u] \/ index'[u].scheduled = now
        /\ DOMAIN armed \subseteq DOMAIN armed' /\ lost \subseteq lost'
        /\ u \in DOMAIN armed' \cup lost'
    BY <1>5, AgainTreats
  <2>2. Treated(u)
    BY <2>1 DEF Treated, Backed
  <2>3. OneTimer(u)
    BY <1>0, <1>1, <1>3, <1>5, <2>1, <2>2 DEF OneTimer
  <2> QED BY <2>3, OneTimerBacked
<1>6. CASE (u[1] \notin DOMAIN registry \/ u \notin DOMAIN index) /\ UNCHANGED <<work, index, armed, lost>>
  <2>1. ~(u \in DOMAIN index' /\ Live(u)')
    BY <1>0, <1>1, <1>6 DEF Live, Acts, Idle
  <2>2. OneTimer(u)
    BY <1>0, <1>1, <1>3, <1>6, <2>1 DEF OneTimer
  <2> QED BY <2>2, OneTimerBacked
<1> QED BY <1>2, <1>4, <1>5, <1>6 DEF FireArrives

\* A timer of the index that is reconciled: every timer stays backed or accounted for.
LEMMA ReconcileTimerBacked ==
    ASSUME CoreInv, TimesOk, ListingOk, BackedOk, NEW task \in agenda, ReconcileTimer(task)
    PROVE  ListingOk' /\ BackedOk'
<1>0. now \in Nat /\ work = Idle /\ up /\ Late
  BY DueLate DEF TimesOk, ReconcileTimer
<1>1. /\ UNCHANGED <<now, up, registry, degraded, listing, received, strayed, fires>>
      /\ task.do = "timer"
  BY DEF ReconcileTimer, Due
<1>2. PICK u : u = task.timer
  OBVIOUS
<1>3. /\ \A k \in agenda' : k \in agenda \/ k.do = "settle"
      /\ agenda \ {task} \subseteq agenda'
  BY <1>2 DEF ReconcileTimer
<1>4. ASSUME DOMAIN armed \subseteq DOMAIN armed' PROVE \A t : Backed(t) => Backed(t)'
  BY <1>1, <1>4 DEF Backed
<1>5. \A t : ~Forgetting(t)
  BY <1>0, IdleForgets
<1>6. ASSUME UNCHANGED <<index, armed, lost, work>>,
             u \in DOMAIN index /\ Live(u) => \/ task.sy_at /= -1
                                              \/ index[u].fire_at /= task.fire_at
                                              \/ ~(index[u].scheduled <= task.asked)
      PROVE  ListingOk' /\ BackedOk'
  <2>1. Steady
    BY <1>0, <1>1, <1>3, <1>6 DEF Steady
  <2>2. ASSUME NEW t \in DOMAIN index', Live(t)' PROVE Backed(t)' \/ Accounted(t)'
    <3>1. t \in DOMAIN index /\ Live(t) /\ (Backed(t) => Backed(t)')
      BY <1>1, <1>4, <1>6, <2>2 DEF Live, Acts
    <3>2. Backed(t) \/ t \in lost \cup strayed \/ StartPending \/ OnAgenda(t) \/ ToBeListed(t)
      BY <1>0, <1>5, <3>1 DEF BackedOk, Accounted
    <3>3. StartPending => StartPending'
      BY <1>1, <1>3 DEF StartPending
    <3>4. OnAgenda(t) => OnAgenda(t)'
      <4>1. SUFFICES ASSUME OnAgenda(t) PROVE OnAgenda(t)'
        OBVIOUS
      <4>2. PICK k \in agenda : /\ k.do = "timer" /\ k.timer = t /\ k.sy_at = -1
                                /\ k.fire_at = index[t].fire_at /\ index[t].scheduled <= k.asked
        BY <4>1 DEF OnAgenda
      <4>3. k /= task
        BY <1>2, <1>6, <3>1, <4>2
      <4>4. k \in agenda'
        BY <1>3, <4>3
      <4> QED BY <1>6, <4>2, <4>4 DEF OnAgenda
    <3>5. ToBeListed(t) => ToBeListed(t)'
      BY <1>1, <1>6 DEF ToBeListed
    <3>6. t \in lost \cup strayed => t \in lost' \cup strayed'
      BY <1>1, <1>6
    <3> QED BY <3>1, <3>2, <3>3, <3>4, <3>5, <3>6 DEF Accounted
  <2>3. BackedOk'
    BY <2>2 DEF BackedOk
  <2> QED BY <2>1, <2>3, SteadyListing
<1>7. ASSUME \A t : t /= u => (Backed(t) => Backed(t)'),
             work' = work \/ (u[1] \in DOMAIN registry /\ work'.inst = u[1]),
             lost \subseteq lost',
             DOMAIN index' \subseteq DOMAIN index, \A t \in DOMAIN index' : t /= u => index'[t] = index[t],
             u \in DOMAIN index' => index'[u] = index[u] \/ index'[u].scheduled \in 0 .. now,
             u \in DOMAIN index' => Treated(u)
      PROVE  ListingOk' /\ BackedOk'
  <2>1. OneTimer(u)
    BY <1>0, <1>1, <1>2, <1>3, <1>7 DEF OneTimer
  <2> QED BY <2>1, OneTimerBacked
<1>8. CASE /\ \/ ~(/\ u \in DOMAIN index
                   /\ index[u].fire_at = task.fire_at /\ index[u].scheduled <= task.asked)
              \/ task.sy_at /= -1
           /\ UNCHANGED <<index, armed, lost, work>>
  BY <1>6, <1>8
<1>9. CASE TakeFire(u) /\ u[1] \in DOMAIN registry /\ UNCHANGED <<armed, lost>>
  <2>1. DOMAIN index' = DOMAIN index \ {u} /\ \A t \in DOMAIN index' : index'[t] = index[t]
    BY <1>9 DEF TakeFire, Without
  <2>2. work'.inst = u[1]
    BY <1>9 DEF TakeFire, Take, Begin
  <2> QED BY <1>4, <1>7, <1>9, <2>1, <2>2
<1>10. CASE lost' = lost \cup {u} /\ UNCHANGED <<index, armed, work>>
  <2>1. Treated(u)
    BY <1>10 DEF Treated
  <2> QED BY <1>4, <1>7, <1>10, <2>1
<1>11. CASE u \in DOMAIN index /\ ScheduleAgain(u, task.now) /\ UNCHANGED work
  <2>1. /\ DOMAIN index' = DOMAIN index /\ \A t \in DOMAIN index : t /= u => index'[t] = index[t]
        /\ index'[u] = index[u] \/ index'[u].scheduled = task.now
        /\ DOMAIN armed \subseteq DOMAIN armed' /\ lost \subseteq lost'
        /\ u \in DOMAIN armed' \cup lost'
    BY <1>11, AgainTreats
  <2>2. Treated(u)
    BY <2>1 DEF Treated, Backed
  <2>3. task.now \in 0 .. now
    BY <1>1 DEF ListingOk
  <2> QED BY <1>4, <1>7, <1>11, <2>1, <2>2, <2>3
<1>12. CASE index' = Without(index, {u}) /\ UNCHANGED <<armed, lost, work>>
  <2>1. DOMAIN index' = DOMAIN index \ {u} /\ \A t \in DOMAIN index' : index'[t] = index[t]
    BY <1>12 DEF Without
  <2> QED BY <1>4, <1>7, <1>12, <2>1
<1> QED BY <1>2, <1>8, <1>9, <1>10, <1>11, <1>12 DEF ReconcileTimer

\* A timer of SY.timer that the index has not: every timer stays backed or accounted for.
LEMMA SettleTimerBacked ==
    ASSUME CoreInv, TimesOk, ListingOk, BackedOk, NEW task \in agenda, SettleTimer(task)
    PROVE  ListingOk' /\ BackedOk'
<1>0. now \in Nat /\ work = Idle /\ up /\ Late
  BY DueLate DEF TimesOk, SettleTimer
<1>1. /\ UNCHANGED <<now, up, registry, degraded, listing, received, fires, index, work, lost>>
      /\ task.do \in {"settle", "orphan"} /\ agenda' = agenda \ {task}
  BY DEF SettleTimer, Due, store
<1>2. PICK u : u = task.timer
  OBVIOUS
<1>3. \A t \in DOMAIN armed : t = u \/ t \in DOMAIN armed'
  BY <1>2 DEF SettleTimer, Request, Without
<1>4. \A t : t /= u => (Backed(t) => Backed(t)')
  BY <1>1, <1>3 DEF Backed
<1>5. strayed \subseteq strayed'
  BY DEF SettleTimer
<1>6. ASSUME u \in DOMAIN index', Live(u)' PROVE Treated(u)
  <2>1. u \in DOMAIN index /\ Live(u) /\ ~Forgetting(u)
    BY <1>0, <1>1, <1>6, IdleForgets DEF Live, Acts
  <2>2. CASE task.do = "orphan"
    BY <1>2, <2>1, <2>2 DEF SettleTimer, Treated
  <2>3. CASE task.do = "settle"
    <3>1. armed' = armed
      BY <1>2, <2>1, <2>3 DEF SettleTimer
    <3>2. Backed(u) => Backed(u)'
      BY <1>1, <3>1 DEF Backed
    <3> QED BY <1>1, <2>1, <3>2 DEF Treated, Same
  <2> QED BY <1>1, <2>2, <2>3
<1>7. OneTimer(u)
  BY <1>0, <1>1, <1>4, <1>5, <1>6 DEF OneTimer
<1> QED BY <1>7, OneTimerBacked

----------------------------------------------------------------------------
(* The list of SY.timer's timers, and a start. *)

\* Every timer of the index that SY.timer's list does not have is a task.
LEMMA ReconciliationHas ==
    ASSUME NEW listed, NEW asked, agenda' = Reconciliation(listed, asked), UNCHANGED index,
           NEW t \in DOMAIN index, t \notin DOMAIN listed, index[t].scheduled <= asked
    PROVE  OnAgenda(t)'
<1>1. PICK k : k = [do |-> "timer", timer |-> t, fire_at |-> index[t].fire_at, asked |-> asked, now |-> now, sy_at |-> -1]
  OBVIOUS
<1>2. k \in agenda'
  <2>1. [do |-> "timer", timer |-> t, fire_at |-> index[t].fire_at, asked |-> asked, now |-> now,
         sy_at |-> IF t \in DOMAIN listed THEN listed[t] ELSE -1] \in Reconciliation(listed, asked)
    BY DEF Reconciliation
  <2> QED BY <1>1, <2>1
<1>3. k.do = "timer" /\ k.timer = t /\ k.sy_at = -1 /\ k.fire_at = index'[t].fire_at /\ index'[t].scheduled <= k.asked
  BY <1>1
<1> QED BY <1>2, <1>3 DEF OnAgenda

\* The tasks of a reconciliation are those of the list, at the time they are made.
LEMMA ReconciliationListing ==
    ASSUME NEW listed, NEW asked, agenda' = Reconciliation(listed, asked), TimesOk
    PROVE  /\ Replays' = {}
           /\ \A k \in agenda' : k.do = "timer" => k.now \in 0 .. now
<1>0. now \in Nat
  BY DEF TimesOk
<1>1. \A k \in agenda' : (k.do = "timer" /\ k.now = now) \/ k.do = "orphan"
  BY ReconciliationIs
<1> QED BY <1>0, <1>1 DEF Replays

\* A list that is asked for: every timer stays backed or accounted for.
LEMMA AskTimersBacked ==
    ASSUME CoreInv, TimesOk, ListingOk, BackedOk, AskTimers
    PROVE  ListingOk' /\ BackedOk'
<1>1. /\ UNCHANGED <<now, up, registry, work, agenda, degraded, index, armed, fires, received>>
      /\ degraded /\ listing' = [at |-> "asked", asked |-> now, before |-> lost]
  BY DEF AskTimers, store, timers
<1>2. listing'.at = "asked" /\ listing'.asked = now
  BY <1>1
<1>3. Replays' = Replays
  BY <1>1 DEF Replays
<1>4. ListingOk'
  BY <1>1, <1>2, <1>3 DEF ListingOk
<1>5. \A t \in DOMAIN index' : ToBeListed(t)'
  <2>1. \A t \in DOMAIN index : index[t].scheduled <= now
    BY DEF ListingOk, TimesOk
  <2> QED BY <1>1, <1>2, <2>1 DEF ToBeListed
<1> QED BY <1>4, <1>5 DEF BackedOk, Accounted

\* The list that SY.timer gives: every timer stays backed or accounted for.
LEMMA TimersListedBacked ==
    ASSUME CoreInv, TimesOk, ListingOk, BackedOk, TimersListed
    PROVE  ListingOk' /\ BackedOk'
<1>1. /\ UNCHANGED <<now, up, registry, work, agenda, degraded, index, armed, fires, received, strayed>>
      /\ up /\ degraded
  BY DEF TimersListed, store, timers, ListingOk, NoList
<1>2. Replays' = Replays
  BY <1>1 DEF Replays
<1>3. CASE listing' = [at |-> "listed", asked |-> listing.asked, before |-> listing.before, timers |-> armed] /\ UNCHANGED lost
  <2>1. listing'.at = "listed" /\ listing'.asked = listing.asked /\ listing'.timers = armed /\ listing /= NoList
    BY <1>3 DEF TimersListed, NoList
  <2>2. ListingOk'
    BY <1>1, <1>2, <2>1 DEF ListingOk
  <2>3. ASSUME NEW t \in DOMAIN index', Live(t)' PROVE Backed(t)' \/ Accounted(t)'
    <3>1. t \in DOMAIN index /\ Live(t) /\ (Backed(t)' <=> Backed(t))
      BY <1>1, <2>3 DEF Live, Acts, Backed
    <3>2. CASE Backed(t)
      BY <3>1, <3>2
    <3>3. CASE ~Backed(t)
      <4>1. Accounted(t) /\ t \notin DOMAIN armed
        BY <1>1, <3>1, <3>3 DEF BackedOk, Backed
      <4>2. Forgetting(t) => Forgetting(t)'
        BY <1>1 DEF Forgetting, Acts
      <4>3. (StartPending => StartPending') /\ (OnAgenda(t) => OnAgenda(t)')
        BY <1>1 DEF StartPending, OnAgenda
      <4>4. ToBeListed(t) => ToBeListed(t)'
        BY <1>1, <2>1, <4>1 DEF ToBeListed
      <4>5. t \in lost \cup strayed => t \in lost' \cup strayed'
        BY <1>1, <1>3
      <4> QED BY <4>1, <4>2, <4>3, <4>4, <4>5 DEF Accounted
    <3> QED BY <3>2, <3>3
  <2>4. BackedOk'
    BY <2>3 DEF BackedOk
  <2> QED BY <2>2, <2>4
<1>4. CASE listing' = NoList
  <2>1. ListingOk'
    BY <1>1, <1>2, <1>4 DEF ListingOk
  <2>2. \A t \in DOMAIN index' : ToBeListed(t)'
    BY <1>1, <1>4 DEF ToBeListed
  <2> QED BY <2>1, <2>2 DEF BackedOk, Accounted
<1> QED BY <1>3, <1>4 DEF TimersListed

\* A list of SY.timer that is taken: every timer stays backed or accounted for.
LEMMA TakeTimerListBacked ==
    ASSUME CoreInv, TimesOk, ListingOk, BackedOk, TakeTimerList
    PROVE  ListingOk' /\ BackedOk'
<1>0. work = Idle /\ up /\ agenda = {} /\ listing.at = "listed" /\ listing /= NoList
  BY LoopLate DEF TakeTimerList, NoList
<1>1. /\ UNCHANGED <<now, up, registry, work, index, armed, fires, received, strayed>>
      /\ degraded' = FALSE /\ listing' = NoList
      /\ \/ agenda' = Reconciliation(listing.timers, listing.asked) /\ lost' = lost
         \/ agenda' = {} /\ lost' = lost \cup DOMAIN index
  BY <1>0 DEF TakeTimerList, store, timers
<1>2. ListingOk'
  <2>1. Replays' = {} /\ \A k \in agenda' : k.do = "timer" => k.now \in 0 .. now
    <3>1. CASE agenda' = Reconciliation(listing.timers, listing.asked)
      BY <3>1, ReconciliationListing
    <3>2. CASE agenda' = {}
      BY <3>2 DEF Replays
    <3> QED BY <1>1, <3>1, <3>2
  <2> QED BY <1>1, <2>1 DEF ListingOk
<1>3. ASSUME NEW t \in DOMAIN index', Live(t)' PROVE Backed(t)' \/ Accounted(t)'
  <2>1. t \in DOMAIN index /\ Live(t) /\ (Backed(t)' <=> Backed(t)) /\ ~Forgetting(t)
    BY <1>0, <1>1, <1>3, IdleForgets DEF Live, Acts, Backed
  <2>2. ~StartPending /\ ~OnAgenda(t)
    BY <1>0 DEF StartPending, OnAgenda
  <2>3. Backed(t) \/ t \in lost \cup strayed \/ ToBeListed(t)
    BY <1>0, <2>1, <2>2 DEF BackedOk, Accounted
  <2>5. CASE lost' = lost \cup DOMAIN index
    BY <2>1, <2>5 DEF Accounted
  <2>4. ASSUME ToBeListed(t), agenda' = Reconciliation(listing.timers, listing.asked) PROVE OnAgenda(t)'
    <3>1. t \notin DOMAIN listing.timers /\ index[t].scheduled <= listing.asked
      BY <1>0, <2>4 DEF ToBeListed
    <3>2. PICK listed, asked : listed = listing.timers /\ asked = listing.asked
      OBVIOUS
    <3>3. agenda' = Reconciliation(listed, asked) /\ index' = index
      BY <1>1, <2>4, <3>2
    <3> QED BY <2>1, <3>1, <3>2, <3>3, ReconciliationHas
  <2> QED BY <1>1, <2>1, <2>3, <2>4, <2>5 DEF Accounted
<1>4. BackedOk'
  BY <1>3 DEF BackedOk
<1> QED BY <1>2, <1>4

\* The reconciliation of a start: every timer stays backed or accounted for.
LEMMA ReconcileBacked ==
    ASSUME CoreInv, TimesOk, ListingOk, BackedOk, NEW task \in agenda, Reconcile(task)
    PROVE  ListingOk' /\ BackedOk'
<1>0. work = Idle /\ up /\ ~degraded /\ listing = NoList
  BY DueLate DEF Reconcile, ListingOk
<1>1. UNCHANGED <<now, up, registry, work, index, armed, fires, received, listing>>
  BY DEF Reconcile, store, timers
<1>2. CASE agenda' = Reconciliation(armed, now) /\ UNCHANGED degraded
  <2>1. Replays' = {} /\ \A k \in agenda' : k.do = "timer" => k.now \in 0 .. now
    BY <1>2, ReconciliationListing
  <2>2. ListingOk'
    BY <1>0, <1>1, <1>2, <2>1 DEF ListingOk
  <2>3. ASSUME NEW t \in DOMAIN index', t \notin DOMAIN armed PROVE OnAgenda(t)'
    <3>1. t \in DOMAIN index /\ index[t].scheduled <= now
      BY <1>1, <2>3 DEF ListingOk, TimesOk
    <3> QED BY <1>1, <1>2, <2>3, <3>1, ReconciliationHas
  <2>4. BackedOk'
    BY <1>1, <2>3 DEF BackedOk, Accounted, Backed
  <2> QED BY <2>2, <2>4
<1>3. CASE agenda' = {} /\ degraded' = TRUE
  <2>1. Replays' = {}
    BY <1>3 DEF Replays
  <2>2. ListingOk'
    BY <1>0, <1>1, <1>3, <2>1 DEF ListingOk
  <2>3. \A t \in DOMAIN index' : ToBeListed(t)'
    BY <1>0, <1>1, <1>3 DEF ToBeListed
  <2> QED BY <2>2, <2>3 DEF BackedOk, Accounted
<1>4. CASE agenda' = {} /\ UNCHANGED degraded /\ lost' = lost \cup DOMAIN index
  <2>1. Replays' = {}
    BY <1>4 DEF Replays
  <2>2. ListingOk'
    BY <1>0, <1>1, <1>4, <2>1 DEF ListingOk
  <2> QED BY <1>1, <1>4, <2>2 DEF BackedOk, Accounted
<1> QED BY <1>2, <1>3, <1>4 DEF Reconcile

\* A crash: every timer stays backed or accounted for.
LEMMA StopBacked ==
    ASSUME ListingOk, Stop
    PROVE  ListingOk' /\ BackedOk'
<1>1. /\ ~up' /\ agenda' = {} /\ degraded' = FALSE /\ listing' = NoList
      /\ UNCHANGED <<now, index, received>>
  BY DEF Stop, store
<1>2. Replays' = {}
  BY <1>1 DEF Replays
<1> QED BY <1>1, <1>2 DEF ListingOk, BackedOk

\* A start: every timer stays backed or accounted for.
LEMMA StartBacked ==
    ASSUME CoreInv, TimesOk, ListingOk, Start
    PROVE  ListingOk' /\ BackedOk'
<1>1. /\ ~up /\ up' = TRUE /\ UNCHANGED <<now, degraded, listing, received>>
      /\ \E S : CancelStored(S) /\ [do |-> "list"] \in agenda'
  BY DEF Start
<1>2. \A t \in DOMAIN index' : t \in DOMAIN index /\ index'[t] = index[t]
  BY <1>1, CancelStoredTimers
<1>3. PICK S : agenda' = {[do |-> "drain", inst |-> i] : i \in S} \cup {[do |-> "list"]}
  BY DEF Start
<1>4. \A k \in agenda' : k.do \in {"drain", "list"}
  BY <1>3
<1>5. Replays' = {}
  BY <1>4 DEF Replays
<1>6. ~degraded /\ listing = NoList
  BY <1>1 DEF ListingOk
<1>7. ListingOk'
  BY <1>1, <1>2, <1>4, <1>5, <1>6 DEF ListingOk
<1>8. StartPending'
  BY <1>1 DEF StartPending
<1> QED BY <1>7, <1>8 DEF BackedOk, Accounted

\* The list of the journal: every timer stays backed or accounted for.
LEMMA ListBacked ==
    ASSUME CoreInv, TimesOk, ListingOk, NEW task \in agenda, ListInbound(task)
    PROVE  ListingOk' /\ BackedOk'
<1>1. UNCHANGED <<now, up, degraded, listing, received, index>>
  BY DEF ListInbound, store, history
<1>2. /\ agenda' = {[do |-> "replay", event |-> e, row |-> journal[e]] : e \in DOMAIN journal}
                      \cup {[do |-> "reconcile"]}
  BY DEF ListInbound
<1>3. \A k \in agenda' : k.do \in {"replay", "reconcile"}
  BY <1>2
<1>4. \E k \in agenda' : k.do = "reconcile"
  <2>1. [do |-> "reconcile"] \in agenda'
    BY <1>2
  <2>2. [do |-> "reconcile"].do = "reconcile"
    OBVIOUS
  <2> HIDE <1>2
  <2> QED BY <2>1, <2>2
<1>5. ~degraded
  BY DEF ListingOk
<1>6. ListingOk'
  BY <1>1, <1>3, <1>4, <1>5 DEF ListingOk
<1> QED BY <1>4, <1>6 DEF BackedOk, Accounted, StartPending

\* While rows are to run again the reconciliation is still to come.
LEMMA ReplayBacked ==
    ASSUME CoreInv, TimesOk, ListingOk, NEW task \in agenda, Replay(task) \/ GiveUp(task)
    PROVE  ListingOk' /\ BackedOk'
<1>1. /\ UNCHANGED <<now, up, degraded, listing, received>>
      /\ agenda' = agenda \ {task} /\ task.do = "replay"
  BY DEF Replay, GiveUp, Due
<1>2. \A t \in DOMAIN index' : t \in DOMAIN index /\ index'[t] = index[t]
  <2>1. index' = index \/ \E i : FailInStore(i)
    BY DEF Replay, GiveUp
  <2> QED BY <2>1, CancelStoredTimers DEF FailInStore
<1>3. \E k \in agenda : k.do = "reconcile"
  BY <1>1 DEF ListingOk, Replays
<1>4. \E k \in agenda' : k.do = "reconcile"
  BY <1>1, <1>3
<1>5. ~degraded
  BY DEF ListingOk
<1>6. ListingOk'
  BY <1>1, <1>2, <1>4, <1>5 DEF ListingOk
<1> QED BY <1>4, <1>6 DEF BackedOk, Accounted, StartPending

----------------------------------------------------------------------------
(* Every step keeps the timers accounted for. *)

\* The steps of a transition: every timer stays backed or accounted for.
LEMMA TransitionBacked ==
    ASSUME CoreInv, TimesOk, ListingOk, BackedOk, Transition
    PROVE  ListingOk' /\ BackedOk'
<1>1. CASE SendSchedule
  BY <1>1, SendScheduleBacked
<1>2. CASE SendReschedule
  BY <1>2, SendRescheduleBacked
<1>3. CASE Register
  BY <1>3, RegisterBacked
<1>4. CASE SendCancel
  BY <1>4, SendCancelBacked
<1>5. CASE Forget
  BY <1>5, ForgetBacked
<1>6. CASE SkipTimerAction
  BY <1>6, SkipBacked
<1>7. CASE Send
  BY <1>7, SendBacked
<1>8. CASE End
  BY <1>8, EndBacked
<1>9. CASE Commit \/ CommitFails
  BY <1>9, CommitBacked
<1>10. CASE Drain
  BY <1>10, DrainBacked
<1>11. CASE CancelNone
  BY <1>11, CancelNoneBacked
<1> QED BY <1>1, <1>2, <1>3, <1>4, <1>5, <1>6, <1>7, <1>8, <1>9, <1>10, <1>11 DEF Transition

\* The steps of a start: every timer stays backed or accounted for.
LEMMA RecoveryBacked ==
    ASSUME CoreInv, TimesOk, ListingOk, BackedOk, Recovery
    PROVE  ListingOk' /\ BackedOk'
<1>1. CASE Start
  BY <1>1, StartBacked
<1>2. ASSUME NEW task \in agenda, DrainRecovered(task) PROVE ListingOk' /\ BackedOk'
  BY <1>2, DrainRecoveredBacked
<1>3. ASSUME NEW task \in agenda, ListInbound(task) PROVE ListingOk' /\ BackedOk'
  BY <1>3, ListBacked
<1>4. ASSUME NEW task \in agenda, Replay(task) \/ GiveUp(task) PROVE ListingOk' /\ BackedOk'
  BY <1>4, ReplayBacked
<1>5. ASSUME NEW task \in agenda, Reconcile(task) PROVE ListingOk' /\ BackedOk'
  BY <1>5, ReconcileBacked
<1>6. ASSUME NEW task \in agenda, ReconcileTimer(task) PROVE ListingOk' /\ BackedOk'
  BY <1>6, ReconcileTimerBacked
<1>7. ASSUME NEW task \in agenda, SettleTimer(task) PROVE ListingOk' /\ BackedOk'
  BY <1>7, SettleTimerBacked
<1> QED BY <1>1, <1>2, <1>3, <1>4, <1>5, <1>6, <1>7 DEF Recovery

\* What comes to the receive loop: every timer stays backed or accounted for.
LEMMA InboundBacked ==
    ASSUME CoreInv, TimesOk, ListingOk, BackedOk, Inbound
    PROVE  ListingOk' /\ BackedOk'
<1>1. ASSUME NEW m \in Messages, Receive(m) PROVE ListingOk' /\ BackedOk'
  BY <1>1, ReceiveBacked
<1>2. CASE (\E m \in Messages : ReceiveFails(m)) \/ (\E i \in Messages : Collect(i))
  BY <1>2, OutsideBacked
<1>3. ASSUME NEW fire \in fires, FireArrives(fire) PROVE ListingOk' /\ BackedOk'
  BY <1>3, FireArrivesBacked
<1>4. ASSUME NEW i \in Messages, Close(i) PROVE ListingOk' /\ BackedOk'
  BY <1>4, CloseBacked
<1>5. CASE AskTimers
  BY <1>5, AskTimersBacked
<1>6. CASE TakeTimerList
  BY <1>6, TakeTimerListBacked
<1> QED BY <1>1, <1>2, <1>3, <1>4, <1>5, <1>6 DEF Inbound

\* The clock, a crash, and SY.timer: every timer stays backed or accounted for.
LEMMA EnvironmentBacked ==
    ASSUME CoreInv, TimesOk, ListingOk, BackedOk, Environment
    PROVE  ListingOk' /\ BackedOk'
<1>1. CASE Stop
  BY <1>1, StopBacked
<1>2. CASE TimersListed
  BY <1>2, TimersListedBacked
<1>3. CASE Tick \/ \E fire \in fires : FireLost(fire)
  BY <1>3, OutsideBacked
<1>4. CASE \E t \in Timers : TimerFires(t) \/ TimerLost(t)
  BY <1>4, OutsideBacked
<1> QED BY <1>1, <1>2, <1>3, <1>4 DEF Environment, Timers

\* Why a timer is backed holds first and every step keeps it.
LEMMA WfReconciled == Spec => [](ListingOk /\ BackedOk)
<1>1. Init => ListingOk /\ BackedOk
  <2> SUFFICES ASSUME Init PROVE ListingOk /\ BackedOk
    OBVIOUS
  <2>1. DOMAIN index = {} /\ agenda = {} /\ listing = NoList /\ degraded = FALSE /\ Replays = {}
    BY DEF Init, Replays
  <2> QED BY <2>1 DEF ListingOk, BackedOk
<1>2. CoreInv /\ TimesOk /\ ListingOk /\ BackedOk /\ [Next]_vars => (ListingOk /\ BackedOk)'
  <2> SUFFICES ASSUME CoreInv, TimesOk, ListingOk, BackedOk, [Next]_vars PROVE ListingOk' /\ BackedOk'
    OBVIOUS
  <2>1. CASE UNCHANGED vars
    <3>1. UNCHANGED <<now, index, armed, fires, up, registry, work, agenda, degraded, listing, received, lost, strayed>>
      BY <2>1 DEF vars, store, memory, timers, history
    <3>2. now \in Nat
      BY DEF TimesOk
    <3> QED BY <3>1, <3>2, BesideBacked DEF Backed
  <2>2. CASE Next
    BY <2>2, TransitionBacked, RecoveryBacked, InboundBacked, EnvironmentBacked DEF Next
  <2> QED BY <2>1, <2>2
<1> QED BY <1>1, <1>2, WfInductive, PTL DEF Spec

\* Whenever the node is between two events and not DEGRADED, SY.timer has every timer of a
\* running instance or its fire is on its way, unless a fault cost the timer one of them
\* since the last reconciliation, or it strayed: no order of requests, fires, crashes and
\* reconciliations loses a timer without a trace (reconcileTimers, scheduleAgain).
THEOREM WfTimersBacked == Spec => []TimersBacked
<1>1. BackedOk => TimersBacked
  <2> SUFFICES ASSUME BackedOk, Loop, ~degraded, NEW t \in DOMAIN index, t \notin lost \cup strayed,
                      t[1] \in DOMAIN registry
               PROVE  Backed(t)
    BY DEF TimersBacked
  <2>1. up /\ Live(t) /\ ~Forgetting(t)
    BY IdleForgets DEF Loop, Live
  <2>2. ~StartPending /\ ~OnAgenda(t) /\ ~ToBeListed(t)
    BY DEF Loop, StartPending, OnAgenda, ToBeListed
  <2> QED BY <2>1, <2>2 DEF BackedOk, Accounted
<1> QED BY <1>1, WfReconciled, PTL

----------------------------------------------------------------------------
(* A fire that is taken is not early. *)

\* The times of the index, of SY.timer's timers and of a timer action that runs are numbers,
\* and SY.timer fires nothing before its time.
MomentsOk ==
    /\ \A t \in DOMAIN index : index[t].fire_at \in Int
    /\ \A t \in DOMAIN armed : armed[t] \in Int
    /\ Acts => work.fire_at \in Int
    /\ \A fire \in fires : fire.scheduled \in Int /\ fire.scheduled <= now

\* A part of a function.
PartOf(g, f) == \A x \in DOMAIN g : x \in DOMAIN f /\ g[x] = f[x]

\* What a step may do to them.
Timely ==
    /\ \A t \in DOMAIN index' : (t \in DOMAIN index /\ index'[t] = index[t]) \/ index'[t].fire_at \in Int
    /\ \A t \in DOMAIN armed' : (t \in DOMAIN armed /\ armed'[t] = armed[t]) \/ armed'[t] \in Int
    /\ Acts' => work'.fire_at \in Int
    /\ \A fire \in fires' : fire \in fires \/ (fire.scheduled \in Int /\ fire.scheduled <= now)
    /\ now' \in Nat /\ now <= now'

\* Such a step keeps them.
LEMMA TimelySafe ==
    ASSUME MomentsOk, TimesOk, Timely
    PROVE  MomentsOk'
<1>1. now \in Nat
  BY DEF TimesOk
<1>2. \A fire \in fires' : fire.scheduled \in Int /\ fire.scheduled <= now'
  BY <1>1 DEF MomentsOk, Timely
<1>3. (\A t \in DOMAIN index : index[t].fire_at \in Int)'
  BY DEF MomentsOk, Timely
<1>4. (\A t \in DOMAIN armed : armed[t] \in Int)'
  BY DEF MomentsOk, Timely
<1> QED BY <1>2, <1>3, <1>4 DEF MomentsOk, Timely

\* What is left of a function is a part of it.
LEMMA WithoutPart ==
    ASSUME NEW f, NEW S
    PROVE  PartOf(Without(f, S), f)
BY DEF PartOf, Without

\* A step that adds no time.
LEMMA PartsTimely ==
    ASSUME MomentsOk, TimesOk, PartOf(index', index), PartOf(armed', armed), now' = now, fires' \subseteq fires,
           Acts' => work'.fire_at \in Int
    PROVE  MomentsOk'
<1>1. Timely
  BY DEF Timely, PartOf, TimesOk
<1> QED BY <1>1, TimelySafe

\* A request to schedule or to move a timer.
LEMMA RequestTimely ==
    ASSUME NEW t, NEW at \in Int,
           \/ Request(Scheduled(t, at)) \/ Request(Moved(t, at)) \/ armed' = With(armed, t, at)
    PROVE  \A u \in DOMAIN armed' : (u \in DOMAIN armed /\ armed'[u] = armed[u]) \/ armed'[u] \in Int
<1>1. \/ armed' = armed \/ armed' = With(armed, t, at)
  BY DEF Request, Scheduled, Moved
<1> QED BY <1>1 DEF With

\* A request to cancel a timer.
LEMMA CancelTimely ==
    ASSUME NEW t, Request(Without(armed, {t}))
    PROVE  PartOf(armed', armed)
<1>1. armed' = armed \/ armed' = Without(armed, {t})
  BY DEF Request
<1> QED BY <1>1, WithoutPart DEF PartOf

\* The later of two times.
LEMMA LaterOf ==
    ASSUME NEW a \in Int, NEW b \in Int
    PROVE  Max({a, b}) \in Int
<1>1. \E x \in {a, b} : \A y \in {a, b} : x >= y
  BY SMT
<1> QED BY <1>1 DEF Max

\* A timer scheduled again.
LEMMA AgainTimely ==
    ASSUME MomentsOk, NEW t \in DOMAIN index, NEW since \in Int, ScheduleAgain(t, since)
    PROVE  /\ \A u \in DOMAIN index' : (u \in DOMAIN index /\ index'[u] = index[u]) \/ index'[u].fire_at \in Int
           /\ \A u \in DOMAIN armed' : (u \in DOMAIN armed /\ armed'[u] = armed[u]) \/ armed'[u] \in Int
<1>1. PICK at : at = Max({index[t].fire_at, since + MinTimerDuration})
  OBVIOUS
<1>2. at \in Int
  <2>1. index[t].fire_at \in Int /\ since + MinTimerDuration \in Int
    BY WfAssumption DEF MomentsOk
  <2> QED BY <1>1, <2>1, LaterOf
<1>3. CASE RequestSchedule(t, at) /\ index' = [index EXCEPT ![t] = [scheduled |-> since, fire_at |-> at]]
  <2>1. PICK r : r = [scheduled |-> since, fire_at |-> at]
    OBVIOUS
  <2>2. index' = [index EXCEPT ![t] = r] /\ r.fire_at \in Int
    BY <1>2, <1>3, <2>1
  <2>3. Request(Scheduled(t, at))
    BY <1>3 DEF RequestSchedule
  <2> QED BY <1>2, <2>2, <2>3, RequestTimely
<1>4. CASE UNCHANGED <<armed, index>>
  BY <1>4
<1> QED BY <1>1, <1>3, <1>4 DEF ScheduleAgain

\* The timers of instances that end in the store.
LEMMA StoredTimely ==
    ASSUME NEW S, CancelStored(S)
    PROVE  PartOf(index', index) /\ PartOf(armed', armed)
<1>1. PICK gone, reached : index' = Without(index, gone) /\ armed' = Without(armed, reached)
  BY DEF CancelStored
<1> QED BY <1>1, WithoutPart

\* The steps of a transition.
LEMMA TransitionTimely ==
    ASSUME CoreInv, TimesOk, MomentsOk, Transition
    PROVE  MomentsOk'
<1>0. now \in Nat /\ now + TimerDelay \in Int /\ now + MoveDelay \in Int
  BY WfAssumption DEF TimesOk
<1>1. ASSUME NEW do, Acting(do) PROVE IsAct(work) /\ work.fire_at \in Int
  BY <1>1, ActingIs DEF MomentsOk
<1>2. CASE SendSchedule
  <2>1. IsAct(work)
    BY <1>1, <1>2 DEF SendSchedule
  <2>2. PICK todo : work' = [work EXCEPT !.todo = todo, !.fire_at = now + TimerDelay]
    BY <1>2 DEF SendSchedule
  <2>3. work'.fire_at \in Int
    BY <1>0, <2>1, <2>2 DEF IsAct
  <2>4. \A u \in DOMAIN armed' : (u \in DOMAIN armed /\ armed'[u] = armed[u]) \/ armed'[u] \in Int
    BY <1>0, <1>2, RequestTimely DEF SendSchedule, RequestSchedule
  <2>5. UNCHANGED <<now, index, fires>>
    BY <1>2 DEF SendSchedule, store
  <2>6. Timely
    BY <1>0, <2>3, <2>4, <2>5 DEF Timely
  <2> QED BY <2>6, TimelySafe
<1>3. CASE SendReschedule
  <2>1. IsAct(work)
    BY <1>1, <1>3 DEF SendReschedule
  <2>2. PICK todo : work' = [work EXCEPT !.todo = todo, !.fire_at = now + MoveDelay]
    BY <1>3 DEF SendReschedule
  <2>3. work'.fire_at \in Int
    BY <1>0, <2>1, <2>2 DEF IsAct
  <2>4. \A u \in DOMAIN armed' : (u \in DOMAIN armed /\ armed'[u] = armed[u]) \/ armed'[u] \in Int
    BY <1>0, <1>3, RequestTimely DEF SendReschedule
  <2>5. UNCHANGED <<now, index, fires>>
    BY <1>3 DEF SendReschedule, store
  <2>6. Timely
    BY <1>0, <2>3, <2>4, <2>5 DEF Timely
  <2> QED BY <2>6, TimelySafe
<1>4. CASE Register
  <2>1. IsAct(work) /\ work.fire_at \in Int
    BY <1>1, <1>4 DEF Register
  <2>2. work' = [work EXCEPT !.todo = Rest] /\ UNCHANGED <<now, armed, fires>>
    BY <1>4 DEF Register, timers
  <2>3. work'.fire_at \in Int
    BY <2>1, <2>2 DEF IsAct
  <2>4. PICK u, r : u = Timer /\ r = [scheduled |-> now, fire_at |-> work.fire_at]
    OBVIOUS
  <2>5. index' = With(index, u, r) /\ r.fire_at \in Int
    BY <1>4, <2>1, <2>4 DEF Register
  <2>6. \A t \in DOMAIN index' : (t \in DOMAIN index /\ index'[t] = index[t]) \/ index'[t].fire_at \in Int
    BY <2>5 DEF With
  <2>7. Timely
    BY <1>0, <2>2, <2>3, <2>6 DEF Timely
  <2> QED BY <2>7, TimelySafe
<1>5. CASE SendCancel \/ Forget \/ SkipTimerAction \/ Send \/ End \/ CancelNone
  <2>1. IsAct(work) /\ work.fire_at \in Int
    BY <1>1, <1>5 DEF SendCancel, Forget, SkipTimerAction, Send, End, CancelNone
  <2>2. \/ \E todo : work' = [work EXCEPT !.todo = todo]
        \/ \E todo, emitted : work' = [work EXCEPT !.todo = todo, !.emitted = emitted]
        \/ \E todo, emitted, status : work' = [work EXCEPT !.todo = todo, !.emitted = emitted, !.status = status]
    BY <1>5 DEF SendCancel, Forget, SkipTimerAction, Send, End, CancelNone
  <2>3. work'.fire_at \in Int
    <3>1. CASE \E todo : work' = [work EXCEPT !.todo = todo]
      BY <2>1, <3>1 DEF IsAct
    <3>2. CASE \E todo, emitted : work' = [work EXCEPT !.todo = todo, !.emitted = emitted]
      BY <2>1, <3>2 DEF IsAct
    <3>3. CASE \E todo, emitted, status : work' = [work EXCEPT !.todo = todo, !.emitted = emitted, !.status = status]
      BY <2>1, <3>3 DEF IsAct
    <3> QED BY <2>2, <3>1, <3>2, <3>3
  <2>4. UNCHANGED <<now, fires>>
    BY <1>5 DEF SendCancel, Forget, SkipTimerAction, Send, End, CancelNone, timers
  <2>5. index' = index \/ \E S : index' = Without(index, S)
    BY <1>5 DEF SendCancel, Forget, SkipTimerAction, Send, End, CancelNone, store
  <2>6. armed' = armed \/ \E t : Request(Without(armed, {t}))
    BY <1>5 DEF SendCancel, Forget, SkipTimerAction, Send, End, CancelNone, timers
  <2>7. PartOf(index', index)
    BY <2>5, WithoutPart DEF PartOf
  <2>8. PartOf(armed', armed)
    BY <2>6, CancelTimely DEF PartOf
  <2> QED BY <2>3, <2>4, <2>7, <2>8, PartsTimely
<1>6. CASE Commit \/ CommitFails
  <2>1. UNCHANGED <<now, index, armed, fires>>
    BY <1>6 DEF Commit, CommitFails, store, timers
  <2>2. ~Acts'
    <3>1. work.at = "act" /\ (work' = Idle \/ work' = [work EXCEPT !.at = "drain"])
      BY <1>6 DEF Commit, CommitFails, Ready
    <3>2. IsAct(work)
      BY <3>1 DEF CoreInv, WorkOk, Idle
    <3> QED BY <3>1, <3>2 DEF Acts, Idle, IsAct
  <2> QED BY <2>1, <2>2, PartsTimely DEF PartOf
<1>7. CASE Drain
  <2>1. UNCHANGED <<now, fires>>
    BY <1>7 DEF Drain
  <2>2. \/ UNCHANGED <<index, armed>> \/ FailInStore(work.inst)
    BY <1>7 DEF Drain
  <2>3. work' = Idle \/ work'.fire_at = 0
    BY <1>7 DEF Drain, Begin
  <2>4. PartOf(index', index) /\ PartOf(armed', armed)
    BY <2>2, StoredTimely DEF PartOf, FailInStore
  <2>5. Acts' => work'.fire_at \in Int
    BY <2>3 DEF Acts, Idle
  <2> QED BY <2>1, <2>4, <2>5, PartsTimely
<1> QED BY <1>2, <1>3, <1>4, <1>5, <1>6, <1>7 DEF Transition

\* The fire of a timer is taken.
LEMMA TakeTimely ==
    ASSUME NEW t, TakeFire(t)
    PROVE  PartOf(index', index) /\ work'.fire_at = 0
<1>1. index' = Without(index, {t})
  BY DEF TakeFire
<1>2. \E i, kind, event, id : work' = Begin(i, kind, event, id, FALSE)
  BY DEF TakeFire, Take
<1> QED BY <1>1, <1>2, WithoutPart DEF Begin

\* One timer of a reconciliation.
LEMMA ReconcileTimely ==
    ASSUME TimesOk, ListingOk, MomentsOk, NEW task \in agenda, ReconcileTimer(task)
    PROVE  MomentsOk'
<1>0. /\ task.do = "timer" /\ work = Idle /\ UNCHANGED <<now, fires>>
      /\ now \in Nat
  BY DEF ReconcileTimer, Due, TimesOk
<1>1. task.now \in Int
  BY <1>0 DEF ListingOk
<1>2. PICK t : t = task.timer
  OBVIOUS
<1>3. CASE ScheduleAgain(t, task.now) /\ t \in DOMAIN index /\ UNCHANGED work
  <2>1. ~Acts'
    BY <1>0, <1>3 DEF Acts, Idle
  <2>2. Timely
    <3>1. /\ \A u \in DOMAIN index' : (u \in DOMAIN index /\ index'[u] = index[u]) \/ index'[u].fire_at \in Int
          /\ \A u \in DOMAIN armed' : (u \in DOMAIN armed /\ armed'[u] = armed[u]) \/ armed'[u] \in Int
      BY <1>1, <1>3, AgainTimely
    <3> QED BY <1>0, <2>1, <3>1 DEF Timely
  <2> QED BY <2>2, TimelySafe
<1>4. CASE TakeFire(t) /\ UNCHANGED armed
  <2>1. PartOf(index', index) /\ work'.fire_at = 0
    BY <1>4, TakeTimely
  <2>2. PartOf(armed', armed) /\ work'.fire_at \in Int
    BY <1>4, <2>1 DEF PartOf
  <2> QED BY <1>0, <2>1, <2>2, PartsTimely
<1>5. CASE UNCHANGED <<armed, work>> /\ (index' = index \/ index' = Without(index, {t}))
  <2>1. PartOf(index', index) /\ PartOf(armed', armed)
    BY <1>5, WithoutPart DEF PartOf
  <2>2. ~Acts'
    BY <1>0, <1>5 DEF Acts, Idle
  <2> QED BY <1>0, <2>1, <2>2, PartsTimely
<1> QED BY <1>2, <1>3, <1>4, <1>5 DEF ReconcileTimer

\* The steps of a start and of a reconciliation.
LEMMA RecoveryTimely ==
    ASSUME CoreInv, TimesOk, ListingOk, MomentsOk, Recovery
    PROVE  MomentsOk'
<1>1. CASE Start
  <2>1. \E S : CancelStored(S)
    BY <1>1 DEF Start
  <2>2. PartOf(index', index) /\ PartOf(armed', armed)
    BY <2>1, StoredTimely
  <2>3. UNCHANGED <<now, fires, work>>
    BY <1>1 DEF Start
  <2>4. Acts' => work'.fire_at \in Int
    BY <2>3 DEF MomentsOk, Acts
  <2> QED BY <2>2, <2>3, <2>4, PartsTimely
<1>2. ASSUME NEW task \in agenda, DrainRecovered(task) \/ ListInbound(task) \/ Reconcile(task) PROVE MomentsOk'
  <2>1. UNCHANGED <<now, index, armed, fires>>
    BY <1>2 DEF DrainRecovered, ListInbound, Reconcile, store, timers
  <2>2. ~Acts'
    BY <1>2 DEF DrainRecovered, ListInbound, Reconcile, Due, Acts, Idle
  <2> QED BY <2>1, <2>2, PartsTimely DEF PartOf
<1>3. ASSUME NEW task \in agenda, Replay(task) PROVE MomentsOk'
  <2>1. UNCHANGED <<now, index, armed, fires>>
    BY <1>3 DEF Replay, timers
  <2>2. work = Idle /\ (work' = work \/ \E i, kind, event, id : work' = Begin(i, kind, event, id, FALSE))
    BY <1>3 DEF Replay, Due
  <2>3. Acts' => work'.fire_at \in Int
    BY <2>2 DEF Acts, Idle, Begin
  <2> QED BY <2>1, <2>3, PartsTimely DEF PartOf
<1>4. ASSUME NEW task \in agenda, GiveUp(task) PROVE MomentsOk'
  <2>1. UNCHANGED <<now, fires, work>> /\ work = Idle
    BY <1>4 DEF GiveUp, Due
  <2>2. UNCHANGED <<index, armed>> \/ \E S : CancelStored(S)
    BY <1>4 DEF GiveUp, FailInStore
  <2>3. PartOf(index', index) /\ PartOf(armed', armed)
    BY <2>2, StoredTimely DEF PartOf
  <2>4. ~Acts'
    BY <2>1 DEF Acts, Idle
  <2> QED BY <2>1, <2>3, <2>4, PartsTimely
<1>5. ASSUME NEW task \in agenda, ReconcileTimer(task) PROVE MomentsOk'
  BY <1>5, ReconcileTimely
<1>6. ASSUME NEW task \in agenda, SettleTimer(task) PROVE MomentsOk'
  <2>1. UNCHANGED <<now, fires, work, index>> /\ work = Idle
    BY <1>6 DEF SettleTimer, Due, store
  <2>2. armed' = armed \/ \E t : Request(Without(armed, {t}))
    BY <1>6 DEF SettleTimer
  <2>3. PartOf(index', index) /\ PartOf(armed', armed)
    BY <2>1, <2>2, CancelTimely DEF PartOf
  <2>4. ~Acts'
    BY <2>1 DEF Acts, Idle
  <2> QED BY <2>1, <2>3, <2>4, PartsTimely
<1> QED BY <1>1, <1>2, <1>3, <1>4, <1>5, <1>6 DEF Recovery

\* What comes to the receive loop.
LEMMA InboundTimely ==
    ASSUME CoreInv, TimesOk, MomentsOk, Inbound
    PROVE  MomentsOk'
<1>0. now \in Nat
  BY DEF TimesOk
<1>1. ASSUME NEW m \in Messages, Receive(m) PROVE MomentsOk'
  <2>1. UNCHANGED <<now, index, armed, fires>>
    BY <1>1 DEF Receive, timers
  <2>2. work = Idle /\ (work' = work \/ \E i, kind, event, id : work' = Begin(i, kind, event, id, FALSE))
    BY <1>1 DEF Receive, Loop, Take
  <2>3. Acts' => work'.fire_at \in Int
    BY <2>2 DEF Acts, Idle, Begin
  <2> QED BY <2>1, <2>3, PartsTimely DEF PartOf
<1>2. CASE (\E m \in Messages : ReceiveFails(m)) \/ AskTimers \/ TakeTimerList
  <2>1. UNCHANGED <<now, index, armed, fires, work>>
    BY <1>2 DEF ReceiveFails, AskTimers, TakeTimerList, store, memory, timers
  <2>2. Acts' => work'.fire_at \in Int
    BY <2>1 DEF MomentsOk, Acts
  <2> QED BY <2>1, <2>2, PartsTimely DEF PartOf
<1>3. ASSUME NEW fire \in fires, FireArrives(fire) PROVE MomentsOk'
  <2>1. fires' \subseteq fires /\ now' = now /\ work = Idle
    BY <1>3 DEF FireArrives, Loop
  <2>2. PICK t : t = fire.timer
    OBVIOUS
  <2>3. CASE TakeFire(t) /\ UNCHANGED armed
    <3>1. PartOf(index', index) /\ work'.fire_at = 0
      BY <2>3, TakeTimely
    <3>2. PartOf(armed', armed) /\ work'.fire_at \in Int
      BY <2>3, <3>1 DEF PartOf
    <3> QED BY <2>1, <3>1, <3>2, PartsTimely
  <2>4. CASE ScheduleAgain(t, now) /\ t \in DOMAIN index /\ UNCHANGED work
    <3>1. ~Acts'
      BY <2>1, <2>4 DEF Acts, Idle
    <3>2. now \in Int
      BY <1>0
    <3>3. /\ \A u \in DOMAIN index' : (u \in DOMAIN index /\ index'[u] = index[u]) \/ index'[u].fire_at \in Int
          /\ \A u \in DOMAIN armed' : (u \in DOMAIN armed /\ armed'[u] = armed[u]) \/ armed'[u] \in Int
      BY <2>4, <3>2, AgainTimely
    <3>4. Timely
      BY <1>0, <2>1, <3>1, <3>3 DEF Timely
    <3> QED BY <3>4, TimelySafe
  <2>5. CASE UNCHANGED <<index, armed, work>>
    <3>1. ~Acts'
      BY <2>1, <2>5 DEF Acts, Idle
    <3> QED BY <2>1, <2>5, <3>1, PartsTimely DEF PartOf
  <2> QED BY <1>3, <2>2, <2>3, <2>4, <2>5 DEF FireArrives
<1>4. ASSUME NEW i \in Messages, Close(i) PROVE MomentsOk'
  <2>1. UNCHANGED <<now, index, armed, fires>>
    BY <1>4 DEF Close, store, timers
  <2>2. work'.fire_at \in Int
    BY <1>4 DEF Close
  <2> QED BY <2>1, <2>2, PartsTimely DEF PartOf
<1>5. ASSUME NEW i \in Messages, Collect(i) PROVE MomentsOk'
  <2>1. UNCHANGED <<now, armed, fires, work>> /\ \E S : index' = Without(index, S)
    BY <1>5 DEF Collect, memory, timers
  <2>2. PartOf(index', index) /\ PartOf(armed', armed)
    BY <2>1, WithoutPart DEF PartOf
  <2>3. Acts' => work'.fire_at \in Int
    BY <2>1 DEF MomentsOk, Acts
  <2> QED BY <2>1, <2>2, <2>3, PartsTimely
<1> QED BY <1>1, <1>2, <1>3, <1>4, <1>5 DEF Inbound

\* The clock, a crash, and SY.timer, which fires what is due.
LEMMA EnvironmentTimely ==
    ASSUME CoreInv, TimesOk, MomentsOk, Environment, TimesOk'
    PROVE  MomentsOk'
<1>0. now \in Nat /\ now' \in Nat
  BY DEF TimesOk
<1>1. CASE Tick
  <2>1. UNCHANGED <<index, armed, fires, work>> /\ now <= now'
    BY <1>0, <1>1 DEF Tick, store, memory, timers
  <2>2. Timely
    BY <1>0, <2>1 DEF Timely, MomentsOk, Acts
  <2> QED BY <2>2, TimelySafe
<1>2. CASE Stop \/ TimersListed
  <2>1. UNCHANGED <<now, index, armed, fires>> /\ (work' = work \/ work' = Idle)
    BY <1>2 DEF Stop, TimersListed, store, timers
  <2>2. Acts' => work'.fire_at \in Int
    BY <2>1 DEF MomentsOk, Acts, Idle
  <2> QED BY <2>1, <2>2, PartsTimely DEF PartOf
<1>3. CASE (\E fire \in fires : FireLost(fire)) \/ (\E t \in Timers : TimerLost(t))
  <2>1. UNCHANGED <<now, index, work>> /\ fires' \subseteq fires
    BY <1>3 DEF FireLost, TimerLost, store, memory
  <2>2. armed' = armed \/ \E t : armed' = Without(armed, {t})
    BY <1>3 DEF FireLost, TimerLost
  <2>3. PartOf(index', index)
    BY <2>1 DEF PartOf
  <2>4. PartOf(armed', armed)
    BY <2>2 DEF PartOf, Without
  <2>5. Acts' => work'.fire_at \in Int
    BY <2>1 DEF MomentsOk, Acts
  <2> QED BY <2>1, <2>3, <2>4, <2>5, PartsTimely
<1>4. ASSUME NEW t \in Timers, TimerFires(t) PROVE MomentsOk'
  <2>1. UNCHANGED <<now, index, work>>
    BY <1>4 DEF TimerFires, store, memory
  <2>2. PICK at : at = armed[t]
    OBVIOUS
  <2>3. at \in Int /\ at <= now
    BY <1>4, <2>2 DEF TimerFires, MomentsOk
  <2>4. fires' = fires \cup {[timer |-> t, scheduled |-> at]} /\ armed' = Without(armed, {t})
    BY <1>4, <2>2 DEF TimerFires
  <2>5. \A fire \in fires' : fire \in fires \/ (fire.scheduled \in Int /\ fire.scheduled <= now)
    BY <2>3, <2>4
  <2>6. PartOf(armed', armed)
    BY <2>4, WithoutPart
  <2>7. Timely
    BY <1>0, <2>1, <2>5, <2>6 DEF Timely, MomentsOk, Acts, PartOf
  <2> QED BY <2>7, TimelySafe
<1> QED BY <1>1, <1>2, <1>3, <1>4 DEF Environment, Timers

\* Between two events only the arrival of a fire counts one, and it is due.
LEMMA ArrivesDue ==
    ASSUME CoreInv, TimesOk, MomentsOk, Next, Loop, NEW u \in Timers, fired'[u] /= fired[u]
    PROVE  index[u].fire_at <= now
<1>0. up /\ work = Idle /\ agenda = {}
  BY DEF Loop
<1>1. ~Transition
  <2>1. \A do : ~Acting(do)
    BY <1>0 DEF Acting, Idle
  <2>2. ~Ready /\ work.at /= "drain"
    BY <1>0 DEF Ready, Idle
  <2> QED BY <2>1, <2>2 DEF Transition, SendSchedule, SendReschedule, Register, SendCancel, Forget,
                            SkipTimerAction, Send, End, CancelNone, Commit, CommitFails, Drain
<1>2. ~Recovery
  BY <1>0 DEF Recovery, Start
<1>3. Environment => UNCHANGED fired
  BY DEF Environment, Tick, Stop, TimersListed, FireLost, TimerFires, TimerLost, history
<1>4. ASSUME NEW m \in Messages, Receive(m) \/ ReceiveFails(m) \/ Close(m) \/ Collect(m) PROVE UNCHANGED fired
  BY <1>4 DEF Receive, ReceiveFails, Close, Collect, history
<1>5. AskTimers \/ TakeTimerList => UNCHANGED fired
  BY DEF AskTimers, TakeTimerList
<1>6. PICK fire \in fires : FireArrives(fire)
  BY <1>1, <1>2, <1>3, <1>4, <1>5 DEF Next, Inbound
<1>7. PICK t : t = fire.timer
  OBVIOUS
<1>8. TakeFire(t) /\ t \in DOMAIN index /\ index[t].fire_at <= fire.scheduled
  BY <1>6, <1>7 DEF FireArrives, Current
<1>9. u = t
  <2>1. fired \in [Timers -> Nat]
    BY DEF CoreInv, FiredOk
  <2> QED BY <1>8, <2>1 DEF TakeFire
<1> QED BY <1>6, <1>8, <1>9 DEF MomentsOk, TimesOk

\* A fire of SY.timer's that the receive loop takes is not early (takeTimerFired's check of
\* the fire's time against the index), whatever moves of the timer, crashes and lost requests
\* came between.
THEOREM WfNeverEarly == Spec => NeverEarly
<1>1. Init => MomentsOk
  <2> SUFFICES ASSUME Init PROVE MomentsOk
    OBVIOUS
  <2>1. DOMAIN index = {} /\ DOMAIN armed = {} /\ fires = {} /\ ~Acts
    BY DEF Init, Acts, Idle
  <2> QED BY <2>1 DEF MomentsOk
<1>2. CoreInv /\ TimesOk /\ ListingOk /\ MomentsOk /\ TimesOk' /\ [Next]_vars => MomentsOk'
  <2> SUFFICES ASSUME CoreInv, TimesOk, ListingOk, MomentsOk, TimesOk', [Next]_vars PROVE MomentsOk'
    OBVIOUS
  <2>1. CASE UNCHANGED vars
    <3>1. UNCHANGED <<now, index, armed, fires, work>>
      BY <2>1 DEF vars, store, memory, timers
    <3> QED BY <3>1 DEF MomentsOk, Acts
  <2>2. CASE Next
    BY <2>2, TransitionTimely, RecoveryTimely, InboundTimely, EnvironmentTimely DEF Next
  <2> QED BY <2>1, <2>2
<1>3. CoreInv /\ TimesOk /\ MomentsOk /\ [Next]_vars =>
         [Loop => \A t \in Messages \X Keys : fired'[t] /= fired[t] => index[t].fire_at <= now]_vars
  BY ArrivesDue DEF Timers
<1> QED BY <1>1, <1>2, <1>3, WfInductive, WfReconciled, PTL DEF Spec, NeverEarly

================================================================================
