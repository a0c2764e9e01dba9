------------------------------ MODULE TimerService ------------------------------
(***************************************************************************)
(* What SY.timer promises to who asks it for timers, and what the workflow *)
(* engine (module WfEngine) takes from it: a timer armed for a time fires  *)
(* when it came; a fire is saved, and from then on it arrives once or is   *)
(* lost; nothing is fired that was not armed.  Module SyTimer implements   *)
(* it.                                                                     *)
(*                                                                         *)
(* A request does not wait for a fire that has begun: SY.timer reads a due *)
(* timer (Claim), and cancels and moves may come before the fire is saved  *)
(* (Fire), which goes out all the same, for the time it was claimed with.  *)
(***************************************************************************)
EXTENDS Integers

CONSTANTS Timers, None

VARIABLES
    now,
    pending,                    \* when each pending timer fires
    claim,                      \* the fire that has begun, or None
    fires,                      \* fires saved, on their way
    arrived

vars == <<now, pending, claim, fires, arrived>>

\* Times are natural numbers.
Timed(f) == f \in [DOMAIN f -> Nat]

Init ==
    /\ now = 0
    /\ pending = << >>
    /\ claim = None
    /\ fires = {} /\ arrived = {}

\* A request arms a timer, or moves it: for a time ahead.
Arm(t) ==
    /\ Timed(pending')
    /\ DOMAIN pending' = DOMAIN pending \cup {t}
    /\ pending'[t] > now
    /\ \A u \in DOMAIN pending \ {t} : pending'[u] = pending[u]
    /\ UNCHANGED <<now, claim, fires, arrived>>

\* Timers are withdrawn (a cancel, a purge, a start that finds them missed), and a start
\* moves recurring ones to their next instance.
Withdraw ==
    /\ Timed(pending')
    /\ DOMAIN pending' \subseteq DOMAIN pending
    /\ \A t \in DOMAIN pending' : pending'[t] = pending[t] \/ pending'[t] > now
    /\ UNCHANGED <<now, claim, fires, arrived>>

\* A timer whose time came is claimed.
Claim(t) ==
    /\ claim = None
    /\ t \in DOMAIN pending /\ pending[t] <= now
    /\ claim' = <<t, pending[t]>>
    /\ UNCHANGED <<now, pending, fires, arrived>>

\* Its fire is saved; the timer is done, or goes on to a later instance.
Fire ==
    /\ claim /= None
    /\ fires' = fires \cup {claim}
    /\ claim' = None
    /\ Timed(pending')
    /\ LET t == claim[1]
       IN  /\ DOMAIN pending \ {t} \subseteq DOMAIN pending'
           /\ DOMAIN pending' \subseteq DOMAIN pending \cup {t}
           /\ \A u \in DOMAIN pending' : IF u = t THEN pending'[t] > claim[2]
                                         ELSE pending'[u] = pending[u]
    /\ UNCHANGED <<now, arrived>>

Arrive(f) ==
    /\ f \in fires
    /\ fires' = fires \ {f}
    /\ arrived' = arrived \cup {f}
    /\ UNCHANGED <<now, pending, claim>>

\* Fires are lost or given up, and a fire that has begun is not saved.
Lapse ==
    /\ claim' \in {claim, None}
    /\ fires' \subseteq fires
    /\ UNCHANGED <<now, pending, arrived>>

Tick ==
    /\ now' \in Nat /\ now' > now
    /\ UNCHANGED <<pending, claim, fires, arrived>>

Next ==
    \/ \E t \in Timers : Arm(t) \/ Claim(t)
    \/ Withdraw \/ Fire \/ Lapse \/ Tick
    \/ \E f \in fires : Arrive(f)

Spec == Init /\ [][Next]_vars

\* A fire, a timer's for one time, goes once: one that arrived is not on its way, and one
\* that was saved is not begun again, although its timer may have been moved, canceled or
\* armed anew while SY.timer fired it.
GoesOnce ==
    /\ fires \cap arrived = {}
    /\ claim /= None => claim \notin fires \cup arrived

================================================================================
