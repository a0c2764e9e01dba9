--------------------------- MODULE TimerServiceProofs ---------------------------
(***************************************************************************)
(* What follows from TimerService, for any timers and times: the proof that *)
(* a fire goes once.  The argument is about time: a timer's saved fires are *)
(* for times before the one it is pending for, and before the one of the    *)
(* fire that has begun.                                                     *)
(***************************************************************************)
EXTENDS TimerService, TLAPS

Saved == fires \cup arrived

TypeInv ==
    /\ now \in Nat
    /\ Timed(pending)
    /\ Saved \subseteq Timers \X Nat
    /\ claim /= None => claim \in Timers \X Nat

\* What was saved or begun is for a time that came.
Past ==
    /\ \A f \in Saved : f[2] <= now
    /\ claim /= None => claim[2] <= now

\* A pending timer is for a later time than its saved fires.
Ahead == \A f \in Saved : f[1] \in DOMAIN pending => f[2] < pending[f[1]]

\* So is the fire that has begun.
Fresh == claim /= None => \A f \in Saved : f[1] = claim[1] => f[2] < claim[2]

Apart == fires \cap arrived = {}

IInv == TypeInv /\ Past /\ Ahead /\ Fresh /\ Apart

USE DEF Saved, Timed

\* Nothing is saved or pending at first.
LEMMA InitInv == Init => IInv
  BY DEF Init, IInv, TypeInv, Past, Ahead, Fresh, Apart

\* Every step of the service keeps the inductive invariant.
LEMMA NextInv == IInv /\ [Next]_vars => IInv'
<1> SUFFICES ASSUME IInv, [Next]_vars PROVE IInv'
  OBVIOUS
<1> USE DEF IInv, TypeInv, Past, Ahead, Fresh, Apart
<1>1. ASSUME NEW t \in Timers, Arm(t) PROVE IInv'
  BY <1>1 DEF Arm
<1>2. CASE Withdraw
  BY <1>2 DEF Withdraw
<1>3. ASSUME NEW t \in Timers, Claim(t) PROVE IInv'
  BY <1>3 DEF Claim
<1>4. CASE Fire
  BY <1>4 DEF Fire
<1>5. ASSUME NEW f \in fires, Arrive(f) PROVE IInv'
  BY <1>5 DEF Arrive
<1>6. CASE Lapse
  BY <1>6 DEF Lapse
<1>7. CASE Tick
  BY <1>7 DEF Tick
<1>8. CASE UNCHANGED vars
  BY <1>8 DEF vars
<1> QED
  BY <1>1, <1>2, <1>3, <1>4, <1>5, <1>6, <1>7, <1>8 DEF Next

\* The service's fires go once, which SY.timer's clients may count on: SyTimer implements
\* the service (SyTimerProofs).
THEOREM FiresGoOnce == Spec => []GoesOnce
<1>1. IInv => GoesOnce
  BY DEF IInv, TypeInv, Fresh, Apart, GoesOnce
<1> QED
  BY InitInv, NextInv, <1>1, PTL DEF Spec

================================================================================
