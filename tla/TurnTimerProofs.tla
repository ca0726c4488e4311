-------------------------- MODULE TurnTimerProofs --------------------------
(***************************************************************************)
(* What holds of the turn timer however many callbacks are late.           *)
(***************************************************************************)
EXTENDS TurnTimer, TLAPS

\* The fields that each operation of a timer leaves behind.
LEMMA StartedFields ==
  ASSUME NEW t \in Timer
  PROVE  /\ Started(t) \in Timer
         /\ Started(t).stopped = FALSE /\ Started(t).armed = TRUE
         /\ Started(t).gen = t.gen + 1
         /\ Started(t).waiting = t.waiting
  <1>1. t.gen \in Nat /\ t.gen + 1 \in Nat
    BY DEF Timer
  <1>2. Started(t) \in Timer
    BY <1>1 DEF Timer, Started
  <1>3. Started(t).stopped = FALSE /\ Started(t).armed = TRUE
    BY DEF Timer, Started
  <1>4. Started(t).gen = t.gen + 1
    BY DEF Timer, Started
  <1>5. Started(t).waiting = t.waiting
    BY DEF Timer, Started
  <1> QED BY <1>2, <1>3, <1>4, <1>5

LEMMA StoppedFields ==
  ASSUME NEW t \in Timer
  PROVE  /\ Stopped(t) \in Timer
         /\ Stopped(t).stopped = TRUE /\ Stopped(t).armed = FALSE
         /\ Stopped(t).gen = t.gen
         /\ Stopped(t).waiting = t.waiting
  BY DEF Timer, Stopped

LEMMA FiredFields ==
  ASSUME NEW t \in Timer
  PROVE  /\ Fired(t) \in Timer
         /\ Fired(t).stopped = t.stopped /\ Fired(t).armed = FALSE
         /\ Fired(t).gen = t.gen
         /\ Fired(t).waiting = t.waiting \cup {t.gen}
  BY DEF Timer, Fired

LEMMA CheckedFields ==
  ASSUME NEW t \in Timer, NEW g \in t.waiting
  PROVE  /\ Checked(t, g) \in Timer
         /\ Checked(t, g).stopped = TRUE /\ Checked(t, g).armed = t.armed
         /\ Checked(t, g).gen = t.gen
         /\ Checked(t, g).waiting = t.waiting \ {g}
  BY DEF Timer, Checked

-----------------------------------------------------------------------------
\* TypeOK alone is not what the proofs of the other invariants need; they are
\* proved together with it.
IInv == TypeOK /\ RunningWillExpire

LEMMA InitInv ==
  ASSUME MaxStarts \in Nat PROVE Init => IInv
  BY DEF Init, NewTimer, IInv, TypeOK, Timer, RunningWillExpire

LEMMA NextInv ==
  ASSUME MaxStarts \in Nat PROVE IInv /\ [Next]_timer => IInv'
  <1> SUFFICES ASSUME IInv, [Next]_timer PROVE IInv'
    OBVIOUS
  <1>0. /\ timer \in Timer /\ timer.gen \in Nat
        /\ timer.gen <= MaxStarts /\ timer.waiting \subseteq 1 .. timer.gen
        /\ timer.armed => timer.gen > 0
        /\ ~timer.stopped => timer.armed \/ timer.gen \in timer.waiting
    BY DEF IInv, TypeOK, RunningWillExpire, Timer
  <1> SUFFICES /\ timer' \in Timer /\ timer'.gen <= MaxStarts
               /\ timer'.waiting \subseteq 1 .. timer'.gen
               /\ timer'.armed => timer'.gen > 0
               /\ ~timer'.stopped => timer'.armed \/ timer'.gen \in timer'.waiting
    BY DEF IInv, TypeOK, RunningWillExpire, Timer
  <1>1. CASE Start
    <2>1. timer' = Started(timer) /\ timer.gen < MaxStarts
      BY <1>1 DEF Start
    <2>2. /\ timer' \in Timer /\ ~timer'.stopped /\ timer'.armed
          /\ timer'.gen = timer.gen + 1
          /\ timer'.waiting = timer.waiting
      BY <1>0, <2>1, StartedFields
    <2> QED BY <1>0, <2>1, <2>2
  <1>2. CASE Stop
    <2>1. timer' = Stopped(timer)
      BY <1>2 DEF Stop
    <2>2. /\ timer' \in Timer /\ timer'.stopped /\ ~timer'.armed
          /\ timer'.gen = timer.gen
          /\ timer'.waiting = timer.waiting
      BY <1>0, <2>1, StoppedFields
    <2> QED BY <1>0, <2>2
  <1>3. CASE Fire
    <2>1. timer' = Fired(timer) /\ timer.armed
      BY <1>3 DEF Fire
    <2>2. /\ timer' \in Timer /\ timer'.stopped = timer.stopped /\ ~timer'.armed
          /\ timer'.gen = timer.gen
          /\ timer'.waiting = timer.waiting \cup {timer.gen}
         
      BY <1>0, <2>1, FiredFields
    <2> QED BY <1>0, <2>1, <2>2
  <1>4. ASSUME NEW g \in timer.waiting, Callback(g)
        PROVE  /\ timer' \in Timer /\ timer'.gen <= MaxStarts
               /\ timer'.waiting \subseteq 1 .. timer'.gen
               /\ timer'.armed => timer'.gen > 0
               /\ ~timer'.stopped => timer'.armed \/ timer'.gen \in timer'.waiting
    <2>1. timer' = Checked(timer, g)
      BY <1>4 DEF Callback
    <2>2. /\ timer' \in Timer /\ timer'.stopped /\ timer'.armed = timer.armed
          /\ timer'.gen = timer.gen /\ timer'.waiting = timer.waiting \ {g}
      BY <1>0, <2>1, CheckedFields
    <2> QED BY <1>0, <2>2
  <1>5. CASE UNCHANGED timer
    BY <1>0, <1>5
  <1> QED BY <1>1, <1>2, <1>3, <1>4, <1>5 DEF Next

LEMMA InvHolds ==
  ASSUME MaxStarts \in Nat PROVE Spec => []IInv
  BY InitInv, NextInv, PTL DEF Spec

\* Every reachable timer is well typed, whatever the bound on its starts.
THEOREM TypeCorrect ==
  ASSUME MaxStarts \in Nat PROVE Spec => []TypeOK
  BY InvHolds, PTL DEF IInv

\* A running timer never loses its expiry to a stale callback.
THEOREM RunningTimerWillExpire ==
  ASSUME MaxStarts \in Nat PROVE Spec => []RunningWillExpire
  BY InvHolds, PTL DEF IInv
=============================================================================
