----------------------------- MODULE TurnTimer -----------------------------
(***************************************************************************)
(* The turn timer: internal/game/timer.go.                                 *)
(*                                                                         *)
(* Start arms a runtime timer with time.AfterFunc; when it fires, the      *)
(* runtime runs the callback in a goroutine of its own, which takes        *)
(* TurnTimer.mu and looks at `stopped' before it calls onExpire.  Between  *)
(* the firing and the look any number of Start, Reset and Stop may run.    *)
(* Every call of Start makes a new generation of the runtime timer; the    *)
(* goroutines that fired and wait for the mutex are known by theirs.       *)
(* Durations are left out: an armed timer may fire at any moment.          *)
(***************************************************************************)
EXTENDS Integers, FiniteSets

CONSTANT MaxStarts        \* bounds the number of calls of Start

VARIABLE timer

Timer == [ stopped  : BOOLEAN,
           gen      : Nat,          \* how often Start ran
           armed    : BOOLEAN,      \* the runtime timer of gen has yet to fire
           waiting  : SUBSET Nat ]  \* fired callbacks that wait for the mutex

\* NewTurnTimer.
NewTimer == [stopped |-> TRUE, gen |-> 0, armed |-> FALSE, waiting |-> {}]

\* Start: stopLocked, then a new runtime timer.  Reset only calls Start.
Started(t) == [t EXCEPT !.stopped = FALSE, !.gen = @ + 1, !.armed = TRUE]

\* Stop: stopLocked.  The runtime's Stop does not recall a callback that has
\* fired already.
Stopped(t) == [t EXCEPT !.stopped = TRUE, !.armed = FALSE]

\* The runtime starts the callback's goroutine.
Fired(t) == [t EXCEPT !.armed = FALSE, !.waiting = @ \cup {t.gen}]

\* The callback of generation g under the mutex: it returns if the timer is
\* stopped, and else stops it and goes on to onExpire.  Either way the timer is
\* stopped then; an armed runtime timer stays armed.
Checked(t, g) == [t EXCEPT !.waiting = @ \ {g}, !.stopped = TRUE]

-----------------------------------------------------------------------------
Init == timer = NewTimer

Start       == timer.gen < MaxStarts /\ timer' = Started(timer)
Stop        == timer' = Stopped(timer)
Fire        == timer.armed /\ timer' = Fired(timer)
Callback(g) == g \in timer.waiting /\ timer' = Checked(timer, g)

\* The callback of g finds the timer running and calls onExpire.
Expired(g)  == Callback(g) /\ ~timer.stopped

Next == Start \/ Stop \/ Fire \/ \E g \in timer.waiting : Callback(g)

Spec == Init /\ [][Next]_timer

\* The runtime fires an armed timer, and the callback that waits for the mutex
\* gets it: every holder releases it within a few statements.
FairSpec == /\ Spec /\ WF_timer(Fire)
            /\ \A g \in 1 .. MaxStarts : WF_timer(Callback(g))

-----------------------------------------------------------------------------
TypeOK == /\ timer \in Timer
          /\ timer.gen <= MaxStarts
          /\ timer.waiting \subseteq 1 .. timer.gen
          /\ timer.armed => timer.gen > 0

\* A timer that is not stopped has its newest runtime timer armed or its
\* callback on the way: a stale callback that gets in first stops the timer
\* and cannot leave a running one that will never expire (timer.go:30-39).
RunningWillExpire ==
  ~timer.stopped => timer.armed \/ timer.gen \in timer.waiting

\* After a Reset the callback of the earlier start does not expire the timer,
\* also if it had fired and was waiting for the mutex: the flag `stopped' tells
\* it to return.  So docs/game_event_flow.md:111 and docs/turn_timer.md:107-119
\* say; the code clears the flag again (timer.go:31, 35).
StaleCallbackReturns ==
  [][\A g \in timer.waiting : Expired(g) => g = timer.gen]_timer
=============================================================================
