------------------------------ MODULE AIManager ------------------------------
(***************************************************************************)
(* The turns of AI players: AIPlayerManager in internal/ai/manager.go.     *)
(*                                                                         *)
(* ScheduleAITurn arms a runtime timer with time.AfterFunc and remembers   *)
(* it as the room's pending one; CancelRoom and Shutdown stop what is      *)
(* remembered.  A timer that has fired runs its callback in a goroutine of *)
(* its own: it takes the mutex, deletes the entry of its room whoever made *)
(* it, gives the mutex back, and only then asks the decider and runs the   *)
(* executor.  Both are functions the manager is given; the decider may     *)
(* fail.  Turns are numbered in the order they are scheduled.              *)
(***************************************************************************)
EXTENDS Integers, FiniteSets

CONSTANTS Rooms,
          NoRoom,
          MaxTurns        \* bounds the number of calls of ScheduleAITurn

ASSUME RoomsAssumption == NoRoom \notin Rooms /\ MaxTurns \in Nat

Turns  == 1 .. MaxTurns
NoTurn == 0

\* Where a turn is: not yet scheduled; its timer armed or stopped; its
\* callback waiting for the mutex, asking the decider, running the executor;
\* or done with.
Phases == {"unused", "armed", "stopped", "waiting", "deciding", "executing", "done"}

VARIABLES
  pending,      \* pendingTimers: the turn whose timer a room's entry holds
  phase,        \* where each turn is
  roomOf,       \* the room a turn was scheduled for
  cancelled,    \* history: turns that were still to come when their room was
                \*   cancelled, scheduled again or shut down
  late,         \* history: those of them whose callback waited for the mutex then
  overlapped    \* history: turns scheduled while an older turn of the same
                \*   room was on its way to the mutex and out of Stop's reach

history == <<cancelled, late, overlapped>>
vars    == <<pending, phase, roomOf, history>>

-----------------------------------------------------------------------------
Init ==
  /\ pending = [r \in Rooms |-> NoTurn]
  /\ phase = [t \in Turns |-> "unused"]
  /\ roomOf = [t \in Turns |-> NoRoom]
  /\ cancelled = {} /\ late = {} /\ overlapped = {}

TurnsOf(r) == { t \in Turns : roomOf[t] = r }
Coming(r)  == { t \in TurnsOf(r) : phase[t] \in {"armed", "waiting"} }
Waiting(r) == { t \in TurnsOf(r) : phase[t] = "waiting" }
Used       == { t \in Turns : phase[t] # "unused" }

NewTurn == Cardinality(Used) + 1

\* Mutant: the timer of the entry is not stopped.
StopNothing(rs) == phase

\* timer.Stop of the entries of rs: an armed timer will not fire; one that has
\* fired is not called back.
StopPending(rs) ==
  [t \in Turns |-> IF phase[t] = "armed" /\ \E r \in rs : pending[r] = t
                   THEN "stopped" ELSE phase[t]]

\* ScheduleAITurn.
ScheduleAITurn(r) ==
  /\ Used # Turns
  /\ phase' = [StopPending({r}) EXCEPT ![NewTurn] = "armed"]
  /\ pending' = [pending EXCEPT ![r] = NewTurn]
  /\ roomOf' = [roomOf EXCEPT ![NewTurn] = r]
  /\ cancelled' = cancelled \cup Coming(r)
  /\ late' = late \cup Waiting(r)
  /\ overlapped' = IF \E u \in TurnsOf(r) : StopPending({r})[u] \in {"armed", "waiting"}
                   THEN overlapped \cup {NewTurn} ELSE overlapped

\* CancelRoom and Shutdown: the one cancels a room, the other all of them.  A room
\* without an entry stays as it is.
Cancel(rs) ==
  /\ phase' = StopPending(rs)
  /\ pending' = [r \in Rooms |-> IF r \in rs THEN NoTurn ELSE pending[r]]
  /\ cancelled' = cancelled \cup UNION { Coming(r) : r \in rs }
  /\ late' = late \cup UNION { Waiting(r) : r \in rs }
  /\ UNCHANGED <<roomOf, overlapped>>

CancelRoom(r) == Cancel({r})
Shutdown      == Cancel(Rooms)

\* The runtime starts the callback's goroutine.
Fire(t) ==
  /\ phase[t] = "armed"
  /\ phase' = [phase EXCEPT ![t] = "waiting"]
  /\ UNCHANGED <<pending, roomOf, history>>

\* Mutant: the callback leaves the entry.
CallbackKeepsEntry(t) ==
  /\ phase[t] = "waiting"
  /\ phase' = [phase EXCEPT ![t] = "deciding"]
  /\ UNCHANGED <<pending, roomOf, history>>

\* The callback under the mutex.
Callback(t) ==
  /\ phase[t] = "waiting"
  /\ phase' = [phase EXCEPT ![t] = "deciding"]
  /\ pending' = [pending EXCEPT ![roomOf[t]] = NoTurn]
  /\ UNCHANGED <<roomOf, history>>

\* Mutant: a decider that failed is called back until it answers.
DecideAgain(t) ==
  /\ phase[t] = "deciding"
  /\ phase' \in { [phase EXCEPT ![t] = next] : next \in {"executing", "waiting"} }
  /\ UNCHANGED <<pending, roomOf, history>>

\* The decider answers or fails.
Decide(t) ==
  /\ phase[t] = "deciding"
  /\ phase' \in { [phase EXCEPT ![t] = next] : next \in {"executing", "done"} }
  /\ UNCHANGED <<pending, roomOf, history>>

\* The executor runs the action.
Execute(t) ==
  /\ phase[t] = "executing"
  /\ phase' = [phase EXCEPT ![t] = "done"]
  /\ UNCHANGED <<pending, roomOf, history>>

Next ==
  \/ \E r \in Rooms : ScheduleAITurn(r) \/ CancelRoom(r)
  \/ Shutdown
  \/ \E t \in Turns : Fire(t) \/ Callback(t) \/ Decide(t) \/ Execute(t)

Spec == Init /\ [][Next]_vars

\* The runtime fires armed timers, and goroutines run on; nothing is assumed
\* of the callers.
FairSpec == Spec /\ \A t \in Turns : /\ WF_vars(Fire(t)) /\ WF_vars(Callback(t))
                                     /\ WF_vars(Decide(t)) /\ WF_vars(Execute(t))

-----------------------------------------------------------------------------
TypeOK ==
  /\ pending \in [Rooms -> Turns \cup {NoTurn}]
  /\ phase \in [Turns -> Phases]
  /\ roomOf \in [Turns -> Rooms \cup {NoRoom}]
  /\ cancelled \subseteq Turns /\ late \subseteq Turns /\ overlapped \subseteq Turns

\* The entry of a room is its newest turn, and that turn is still to come: a
\* cancel never stops a timer in vain, and no callback that is past the mutex
\* has an entry (manager.go:46-52).
EntryIsStillToCome ==
  \A r \in Rooms : pending[r] # NoTurn =>
    /\ roomOf[pending[r]] = r
    /\ phase[pending[r]] \in {"armed", "waiting"}
    /\ \A t \in TurnsOf(r) : t <= pending[r]

\* A cancel, a new schedule and a shutdown stop each turn of their room that is
\* still to come, but for two kinds: a turn whose callback had fired and waits for
\* the mutex, and a turn that was scheduled while an older one of the room was on
\* its way to the mutex, whose callback deletes the newer turn's entry
\* (manager.go:41-43, 49-51, 71-73, 83-85).  The comments at manager.go:66 and 78
\* speak of all pending timers; timers of the second kind escape them.
CancelStopsTheRest ==
  /\ \A t \in cancelled \ (late \cup overlapped) : phase[t] = "stopped"
  /\ \A t \in Turns \ overlapped : phase[t] = "armed" => pending[roomOf[t]] = t

\* Every turn that is scheduled is replaced, cancelled, or run to its end; no
\* schedule, cancel or late callback can make one vanish.
TurnsAreAnswered ==
  \A t \in Turns : phase[t] = "armed" ~> phase[t] \in {"stopped", "done"}

=============================================================================
