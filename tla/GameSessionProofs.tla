-------------------------- MODULE GameSessionProofs --------------------------
(***************************************************************************)
(* The session of a room's games: a running game has a clock, a finished   *)
(* game leaves the room, its end is announced, and the state is well       *)
(* typed.  Proved for every number of players, games, turns and timer      *)
(* goroutines, and for every number of failing Redis calls and crashes.    *)
(*                                                                         *)
(* Clock and leaving are one invariant, Attended: the room's timer runs,   *)
(* or a goroutine is on its way that will restart it or remove the game.   *)
(* What it needs besides is about the host's start: between AddEngine and  *)
(* SetTimer is the only time at which the room has an engine and no timer, *)
(* and the timer that the start is about to run is the room's, unless a    *)
(* cleanup took engine and timer away in between.                          *)
(*                                                                         *)
(* The bound on the restarts of a timer, which is part of the types, is an *)
(* account of them, in the second half.                                    *)
(***************************************************************************)
EXTENDS GameSession, FiniteSetTheorems, TLAPS

\* A timer that is not stopped has its newest runtime timer armed or its callback
\* on the way.
Timers == { t \in T(1)!Timer : /\ ~t.stopped => t.armed \/ t.gen \in t.waiting
                               /\ t.waiting \subseteq 1 .. t.gen
                               /\ t.armed => t.gen > 0 }

Locals == [eng : 0 .. MaxGames, tmr : 0 .. MaxGames]

TypesOK ==
  /\ pc \in [Threads -> Steps]
  /\ local \in [Threads -> Locals]
  /\ mgrEngine \in 0 .. MaxGames /\ mgrTimer \in 0 .. MaxGames
  /\ engines \in [Games -> Engine]
  /\ timers \in [Games -> Timers]
  /\ saved \subseteq Position
  /\ games \in 0 .. MaxGames

\* A handler that has got this far holds the objects it works on.
Holding == {"handleEvent", "forceAction", "isGameOver", "endGame", "getRoom"}

Holds(t) ==
  /\ pc[t] \in Holding => local[t].eng \in Games
  /\ pc[t] = "resetTimer" => local[t].tmr \in Games

HoldsObjects == \A t \in Threads : Holds(t)

\* The steps of StartGame before the room is saved.
Starting == {"startEngine", "addEngine", "setTimer", "startTimer"}

\* The host starts the newest game; its engine is in no room yet ...
StartsNewest ==
  /\ pc[Host] \in Starting => local[Host].eng = games /\ games \in Games
  /\ mgrEngine <= games /\ mgrTimer <= games
  /\ pc[Host] \in {"startEngine", "addEngine"} => mgrEngine # games

\* ... an engine without a timer gets one next, and the timer that is about to
\* be started is the room's or nobody's.
StartsTimer ==
  /\ mgrEngine # 0 /\ mgrTimer = 0 => pc[Host] = "setTimer"
  /\ pc[Host] = "startTimer" => mgrTimer \in {0, games}

TimerRuns == mgrTimer # 0 /\ ~timers[mgrTimer].stopped

\* A goroutine that will restart the room's timer or see that the game is over ...
WillSee(t) ==
  \/ pc[t] \in {"expired", "getTimer"}
  \/ pc[t] \in {"forceAction", "isGameOver"} /\ local[t].eng = mgrEngine
  \/ pc[t] = "resetTimer" /\ local[t].tmr = mgrTimer

\* ... or has seen it.
WillRemove(t) ==
  /\ engines[mgrEngine].at.over
  /\ \/ pc[t] \in {"endGame", "getRoom"} /\ local[t].eng = mgrEngine
     \/ pc[t] = "removeEngine"

Watches(t) == WillSee(t) \/ WillRemove(t)

\* The end of the game was met by an expiry that found no room.
Stranded == engines[mgrEngine].at.over /\ engines[mgrEngine].stranded

Attended ==
  mgrEngine # 0 => \/ TimerRuns
                   \/ pc[Host] \in {"setTimer", "startTimer"}
                   \/ \E t \in Threads : Watches(t)
                   \/ Stranded

IInv == TypesOK /\ HoldsObjects /\ StartsNewest /\ StartsTimer /\ Attended /\ EndIsAnnounced

USE PlayersAssumption, SlotsAssumption, BoundsAssumption

-----------------------------------------------------------------------------
\* What the operations of a timer do.
LEMMA StartedTimer ==
  ASSUME NEW t \in Timers
  PROVE  Started(t) \in Timers /\ Started(t).stopped = FALSE /\ Started(t).gen = t.gen + 1
  <1>1. t.gen \in Nat /\ t.gen + 1 \in Nat
    BY DEF Timers, T!Timer
  <1>2. /\ Started(t).stopped = FALSE /\ Started(t).armed = TRUE
        /\ Started(t).gen = t.gen + 1 /\ Started(t).waiting = t.waiting
    BY DEF Timers, T!Timer, T!Started, Started
  <1>3. Started(t) \in T(1)!Timer
    BY <1>1 DEF Timers, T!Timer, T!Started, Started
  <1>4. t.waiting \subseteq 1 .. (t.gen + 1)
    BY <1>1 DEF Timers
  <1> QED BY <1>1, <1>2, <1>3, <1>4 DEF Timers

LEMMA StoppedTimer ==
  ASSUME NEW t \in Timers PROVE Stopped(t) \in Timers /\ Stopped(t).gen = t.gen
  BY DEF Timers, T!Timer, T!Stopped, Stopped

LEMMA FiredTimer ==
  ASSUME NEW t \in Timers, t.armed
  PROVE  Fired(t) \in Timers /\ Fired(t).stopped = t.stopped /\ Fired(t).gen = t.gen
  <1>1. t.gen \in Nat /\ t.gen \in 1 .. t.gen
    BY DEF Timers, T!Timer
  <1>2. /\ Fired(t).stopped = t.stopped /\ Fired(t).armed = FALSE
        /\ Fired(t).gen = t.gen /\ Fired(t).waiting = t.waiting \cup {t.gen}
    BY DEF Timers, T!Timer, T!Fired, Fired
  <1>3. Fired(t) \in T(1)!Timer
    BY DEF Timers, T!Timer, T!Fired, Fired
  <1> QED BY <1>1, <1>2, <1>3 DEF Timers

LEMMA CheckedTimer ==
  ASSUME NEW t \in Timers, NEW g \in t.waiting
  PROVE  Checked(t, g) \in Timers /\ Checked(t, g).gen = t.gen
  BY DEF Timers, T!Timer, T!Checked, Checked

LEMMA NewTimerType == NewTimer \in Timers /\ NewTimer.gen = 0
  BY DEF Timers, T!Timer, T!NewTimer, NewTimer

LEMMA NoEngineType ==
  NoEngine \in Engine /\ NoEngine.at.over = FALSE /\ NoLocals \in Locals /\ Dealt \in Position
  <1>1. 0 \in Players
    BY DEF Players
  <1>2. Dealt \in Position /\ Dealt.over = FALSE
    BY <1>1 DEF Dealt, Position
  <1>3. NoEngine \in Engine /\ NoEngine.at = Dealt
    BY <1>2 DEF NoEngine, Engine
  <1>4. NoLocals \in Locals
    BY DEF NoLocals, Locals
  <1> QED BY <1>2, <1>3, <1>4

LEMMA InitInv == Init => IInv
  <1> SUFFICES ASSUME Init PROVE IInv
    OBVIOUS
  <1> USE DEF Init
  <1>1. TypesOK
    <2>1. pc \in [Threads -> Steps] /\ local \in [Threads -> Locals]
      BY NoEngineType DEF Steps
    <2>2. engines \in [Games -> Engine] /\ timers \in [Games -> Timers]
      BY NewTimerType, NoEngineType
    <2>3. mgrEngine \in 0 .. MaxGames /\ mgrTimer \in 0 .. MaxGames /\ games \in 0 .. MaxGames
      OBVIOUS
    <2> QED BY <2>1, <2>2, <2>3 DEF TypesOK
  <1>2. \A t \in Threads : pc[t] = "idle"
    OBVIOUS
  <1>3. Host \in Threads
    BY DEF Threads
  <1>4. HoldsObjects
    BY <1>2 DEF HoldsObjects, Holds, Holding
  <1>5. StartsNewest /\ StartsTimer
    BY <1>2, <1>3 DEF StartsNewest, StartsTimer, Starting
  <1>6. Attended
    BY DEF Attended
  <1>7. EndIsAnnounced
    BY NoEngineType DEF EndIsAnnounced
  <1> QED BY <1>1, <1>4, <1>5, <1>6, <1>7 DEF IInv

\* What the invariant says of the properties.
LEMMA AttendedGames ==
  ASSUME TypesOK, Attended PROVE RunningGameHasClock /\ FinishedGameLeaves
  <1>1. TimerRuns => mgrTimer # 0 /\ ~timers[mgrTimer].stopped /\ T(mgrTimer)!RunningWillExpire
    BY DEF TimerRuns, T!RunningWillExpire, TypesOK, Timers, Games
  <1>2. TimerRuns \/ pc[Host] \in {"setTimer", "startTimer"} \/ (\E t \in Threads : WillSee(t))
          => ClockIsOn
    BY <1>1 DEF ClockIsOn, WillSee
  <1>3. RunningGameHasClock
    BY <1>2 DEF Attended, Watches, WillRemove, Stranded, RunningGameHasClock
  <1>4. FinishedGameLeaves
    BY <1>2 DEF Attended, Watches, WillRemove, Stranded, FinishedGameLeaves
  <1> QED BY <1>3, <1>4

-----------------------------------------------------------------------------
\* A step of thread t, as the others see it.
StepOf(t, step) ==
  /\ pc' \in [Threads -> Steps] /\ local' \in [Threads -> Locals]
  /\ pc'[t] = step
  /\ \A s \in Threads : s # t => pc'[s] = pc[s] /\ local'[s] = local[s]

LEMMA GotoMoves ==
  ASSUME TypesOK, NEW t \in Threads, NEW step \in Steps, Goto(t, step), local' = local
  PROVE  StepOf(t, step) /\ local'[t] = local[t]
  BY DEF TypesOK, Goto, StepOf

LEMMA DropMoves ==
  ASSUME TypesOK, NEW t \in Threads, NEW step \in Steps, Goto(t, step), Drop(t)
  PROVE  StepOf(t, step)
  BY NoEngineType DEF TypesOK, Drop, Goto, StepOf

LEMMA ReturnMoves ==
  ASSUME TypesOK, NEW t \in Threads, Return(t)
  PROVE  StepOf(t, "idle")
  BY DropMoves DEF Return, Steps

\* The thread takes hold of an engine ...
LEMMA TakeEngineMoves ==
  ASSUME TypesOK, NEW t \in Threads, NEW step \in Steps, Goto(t, step), NEW e \in 0 .. MaxGames,
         local' = [local EXCEPT ![t].eng = e]
  PROVE  StepOf(t, step) /\ local'[t].eng = e
  <1>1. local' = [local EXCEPT ![t] = [local[t] EXCEPT !.eng = e]]
    OBVIOUS
  <1>2. [local[t] EXCEPT !.eng = e] \in Locals /\ [local[t] EXCEPT !.eng = e].eng = e
    BY DEF TypesOK, Locals
  <1> QED BY <1>1, <1>2 DEF TypesOK, Goto, StepOf

\* ... or of a timer.
LEMMA TakeTimerMoves ==
  ASSUME TypesOK, NEW t \in Threads, NEW step \in Steps, Goto(t, step), NEW e \in 0 .. MaxGames,
         local' = [local EXCEPT ![t].tmr = e]
  PROVE  StepOf(t, step) /\ local'[t].tmr = e
  <1>1. local' = [local EXCEPT ![t] = [local[t] EXCEPT !.tmr = e]]
    OBVIOUS
  <1>2. [local[t] EXCEPT !.tmr = e] \in Locals /\ [local[t] EXCEPT !.tmr = e].tmr = e
    BY DEF TypesOK, Locals
  <1> QED BY <1>1, <1>2 DEF TypesOK, Goto, StepOf

\* Steps of StartGame aside, nothing disturbs what the host has begun.
LEMMA HostKept ==
  ASSUME StartsNewest, StartsTimer, NEW t \in Threads, NEW step, StepOf(t, step),
         pc[t] \notin Starting, step \notin Starting,
         UNCHANGED <<mgrEngine, mgrTimer, games>>
  PROVE  StartsNewest' /\ StartsTimer'
  <1>1. Host \in Threads
    BY DEF Threads
  <1>2. CASE t = Host
    BY <1>1, <1>2 DEF StartsNewest, StartsTimer, StepOf, Starting
  <1>3. CASE t # Host
    BY <1>1, <1>3 DEF StartsNewest, StartsTimer, StepOf, Starting
  <1> QED BY <1>2, <1>3

LEMMA ObjectsKept ==
  ASSUME HoldsObjects, NEW t \in Threads, NEW step, StepOf(t, step), Holds(t)'
  PROVE  HoldsObjects'
  BY DEF HoldsObjects, Holds, StepOf

\* The room's game stays attended if the thread hands on what it was about to
\* do, and if nobody else turns the timer off.
GameEndsForGood ==
  mgrEngine # 0 => /\ engines[mgrEngine].at.over => engines'[mgrEngine].at.over
                   /\ engines[mgrEngine].stranded => engines'[mgrEngine].stranded

Attends(t) ==
  /\ TimerRuns => TimerRuns' \/ WillSee(t)'
  /\ mgrEngine # 0 /\ Watches(t) => TimerRuns' \/ Watches(t)' \/ Stranded'

LEMMA AttendedKept ==
  ASSUME Attended, NEW t \in Threads, NEW step, StepOf(t, step),
         pc[t] \notin {"setTimer", "startTimer"}, UNCHANGED <<mgrEngine, mgrTimer>>,
         GameEndsForGood, Attends(t)
  PROVE  Attended'
  <1> SUFFICES ASSUME mgrEngine # 0
               PROVE  \/ TimerRuns'
                      \/ pc'[Host] \in {"setTimer", "startTimer"}
                      \/ \E s \in Threads : Watches(s)'
                      \/ Stranded'
    BY DEF Attended
  <1>1. Host \in Threads
    BY DEF Threads
  <1>2. CASE TimerRuns \/ Watches(t)
    BY <1>2 DEF Attends, Watches
  <1>3. CASE pc[Host] \in {"setTimer", "startTimer"}
    <2>1. pc'[Host] = pc[Host]
      BY <1>1, <1>3 DEF StepOf
    <2> QED BY <1>3, <2>1
  <1>4. CASE \E s \in Threads : s # t /\ Watches(s)
    <2>1. PICK s \in Threads : s # t /\ Watches(s)
      BY <1>4
    <2>2. pc'[s] = pc[s] /\ local'[s] = local[s]
      BY <2>1 DEF StepOf
    <2>3. Watches(s)'
      BY <2>1, <2>2 DEF Watches, WillSee, WillRemove, GameEndsForGood
    <2> QED BY <2>3
  <1>5. CASE Stranded
    BY <1>5 DEF Stranded, GameEndsForGood
  <1> QED BY <1>2, <1>3, <1>4, <1>5 DEF Attended

\* A thread that has seen, or will see, the end of game e.
Announces(t, e) == pc[t] \in {"isGameOver", "endGame"} /\ local[t].eng = e

Unannounced(e) == engines[e].at.over /\ ~engines[e].wasOver /\ ~engines[e].announced

\* An end is announced by the thread that brought it about.
AnnouncesEnds(t) ==
  /\ \A e \in Games : Unannounced(e)' => Unannounced(e) \/ Announces(t, e)'
  /\ \A e \in Games : Announces(t, e) /\ Unannounced(e)' => Announces(t, e)'

LEMMA AnnouncedKept ==
  ASSUME EndIsAnnounced, NEW t \in Threads, NEW step, StepOf(t, step), AnnouncesEnds(t)
  PROVE  EndIsAnnounced'
  <1> SUFFICES ASSUME NEW e \in Games, Unannounced(e)'
               PROVE  \E s \in Threads : Announces(s, e)'
    BY DEF EndIsAnnounced, Unannounced, Announces
  <1>1. CASE ~Unannounced(e)
    BY <1>1 DEF AnnouncesEnds
  <1>2. CASE Unannounced(e)
    <2>1. PICK s \in Threads : Announces(s, e)
      BY <1>2 DEF EndIsAnnounced, Unannounced, Announces
    <2>2. CASE s = t
      BY <2>1, <2>2 DEF AnnouncesEnds
    <2>3. CASE s # t
      <3>1. pc'[s] = pc[s] /\ local'[s] = local[s]
        BY <2>3 DEF StepOf
      <3>2. Announces(s, e)'
        BY <2>1, <3>1 DEF Announces
      <3> QED BY <3>2
    <2> QED BY <2>2, <2>3
  <1> QED BY <1>1, <1>2

\* Steps of one thread ...
LEMMA AnyStep ==
  ASSUME IInv, NEW t \in Threads, NEW step, StepOf(t, step),
         pc[t] \notin Starting, step \notin Starting,
         UNCHANGED <<mgrEngine, mgrTimer, games>>,
         engines' \in [Games -> Engine], timers' \in [Games -> Timers], saved' \subseteq Position,
         Holds(t)', GameEndsForGood, Attends(t), AnnouncesEnds(t)
  PROVE  IInv'
  <1>1. TypesOK'
    BY DEF IInv, TypesOK, StepOf
  <1>2. HoldsObjects' /\ StartsNewest' /\ StartsTimer'
    BY HostKept, ObjectsKept DEF IInv
  <1>3. Attended'
    BY AttendedKept DEF IInv, Starting
  <1>4. EndIsAnnounced'
    BY AnnouncedKept DEF IInv
  <1> QED BY <1>1, <1>2, <1>3, <1>4 DEF IInv

\* ... and those that leave engines and timers alone.
LEMMA ThreadStep ==
  ASSUME IInv, NEW t \in Threads, NEW step, StepOf(t, step),
         pc[t] \notin Starting, step \notin Starting,
         UNCHANGED <<memory, games>>, saved' \subseteq Position, Holds(t)',
         mgrEngine # 0 /\ Watches(t) => Watches(t)',
         \A e \in Games : Announces(t, e) /\ engines[e].at.over => Announces(t, e)'
  PROVE  IInv'
  <1>1. UNCHANGED <<mgrEngine, mgrTimer, engines, timers>>
    BY DEF memory
  <1>2. engines' \in [Games -> Engine] /\ timers' \in [Games -> Timers]
    BY <1>1 DEF IInv, TypesOK
  <1>3. GameEndsForGood /\ Attends(t)
    BY <1>1 DEF GameEndsForGood, Attends, TimerRuns
  <1>4. AnnouncesEnds(t)
    BY <1>1 DEF AnnouncesEnds, Unannounced
  <1> QED BY <1>1, <1>2, <1>3, <1>4, AnyStep

\* The thread's handler is over.
LEMMA ReturnStep ==
  ASSUME IInv, NEW t \in Threads, Return(t), pc[t] \notin Starting,
         UNCHANGED <<memory, games>>, saved' \subseteq Position,
         ~Watches(t) \/ mgrEngine = 0, pc[t] \notin {"isGameOver", "endGame"}
  PROVE  IInv'
  <1>1. StepOf(t, "idle")
    BY ReturnMoves DEF IInv
  <1>2. "idle" \notin Starting
    BY DEF Starting
  <1>3. Holds(t)'
    BY <1>1 DEF Holds, Holding, StepOf
  <1>4. \A e \in Games : ~Announces(t, e)
    BY DEF Announces
  <1> QED BY <1>1, <1>2, <1>3, <1>4, ThreadStep

-----------------------------------------------------------------------------
LEMMA ProcessActionInv == ASSUME IInv, NEW p \in Players, ProcessAction(p) PROVE IInv'
  <1>0. p \in Threads /\ TypesOK /\ pc[p] = "idle"
    BY DEF Threads, IInv, ProcessAction, At
  <1>1. mgrEngine \in Games
    BY <1>0 DEF ProcessAction, TypesOK, Games
  <1>2. StepOf(p, "handleEvent") /\ local'[p].eng = mgrEngine
    <2>1. mgrEngine \in 0 .. MaxGames /\ "handleEvent" \in Steps
      BY <1>0 DEF TypesOK, Steps
    <2>2. Goto(p, "handleEvent") /\ local' = [local EXCEPT ![p].eng = mgrEngine]
      BY DEF ProcessAction
    <2> QED BY <1>0, <2>1, <2>2, TakeEngineMoves
  <1>3. pc[p] \notin Starting /\ "handleEvent" \notin Starting /\ ~Watches(p)
    BY <1>0 DEF Starting, Watches, WillSee, WillRemove
  <1>4. Holds(p)' /\ \A e \in Games : ~Announces(p, e)
    BY <1>0, <1>1, <1>2 DEF Holds, StepOf, Announces
  <1>5. UNCHANGED <<memory, games>> /\ saved' \subseteq Position
    BY <1>0 DEF ProcessAction, redis, bounds, TypesOK
  <1> QED BY <1>0, <1>2, <1>3, <1>4, <1>5, ThreadStep

\* An engine at another position, and its thread about to look at it.
LEMMA PositionStep ==
  ASSUME IInv, NEW t \in Threads, local[t].eng \in Games, NEW next \in Position,
         engines[local[t].eng].at.over => next.over,
         SetPosition(local[t].eng, next), SaveState(next), StepOf(t, "isGameOver"),
         local'[t].eng = local[t].eng, pc[t] \in {"handleEvent", "forceAction"},
         UNCHANGED <<mgrEngine, mgrTimer, timers>>
  PROVE  IInv'
  <1> DEFINE e == local[t].eng
  <1>0. TypesOK
    BY DEF IInv
  <1>1. engines' = [engines EXCEPT ![e] = [engines[e] EXCEPT !.at = next]]
    BY DEF SetPosition
  <1>2. /\ engines[e] \in Engine /\ [engines[e] EXCEPT !.at = next] \in Engine
        /\ [engines[e] EXCEPT !.at = next].at = next
        /\ [engines[e] EXCEPT !.at = next].stranded = engines[e].stranded
    BY <1>0 DEF TypesOK, Engine
  <1>3. /\ engines' \in [Games -> Engine] /\ engines'[e].at = next
        /\ engines'[e].stranded = engines[e].stranded
        /\ \A g \in Games : g # e => engines'[g] = engines[g]
    BY <1>0, <1>1, <1>2 DEF TypesOK
  <1>4. saved' \subseteq Position /\ games' = games
    BY <1>0 DEF SaveState, Redis, Failures, TypesOK
  <1>5. timers' \in [Games -> Timers] /\ (TimerRuns => TimerRuns')
    BY <1>0 DEF TypesOK, TimerRuns
  <1>6. pc'[t] = "isGameOver" /\ local'[t].eng = e
    BY DEF StepOf
  <1>7. Holds(t)'
    BY <1>6 DEF Holds
  <1>8. pc[t] \notin Starting /\ "isGameOver" \notin Starting
    BY DEF Starting
  <1>9. GameEndsForGood
    BY <1>0, <1>3 DEF GameEndsForGood, TypesOK, Games
  <1>10. Attends(t)
    <2>1. Watches(t) => mgrEngine = e
      BY DEF Watches, WillSee, WillRemove
    <2>2. mgrEngine = e => WillSee(t)'
      BY <1>6 DEF WillSee
    <2> QED BY <1>5, <2>1, <2>2 DEF Attends, Watches
  <1>11. AnnouncesEnds(t)
    <2>1. \A g \in Games : Announces(t, g)' <=> g = e
      BY <1>6 DEF Announces
    <2>2. \A g \in Games : g # e => (Unannounced(g)' <=> Unannounced(g))
      BY <1>3 DEF Unannounced
    <2> QED BY <2>1, <2>2 DEF AnnouncesEnds, Announces
  <1> QED BY <1>3, <1>4, <1>5, <1>7, <1>8, <1>9, <1>10, <1>11, AnyStep

LEMMA HandleEventMoves ==
  ASSUME IInv, NEW p \in Players, HandleEvent(p)
  PROVE  LET e == local[p].eng IN
         /\ p \in Threads /\ e \in Games /\ pc[p] = "handleEvent"
         /\ \/ Return(p) /\ UNCHANGED <<memory, redis, bounds>>
            \/ /\ StepOf(p, "isGameOver") /\ local'[p].eng = e
               /\ UNCHANGED <<mgrEngine, mgrTimer, timers, room>>
               /\ \E next \in Position :
                    /\ engines[e].at.over => next.over
                    /\ SetPosition(e, next) /\ SaveState(next) /\ Turn(next.over)
  <1> DEFINE e == local[p].eng
  <1>0. p \in Threads /\ TypesOK /\ pc[p] = "handleEvent"
    BY DEF Threads, IInv, HandleEvent, At
  <1>1. e \in Games
    BY <1>0 DEF IInv, HoldsObjects, Holds, Holding
  <1>2. ASSUME ~(Return(p) /\ UNCHANGED <<memory, redis, bounds>>)
        PROVE  /\ StepOf(p, "isGameOver") /\ local'[p].eng = e
               /\ UNCHANGED <<mgrEngine, mgrTimer, timers, room>>
               /\ \E next \in Position :
                    /\ engines[e].at.over => next.over
                    /\ SetPosition(e, next) /\ SaveState(next) /\ Turn(next.over)
    <2>1. /\ Goto(p, "isGameOver") /\ UNCHANGED <<local, mgrEngine, mgrTimer, timers, room>>
          /\ \E next \in Moves(e) \cup EndingCards(e) \cup LateRequests(e) :
               SetPosition(e, next) /\ SaveState(next) /\ Turn(next.over)
      BY <1>2 DEF HandleEvent
    <2>2. StepOf(p, "isGameOver") /\ local'[p] = local[p]
      BY <1>0, <2>1, GotoMoves DEF Steps
    <2>3. engines[e].at \in Position
      BY <1>0, <1>1 DEF TypesOK, Engine
    <2>4. \A next \in Moves(e) \cup EndingCards(e) \cup LateRequests(e) :
            next \in Position /\ (engines[e].at.over => next.over)
      BY <2>3 DEF Moves, EndingCards, LateRequests
    <2> QED BY <2>1, <2>2, <2>4
  <1> QED BY <1>0, <1>1, <1>2

LEMMA HandleEventInv == ASSUME IInv, NEW p \in Players, HandleEvent(p) PROVE IInv'
  <1>0. p \in Threads /\ TypesOK /\ pc[p] = "handleEvent" /\ local[p].eng \in Games
    BY HandleEventMoves DEF IInv
  <1>1. CASE Return(p) /\ UNCHANGED <<memory, redis, bounds>>
    <2>1. pc[p] \notin Starting /\ ~Watches(p) /\ pc[p] \notin {"isGameOver", "endGame"}
      BY <1>0 DEF Starting, Watches, WillSee, WillRemove
    <2>2. UNCHANGED <<memory, games>> /\ saved' \subseteq Position
      BY <1>0, <1>1 DEF redis, bounds, TypesOK
    <2> QED BY <1>0, <1>1, <2>1, <2>2, ReturnStep
  <1>2. CASE ~(Return(p) /\ UNCHANGED <<memory, redis, bounds>>)
    BY <1>0, <1>2, HandleEventMoves, PositionStep
  <1> QED BY <1>1, <1>2

\* What an expiry does to the game that it found: nothing, a turn for nothing,
\* or a move.
LEMMA ForceActionMoves ==
  ASSUME IInv, NEW s \in Slots, ForceAction(s)
  PROVE  LET e == local[s].eng IN
         /\ s \in Threads /\ e \in Games /\ pc[s] = "forceAction"
         /\ StepOf(s, "isGameOver") /\ local'[s].eng = e
         /\ UNCHANGED <<mgrEngine, mgrTimer, timers, room, games>>
         /\ \/ engines[e].at.over /\ UNCHANGED <<engines, redis, bounds>>
            \/ ~engines[e].at.over /\ Turn(FALSE) /\ UNCHANGED <<engines, redis, faults, crashes>>
            \/ \E next \in Position : /\ ~engines[e].at.over
                                      /\ SetPosition(e, next) /\ SaveState(next) /\ Turn(next.over)
  <1> DEFINE e == local[s].eng
  <1>0. s \in Threads /\ TypesOK /\ pc[s] = "forceAction"
    BY DEF Threads, IInv, ForceAction, At
  <1>1. e \in Games
    BY <1>0 DEF IInv, HoldsObjects, Holds, Holding
  <1>2. Goto(s, "isGameOver") /\ local' = local /\ UNCHANGED <<mgrEngine, mgrTimer, timers>>
    BY DEF ForceAction
  <1>3. StepOf(s, "isGameOver") /\ local'[s].eng = e
    BY <1>0, <1>2, GotoMoves DEF Steps
  <1>4. CASE engines[e].at.over /\ UNCHANGED <<engines, redis, bounds>>
    BY <1>0, <1>1, <1>2, <1>3, <1>4 DEF redis, bounds
  <1>5. CASE /\ ~engines[e].at.over /\ Turn(FALSE)
             /\ UNCHANGED <<engines, redis, games, faults, crashes>>
    BY <1>0, <1>1, <1>2, <1>3, <1>5 DEF redis
  <1>6. CASE /\ \E next \in Moves(e) : SetPosition(e, next) /\ SaveState(next) /\ Turn(next.over)
             /\ UNCHANGED room
    <2>1. \A next \in Moves(e) : next \in Position /\ ~engines[e].at.over
      BY DEF Moves
    <2>2. games' = games
      BY <1>6 DEF SaveState, Redis, Failures
    <2> QED BY <1>0, <1>1, <1>2, <1>3, <1>6, <2>1, <2>2
  <1> QED BY <1>4, <1>5, <1>6 DEF ForceAction

LEMMA ForceActionInv == ASSUME IInv, NEW s \in Slots, ForceAction(s) PROVE IInv'
  <1> DEFINE e == local[s].eng
  <1>0. /\ s \in Threads /\ TypesOK /\ pc[s] = "forceAction" /\ e \in Games
        /\ StepOf(s, "isGameOver") /\ local'[s].eng = e
        /\ UNCHANGED <<mgrEngine, mgrTimer, timers, games>>
    BY ForceActionMoves DEF IInv
  <1>1. CASE UNCHANGED <<engines, redis>>
    <2>1. pc[s] \notin Starting /\ "isGameOver" \notin Starting
      BY <1>0 DEF Starting
    <2>2. UNCHANGED <<memory, games>> /\ saved' \subseteq Position
      BY <1>0, <1>1 DEF memory, redis, TypesOK
    <2>3. Holds(s)' /\ \A g \in Games : ~Announces(s, g)
      BY <1>0 DEF Holds, StepOf, Announces
    <2>4. Watches(s) => Watches(s)'
      BY <1>0 DEF Watches, WillSee, WillRemove, StepOf
    <2> QED BY <1>0, <2>1, <2>2, <2>3, <2>4, ThreadStep
  <1>2. CASE ~UNCHANGED <<engines, redis>>
    BY <1>0, <1>2, ForceActionMoves, PositionStep
  <1> QED BY <1>1, <1>2

-----------------------------------------------------------------------------
LEMMA HandleTimerExpiredInv == ASSUME IInv, NEW s \in Slots, HandleTimerExpired(s) PROVE IInv'
  <1>0. /\ s \in Threads /\ TypesOK /\ pc[s] = "expired" /\ pc[s] \notin Starting
        /\ UNCHANGED <<memory, games>> /\ saved' \subseteq Position
        /\ \A e \in Games : ~Announces(s, e)
    BY DEF Threads, IInv, HandleTimerExpired, At, Starting, redis, bounds, TypesOK, Announces
  <1>1. CASE mgrEngine = 0 /\ Return(s)
    BY <1>0, <1>1, ReturnStep
  <1>2. CASE /\ mgrEngine # 0
             /\ local' = [local EXCEPT ![s].eng = mgrEngine]
             /\ Goto(s, "forceAction")
    <2>1. mgrEngine \in Games /\ mgrEngine \in 0 .. MaxGames /\ "forceAction" \in Steps
      BY <1>0, <1>2 DEF TypesOK, Games, Steps
    <2>2. StepOf(s, "forceAction") /\ local'[s].eng = mgrEngine /\ "forceAction" \notin Starting
      BY <1>0, <1>2, <2>1, TakeEngineMoves DEF Starting
    <2>3. Holds(s)' /\ Watches(s)'
      BY <1>0, <2>1, <2>2 DEF Holds, Watches, WillSee, StepOf, memory
    <2> QED BY <1>0, <2>2, <2>3, ThreadStep
  <1> QED BY <1>1, <1>2 DEF HandleTimerExpired

LEMMA IsGameOverMoves ==
  ASSUME IInv, NEW t \in Threads, IsGameOver(t)
  PROVE  LET e == local[t].eng IN
         /\ e \in Games /\ pc[t] = "isGameOver" /\ UNCHANGED <<memory, redis, bounds>>
         /\ \/ engines[e].at.over /\ StepOf(t, "endGame") /\ local'[t] = local[t]
            \/ ~engines[e].at.over /\ StepOf(t, "getTimer")
  <1> DEFINE e == local[t].eng
  <1>0. TypesOK /\ pc[t] = "isGameOver" /\ UNCHANGED <<memory, redis, bounds>>
    BY DEF IInv, IsGameOver, At
  <1>1. e \in Games
    BY <1>0 DEF IInv, HoldsObjects, Holds, Holding
  <1>2. CASE engines[e].at.over
    <2>1. StepOf(t, "endGame") /\ local'[t] = local[t]
      BY <1>0, <1>2, GotoMoves DEF IsGameOver, Steps
    <2> QED BY <1>0, <1>1, <1>2, <2>1
  <1>3. CASE ~engines[e].at.over
    <2>1. StepOf(t, "getTimer")
      BY <1>0, <1>3, DropMoves DEF IsGameOver, Steps
    <2> QED BY <1>0, <1>1, <1>3, <2>1
  <1> QED BY <1>2, <1>3

LEMMA IsGameOverInv == ASSUME IInv, NEW t \in Threads, IsGameOver(t) PROVE IInv'
  <1> DEFINE e == local[t].eng
  <1>0. /\ TypesOK /\ e \in Games /\ pc[t] = "isGameOver" /\ pc[t] \notin Starting
        /\ UNCHANGED <<memory, games>> /\ saved' \subseteq Position
    BY IsGameOverMoves DEF IInv, Starting, redis, bounds, TypesOK
  <1>1. UNCHANGED <<mgrEngine, engines>>
    BY <1>0 DEF memory
  <1>2. CASE engines[e].at.over /\ StepOf(t, "endGame") /\ local'[t] = local[t]
    <2>1. "endGame" \notin Starting /\ pc'[t] = "endGame"
      BY <1>2 DEF Starting, StepOf
    <2>2. Holds(t)' /\ \A g \in Games : Announces(t, g) => Announces(t, g)'
      BY <1>0, <1>2, <2>1 DEF Holds, Announces
    <2>3. Watches(t) => Watches(t)'
      BY <1>0, <1>1, <1>2, <2>1 DEF Watches, WillSee, WillRemove
    <2> QED BY <1>0, <1>2, <2>1, <2>2, <2>3, ThreadStep
  <1>3. CASE ~engines[e].at.over /\ StepOf(t, "getTimer")
    <2>1. "getTimer" \notin Starting /\ pc'[t] = "getTimer"
      BY <1>3 DEF Starting, StepOf
    <2>2. Holds(t)' /\ \A g \in Games : ~(Announces(t, g) /\ engines[g].at.over)
      BY <1>0, <1>3, <2>1 DEF Holds, Holding, Announces
    <2>3. Watches(t)'
      BY <2>1 DEF Watches, WillSee
    <2> QED BY <1>0, <1>3, <2>1, <2>2, <2>3, ThreadStep
  <1> QED BY <1>2, <1>3, IsGameOverMoves

LEMMA GetTimerInv == ASSUME IInv, NEW t \in Threads, GetTimer(t) PROVE IInv'
  <1>0. /\ TypesOK /\ pc[t] = "getTimer" /\ pc[t] \notin Starting
        /\ UNCHANGED <<memory, games>> /\ saved' \subseteq Position
        /\ \A e \in Games : ~Announces(t, e)
    BY DEF IInv, GetTimer, At, Starting, redis, bounds, TypesOK, Announces
  <1>1. CASE mgrTimer = 0 /\ Return(t)
    <2>1. CASE mgrEngine = 0
      BY <1>0, <1>1, <2>1, ReturnStep
    <2>2. CASE mgrEngine # 0
      <3>1. pc[Host] = "setTimer" /\ Host \in Threads /\ Host # t
        BY <1>0, <1>1, <2>2 DEF IInv, StartsTimer, Threads
      <3>2. StepOf(t, "idle") /\ "idle" \notin Starting
        BY <1>0, <1>1, ReturnMoves DEF Starting
      <3>3. pc'[Host] = "setTimer"
        BY <3>1, <3>2 DEF StepOf
      <3>4. Holds(t)'
        BY <3>2 DEF Holds, Holding, StepOf
      <3>5. TypesOK'
        BY <1>0, <3>2 DEF TypesOK, StepOf, memory
      <3>6. HoldsObjects' /\ StartsNewest' /\ StartsTimer'
        BY <1>0, <3>2, <3>4, HostKept, ObjectsKept DEF IInv, memory
      <3>7. Attended'
        BY <3>3 DEF Attended
      <3>8. EndIsAnnounced'
        BY <1>0, <3>2, AnnouncedKept DEF IInv, memory, AnnouncesEnds, Unannounced
      <3> QED BY <3>5, <3>6, <3>7, <3>8 DEF IInv
    <2> QED BY <2>1, <2>2
  <1>2. CASE /\ mgrTimer # 0
             /\ local' = [local EXCEPT ![t].tmr = mgrTimer]
             /\ Goto(t, "resetTimer")
    <2>1. mgrTimer \in Games /\ mgrTimer \in 0 .. MaxGames /\ "resetTimer" \in Steps
      BY <1>0, <1>2 DEF TypesOK, Games, Steps
    <2>2. StepOf(t, "resetTimer") /\ local'[t].tmr = mgrTimer /\ "resetTimer" \notin Starting
      BY <1>0, <1>2, <2>1, TakeTimerMoves DEF Starting
    <2>3. Holds(t)' /\ Watches(t)'
      BY <1>0, <2>1, <2>2 DEF Holds, Holding, Watches, WillSee, StepOf, memory
    <2> QED BY <1>0, <2>2, <2>3, ThreadStep
  <1> QED BY <1>1, <1>2 DEF GetTimer

\* The steps of the cleanup that do not concern the engine, and the host's.
LEMMA CleanupSteps ==
  ASSUME IInv, NEW t \in Threads, DeleteGameState(t) \/ SaveRoom(t) PROVE IInv'
  <1>0. /\ TypesOK /\ pc[t] \in {"deleteState", "saveRoom"} /\ pc[t] \notin Starting
        /\ ~Watches(t) /\ UNCHANGED memory /\ \A e \in Games : ~Announces(t, e)
    BY DEF IInv, DeleteGameState, SaveRoom, At, Starting, Watches, WillSee, WillRemove, Announces
  <1>1. UNCHANGED games /\ saved' \subseteq Position
    BY <1>0 DEF DeleteGameState, SaveRoom, Redis, Failures, redis, TypesOK
  <1>2. CASE Return(t)
    BY <1>0, <1>1, <1>2, ReturnStep
  <1>3. CASE Goto(t, "saveRoom") /\ UNCHANGED local
    <2>1. "saveRoom" \in Steps /\ "saveRoom" \notin Starting
      BY DEF Steps, Starting
    <2>2. StepOf(t, "saveRoom")
      BY <1>0, <1>3, <2>1, GotoMoves
    <2>3. Holds(t)'
      BY <2>2 DEF Holds, Holding, StepOf
    <2> QED BY <1>0, <1>1, <2>1, <2>2, <2>3, ThreadStep
  <1> QED BY <1>2, <1>3 DEF DeleteGameState, SaveRoom

LEMMA HostSteps == ASSUME IInv, SaveStarted \/ HostEndsGame PROVE IInv'
  <1>0. /\ TypesOK /\ Host \in Threads /\ pc[Host] \in {"saveStarted", "idle"}
        /\ pc[Host] \notin Starting /\ ~Watches(Host) /\ UNCHANGED memory
        /\ \A e \in Games : ~Announces(Host, e)
    BY DEF IInv, Threads, SaveStarted, HostEndsGame, At, Starting, Watches, WillSee, WillRemove,
       Announces
  <1>1. UNCHANGED games /\ saved' \subseteq Position
    BY <1>0 DEF SaveStarted, HostEndsGame, Redis, Failures, redis, bounds, TypesOK
  <1>2. CASE SaveStarted
    <2>1. Return(Host)
      BY <1>2 DEF SaveStarted
    <2> QED BY <1>0, <1>1, <2>1, ReturnStep
  <1>3. CASE HostEndsGame
    <2>1. Goto(Host, "removeEngine") /\ UNCHANGED local
      BY <1>3 DEF HostEndsGame
    <2>2. "removeEngine" \in Steps /\ "removeEngine" \notin Starting
      BY DEF Steps, Starting
    <2>3. StepOf(Host, "removeEngine")
      BY <1>0, <2>1, <2>2, GotoMoves
    <2>4. Holds(Host)'
      BY <2>3 DEF Holds, Holding, StepOf
    <2> QED BY <1>0, <1>1, <2>2, <2>3, <2>4, ThreadStep
  <1> QED BY <1>2, <1>3

\* The end of a game is announced by the thread that saw it.
LEMMA EndGameMoves ==
  ASSUME IInv, NEW t \in Threads, EndGame(t)
  PROVE  LET e == local[t].eng IN
         /\ e \in Games /\ pc[t] = "endGame" /\ UNCHANGED <<mgrEngine, mgrTimer, timers, redis, bounds>>
         /\ \/ StepOf(t, "getRoom") /\ local'[t] = local[t]
            \/ StepOf(t, "removeEngine")
         /\ engines' \in [Games -> Engine] /\ engines'[e].announced
         /\ \A g \in Games : /\ engines'[g].at = engines[g].at
                             /\ engines'[g].wasOver = engines[g].wasOver
                             /\ engines'[g].stranded = engines[g].stranded
                             /\ g # e => engines'[g] = engines[g]
  <1> DEFINE e == local[t].eng
  <1>0. /\ TypesOK /\ pc[t] = "endGame" /\ UNCHANGED <<mgrEngine, mgrTimer, timers, redis, bounds>>
    BY DEF IInv, EndGame, At
  <1>1. e \in Games
    BY <1>0 DEF IInv, HoldsObjects, Holds, Holding
  <1>2. engines' = [engines EXCEPT ![e] = [engines[e] EXCEPT !.announced = TRUE]]
    BY DEF EndGame
  <1>3. engines[e] \in Engine
    BY <1>0, <1>1 DEF TypesOK
  <1> DEFINE n == [engines[e] EXCEPT !.announced = TRUE]
  <1>4. /\ n \in Engine /\ n.announced /\ n.at = engines[e].at
        /\ n.wasOver = engines[e].wasOver /\ n.stranded = engines[e].stranded
    BY <1>3 DEF Engine
  <1>5. engines' = [engines EXCEPT ![e] = n]
    BY <1>2
  <1> HIDE DEF n
  <1>6. /\ engines' \in [Games -> Engine] /\ engines'[e].announced
        /\ \A g \in Games : /\ engines'[g].at = engines[g].at
                            /\ engines'[g].wasOver = engines[g].wasOver
                            /\ engines'[g].stranded = engines[g].stranded
                            /\ g # e => engines'[g] = engines[g]
    BY <1>0, <1>1, <1>4, <1>5 DEF TypesOK
  <1>7. CASE Goto(t, "getRoom") /\ UNCHANGED local
    <2>1. StepOf(t, "getRoom") /\ local'[t] = local[t]
      BY <1>0, <1>7, GotoMoves DEF Steps
    <2> QED BY <1>0, <1>1, <1>6, <2>1
  <1>8. CASE Goto(t, "removeEngine") /\ Drop(t)
    <2>1. StepOf(t, "removeEngine")
      BY <1>0, <1>8, DropMoves DEF Steps
    <2> QED BY <1>0, <1>1, <1>6, <2>1
  <1> QED BY <1>7, <1>8 DEF EndGame

LEMMA EndGameInv == ASSUME IInv, NEW t \in Threads, EndGame(t) PROVE IInv'
  <1> DEFINE e == local[t].eng
  <1>0. /\ TypesOK /\ e \in Games /\ pc[t] = "endGame" /\ pc[t] \notin Starting
        /\ UNCHANGED <<mgrEngine, mgrTimer, timers, saved, games>>
        /\ engines' \in [Games -> Engine]
    BY EndGameMoves DEF IInv, Starting, redis, bounds
  <1>1. GameEndsForGood
    BY <1>0, EndGameMoves DEF GameEndsForGood, TypesOK, Games
  <1>2. AnnouncesEnds(t)
    <2>1. \A g \in Games : Unannounced(g)' => Unannounced(g) /\ g # e
      BY EndGameMoves DEF Unannounced
    <2>2. \A g \in Games : Announces(t, g) => g = e
      BY DEF Announces
    <2> QED BY <2>1, <2>2 DEF AnnouncesEnds
  <1>3. timers' \in [Games -> Timers] /\ saved' \subseteq Position /\ (TimerRuns => TimerRuns')
    BY <1>0 DEF TypesOK, TimerRuns
  <1>4. mgrEngine # 0 /\ Watches(t) =>
          mgrEngine = e /\ engines[mgrEngine].at.over /\ engines'[mgrEngine].at.over
    BY <1>0, EndGameMoves DEF Watches, WillSee, WillRemove
  <1>5. CASE StepOf(t, "getRoom") /\ local'[t] = local[t]
    <2>1. pc'[t] = "getRoom" /\ "getRoom" \notin Starting
      BY <1>5 DEF StepOf, Starting
    <2>2. Holds(t)'
      BY <1>0, <1>5, <2>1 DEF Holds
    <2>3. Attends(t)
      BY <1>0, <1>3, <1>4, <1>5, <2>1 DEF Attends, Watches, WillRemove
    <2> QED BY <1>0, <1>1, <1>2, <1>3, <1>5, <2>1, <2>2, <2>3, AnyStep
  <1>6. CASE StepOf(t, "removeEngine")
    <2>1. pc'[t] = "removeEngine" /\ "removeEngine" \notin Starting
      BY <1>6 DEF StepOf, Starting
    <2>2. Holds(t)'
      BY <2>1 DEF Holds, Holding
    <2>3. Attends(t)
      BY <1>0, <1>3, <1>4, <2>1 DEF Attends, Watches, WillRemove
    <2> QED BY <1>0, <1>1, <1>2, <1>3, <1>6, <2>1, <2>2, <2>3, AnyStep
  <1> QED BY <1>5, <1>6, EndGameMoves

\* The expiry goes on to its cleanup, or it strands the engine that it holds.
LEMMA GetRoomMoves ==
  ASSUME IInv, NEW s \in Slots, GetRoom(s)
  PROVE  LET e == local[s].eng IN
         /\ s \in Threads /\ e \in Games /\ pc[s] = "getRoom"
         /\ UNCHANGED <<mgrEngine, mgrTimer, timers, saved, games, turns>>
         /\ engines' \in [Games -> Engine]
         /\ \A g \in Games : /\ engines'[g].at = engines[g].at
                             /\ engines'[g].wasOver = engines[g].wasOver
                             /\ engines'[g].announced = engines[g].announced
                             /\ engines[g].stranded => engines'[g].stranded
         /\ \/ StepOf(s, "removeEngine")
            \/ StepOf(s, "idle") /\ engines'[e].stranded
  <1> DEFINE e == local[s].eng
  <1>0. /\ s \in Threads /\ TypesOK /\ pc[s] = "getRoom"
        /\ UNCHANGED <<mgrEngine, mgrTimer, timers, saved, games, turns>>
    BY DEF IInv, Threads, GetRoom, At, Redis, Failures, redis
  <1>1. e \in Games
    BY <1>0 DEF IInv, HoldsObjects, Holds, Holding
  <1>2. CASE Goto(s, "removeEngine") /\ Drop(s) /\ UNCHANGED engines
    <2>1. StepOf(s, "removeEngine")
      BY <1>0, <1>2, DropMoves DEF Steps
    <2>2. engines' \in [Games -> Engine]
      BY <1>0, <1>2 DEF TypesOK
    <2> QED BY <1>0, <1>1, <1>2, <2>1, <2>2
  <1>3. CASE Return(s) /\ engines' = [engines EXCEPT ![e].stranded = TRUE]
    <2> DEFINE n == [engines[e] EXCEPT !.stranded = TRUE]
    <2>1. engines' = [engines EXCEPT ![e] = n]
      BY <1>3
    <2>2. engines[e] \in Engine
      BY <1>0, <1>1 DEF TypesOK
    <2>3. /\ n \in Engine /\ n.at = engines[e].at /\ n.wasOver = engines[e].wasOver
          /\ n.announced = engines[e].announced /\ n.stranded
      BY <2>2 DEF Engine
    <2> HIDE DEF n
    <2>4. /\ engines' \in [Games -> Engine] /\ engines'[e].stranded
          /\ \A g \in Games : /\ engines'[g].at = engines[g].at
                              /\ engines'[g].wasOver = engines[g].wasOver
                              /\ engines'[g].announced = engines[g].announced
                              /\ engines[g].stranded => engines'[g].stranded
      BY <1>0, <1>1, <2>1, <2>3 DEF TypesOK
    <2>5. StepOf(s, "idle")
      BY <1>0, <1>3, ReturnMoves
    <2> QED BY <1>0, <1>1, <2>4, <2>5
  <1> QED BY <1>2, <1>3 DEF GetRoom

LEMMA GetRoomInv == ASSUME IInv, NEW s \in Slots, GetRoom(s) PROVE IInv'
  <1> DEFINE e == local[s].eng
  <1>0. /\ TypesOK /\ s \in Threads /\ e \in Games /\ pc[s] = "getRoom" /\ pc[s] \notin Starting
        /\ UNCHANGED <<mgrEngine, mgrTimer, timers, saved, games>>
        /\ engines' \in [Games -> Engine]
    BY GetRoomMoves DEF IInv, Starting
  <1>1. GameEndsForGood
    BY <1>0, GetRoomMoves DEF GameEndsForGood, TypesOK, Games
  <1>2. AnnouncesEnds(s)
    <2>1. \A g \in Games : (Unannounced(g)' <=> Unannounced(g)) /\ ~Announces(s, g)
      BY <1>0, GetRoomMoves DEF Unannounced, Announces
    <2> QED BY <2>1 DEF AnnouncesEnds
  <1>3. timers' \in [Games -> Timers] /\ saved' \subseteq Position /\ (TimerRuns => TimerRuns')
    BY <1>0 DEF TypesOK, TimerRuns
  <1>4. mgrEngine # 0 /\ Watches(s) => mgrEngine = e /\ engines'[mgrEngine].at.over
    BY <1>0, GetRoomMoves DEF Watches, WillSee, WillRemove
  <1>5. CASE StepOf(s, "removeEngine")
    <2>1. pc'[s] = "removeEngine" /\ "removeEngine" \notin Starting
      BY <1>5 DEF StepOf, Starting
    <2>2. Holds(s)'
      BY <2>1 DEF Holds, Holding
    <2>3. Attends(s)
      BY <1>0, <1>3, <1>4, <2>1 DEF Attends, Watches, WillRemove
    <2> QED BY <1>0, <1>1, <1>2, <1>3, <1>5, <2>1, <2>2, <2>3, AnyStep
  <1>6. CASE StepOf(s, "idle") /\ engines'[e].stranded
    <2>1. pc'[s] = "idle" /\ "idle" \notin Starting
      BY <1>6 DEF StepOf, Starting
    <2>2. Holds(s)'
      BY <2>1 DEF Holds, Holding
    <2>3. Attends(s)
      BY <1>0, <1>3, <1>4, <1>6 DEF Attends, Stranded
    <2> QED BY <1>0, <1>1, <1>2, <1>3, <1>6, <2>1, <2>2, <2>3, AnyStep
  <1> QED BY <1>5, <1>6, GetRoomMoves

-----------------------------------------------------------------------------
LEMMA ResetTimerInv == ASSUME IInv, NEW t \in Threads, ResetTimer(t) PROVE IInv'
  <1> DEFINE e == local[t].tmr
  <1>0. /\ TypesOK /\ pc[t] = "resetTimer" /\ pc[t] \notin Starting /\ Return(t)
        /\ timers' = [timers EXCEPT ![e] = Started(timers[e])]
        /\ UNCHANGED <<mgrEngine, mgrTimer, engines, saved, games>>
    BY DEF IInv, ResetTimer, At, Starting, redis, bounds
  <1>1. e \in Games
    BY <1>0 DEF IInv, HoldsObjects, Holds
  <1>2. Watches(t) => e = mgrTimer
    BY <1>0 DEF Watches, WillSee, WillRemove
  <1> HIDE DEF e
  <1>3. timers[e] \in Timers
    BY <1>0, <1>1 DEF TypesOK
  <1>4. /\ timers' \in [Games -> Timers] /\ ~timers'[e].stopped
        /\ \A g \in Games : g # e => timers'[g] = timers[g]
    BY <1>0, <1>1, <1>3, StartedTimer DEF TypesOK
  <1>5. TimerRuns => TimerRuns'
    BY <1>0, <1>4 DEF TimerRuns, TypesOK, Games
  <1>6. Watches(t) => TimerRuns'
    BY <1>0, <1>1, <1>2, <1>4 DEF TimerRuns, Games
  <1>7. StepOf(t, "idle") /\ "idle" \notin Starting
    BY <1>0, ReturnMoves DEF Starting
  <1>8. Holds(t)'
    BY <1>7 DEF Holds, Holding, StepOf
  <1>9. engines' \in [Games -> Engine] /\ saved' \subseteq Position
    BY <1>0 DEF TypesOK
  <1>10. GameEndsForGood /\ Attends(t)
    BY <1>0, <1>5, <1>6 DEF GameEndsForGood, Attends
  <1>11. AnnouncesEnds(t)
    BY <1>0 DEF AnnouncesEnds, Unannounced, Announces
  <1> QED BY <1>0, <1>4, <1>7, <1>8, <1>9, <1>10, <1>11, AnyStep

\* No thread has moved: the runtime's part, and the last player's leaving.
LEMMA NoThreadMoves ==
  ASSUME IInv, UNCHANGED <<pc, local, mgrEngine, mgrTimer, engines, saved, games>>,
         timers' \in [Games -> Timers], TimerRuns => TimerRuns'
  PROVE  IInv'
  <1>1. TypesOK'
    BY DEF IInv, TypesOK
  <1>2. HoldsObjects'
    BY DEF IInv, HoldsObjects, Holds
  <1>3. StartsNewest' /\ StartsTimer'
    BY DEF IInv, StartsNewest, StartsTimer
  <1>4. Attended'
    BY DEF IInv, Attended, Watches, WillSee, WillRemove, Stranded
  <1>5. EndIsAnnounced'
    BY DEF IInv, EndIsAnnounced
  <1> QED BY <1>1, <1>2, <1>3, <1>4, <1>5 DEF IInv

LEMMA TimerFiresInv == ASSUME IInv, NEW e \in Games, TimerFires(e) PROVE IInv'
  <1>0. /\ TypesOK /\ timers[e].armed /\ timers' = [timers EXCEPT ![e] = Fired(timers[e])]
        /\ UNCHANGED <<pc, local, mgrEngine, mgrTimer, engines, saved, games>>
    BY DEF IInv, TimerFires, redis, bounds
  <1>1. timers[e] \in Timers
    BY <1>0 DEF TypesOK
  <1>2. timers' \in [Games -> Timers] /\ \A g \in Games : timers'[g].stopped = timers[g].stopped
    BY <1>0, <1>1, FiredTimer DEF TypesOK
  <1>3. TimerRuns => TimerRuns'
    BY <1>0, <1>2 DEF TimerRuns, TypesOK, Games
  <1> QED BY <1>0, <1>2, <1>3, NoThreadMoves

LEMMA TimerCallbackInv ==
  ASSUME IInv, NEW e \in Games, NEW g \in timers[e].waiting, NEW s \in Slots, TimerCallback(e, g, s)
  PROVE  IInv'
  <1>0. /\ TypesOK /\ s \in Threads /\ pc[s] = "idle" /\ pc[s] \notin Starting
        /\ timers' = [timers EXCEPT ![e] = Checked(timers[e], g)]
        /\ UNCHANGED <<local, mgrEngine, mgrTimer, engines, saved, games>>
    BY DEF IInv, Threads, TimerCallback, At, Starting, redis, bounds
  <1>1. timers[e] \in Timers
    BY <1>0 DEF TypesOK
  <1>2. /\ timers' \in [Games -> Timers]
        /\ \A x \in Games : x # e => timers'[x] = timers[x]
    BY <1>0, <1>1, CheckedTimer DEF TypesOK
  <1>3. CASE timers[e].stopped /\ UNCHANGED <<pc, local>>
    <2>1. TimerRuns => TimerRuns'
      BY <1>0, <1>2, <1>3 DEF TimerRuns, TypesOK, Games
    <2> QED BY <1>0, <1>2, <1>3, <2>1, NoThreadMoves
  <1>4. CASE Goto(s, "expired")
    <2>1. StepOf(s, "expired") /\ "expired" \notin Starting
      BY <1>0, <1>4, GotoMoves DEF Steps, Starting
    <2>2. Holds(s)' /\ WillSee(s)' /\ Watches(s)'
      BY <2>1 DEF Holds, Holding, Watches, WillSee, StepOf
    <2>3. engines' \in [Games -> Engine] /\ saved' \subseteq Position
      BY <1>0 DEF TypesOK
    <2>4. GameEndsForGood /\ Attends(s)
      BY <1>0, <2>2 DEF GameEndsForGood, Attends
    <2>5. AnnouncesEnds(s)
      BY <1>0 DEF AnnouncesEnds, Unannounced, Announces
    <2> QED BY <1>0, <1>2, <2>1, <2>2, <2>3, <2>4, <2>5, AnyStep
  <1> QED BY <1>3, <1>4 DEF TimerCallback

\* Timers after the manager stopped the room's.
LEMMA StopRoomsTimer ==
  ASSUME TypesOK, timers' = [e \in Games |-> IF e = mgrTimer THEN Stopped(timers[e]) ELSE timers[e]]
  PROVE  timers' \in [Games -> Timers] /\ \A e \in Games : timers'[e].gen = timers[e].gen
  <1>1. \A e \in Games : timers[e] \in Timers /\ Stopped(timers[e]) \in Timers
                         /\ Stopped(timers[e]).gen = timers[e].gen
    BY StoppedTimer DEF TypesOK
  <1> QED BY <1>1

\* After a cleanup the room has no engine to be attended to.
LEMMA RemoveEngineInv == ASSUME IInv, NEW t \in Threads, RemoveEngine(t) PROVE IInv'
  <1>0. /\ TypesOK /\ pc[t] = "removeEngine" /\ mgrEngine' = 0 /\ mgrTimer' = 0
        /\ Goto(t, "deleteState") /\ UNCHANGED <<local, engines, saved, games>>
    BY DEF IInv, RemoveEngine, At, redis, bounds
  <1>1. timers' \in [Games -> Timers]
    BY <1>0, StopRoomsTimer DEF RemoveEngine
  <1>2. StepOf(t, "deleteState")
    BY <1>0, GotoMoves DEF Steps
  <1>3. Holds(t)'
    BY <1>2 DEF Holds, Holding, StepOf
  <1>4. TypesOK'
    BY <1>0, <1>1, <1>2 DEF TypesOK, StepOf
  <1>5. HoldsObjects'
    BY <1>2, <1>3, ObjectsKept DEF IInv
  <1>6. Host \in Threads
    BY DEF Threads
  <1>7. pc'[Host] \in Starting \cup {"setTimer"} => pc'[Host] = pc[Host]
    BY <1>2, <1>6 DEF StepOf, Starting
  <1>8. StartsNewest' /\ StartsTimer'
    <2>1. games \in Nat /\ (pc'[Host] \in Starting => local[Host].eng = games /\ games \in Games)
      BY <1>0, <1>7 DEF IInv, StartsNewest, TypesOK
    <2> QED BY <1>0, <2>1 DEF StartsNewest, StartsTimer, Starting, Games
  <1>9. Attended'
    BY <1>0 DEF Attended
  <1>10. EndIsAnnounced'
    <2>1. AnnouncesEnds(t)
      BY <1>0 DEF AnnouncesEnds, Unannounced, Announces
    <2> QED BY <1>2, <2>1, AnnouncedKept DEF IInv
  <1> QED BY <1>4, <1>5, <1>8, <1>9, <1>10 DEF IInv

LEMMA LastLeavesInv == ASSUME IInv, NEW p \in Players, LastLeaves(p) PROVE IInv'
  <1>1. UNCHANGED <<pc, local, mgrEngine, mgrTimer, engines, timers, saved, games>>
    BY DEF LastLeaves, memory, bounds
  <1>2. timers' \in [Games -> Timers] /\ (TimerRuns => TimerRuns')
    BY <1>1 DEF IInv, TypesOK, TimerRuns
  <1> QED BY <1>1, <1>2, NoThreadMoves

LEMMA CrashInv == ASSUME IInv, Crash PROVE IInv'
  <1>0. /\ TypesOK /\ Host \in Threads
        /\ pc' = [t \in Threads |-> "idle"] /\ local' = [t \in Threads |-> NoLocals]
        /\ mgrEngine' = 0 /\ mgrTimer' = 0
        /\ engines' = [e \in Games |-> NoEngine] /\ timers' = [e \in Games |-> NewTimer]
        /\ UNCHANGED <<saved, games>>
    BY DEF IInv, Threads, Crash, redis
  <1>1. TypesOK'
    <2>1. pc' \in [Threads -> Steps] /\ local' \in [Threads -> Locals]
      BY <1>0, NoEngineType DEF Steps
    <2>2. engines' \in [Games -> Engine] /\ timers' \in [Games -> Timers]
      BY <1>0, NewTimerType, NoEngineType
    <2> QED BY <1>0, <2>1, <2>2 DEF TypesOK
  <1>2. HoldsObjects'
    BY <1>0 DEF HoldsObjects, Holds, Holding
  <1>3. StartsNewest' /\ StartsTimer'
    BY <1>0 DEF StartsNewest, StartsTimer, Starting, TypesOK
  <1>4. Attended'
    BY <1>0 DEF Attended
  <1>5. EndIsAnnounced'
    BY <1>0, NoEngineType DEF EndIsAnnounced
  <1> QED BY <1>1, <1>2, <1>3, <1>4, <1>5 DEF IInv

-----------------------------------------------------------------------------
\* The host's start, step by step.
LEMMA StartGameInv == ASSUME IInv, StartGame PROVE IInv'
  <1>0. /\ TypesOK /\ Host \in Threads /\ pc[Host] = "idle" /\ games < MaxGames /\ games' = games + 1
        /\ UNCHANGED <<mgrEngine, mgrTimer, engines, timers, saved>>
    BY DEF IInv, Threads, StartGame, At, memory, redis
  <1>1. games' \in Games /\ games \in Nat
    BY <1>0 DEF TypesOK, Games
  <1>2. StepOf(Host, "startEngine") /\ local'[Host].eng = games'
    <2>1. "startEngine" \in Steps /\ games + 1 \in 0 .. MaxGames
      BY <1>0, <1>1 DEF Steps, Games
    <2>2. Goto(Host, "startEngine") /\ local' = [local EXCEPT ![Host].eng = games + 1]
      BY DEF StartGame
    <2> QED BY <1>0, <2>1, <2>2, TakeEngineMoves
  <1>3. pc'[Host] = "startEngine"
    BY <1>2 DEF StepOf
  <1>4. TypesOK'
    BY <1>0, <1>1, <1>2 DEF TypesOK, StepOf, Games
  <1>5. HoldsObjects'
    <2>1. Holds(Host)'
      BY <1>3 DEF Holds, Holding
    <2> QED BY <1>0, <1>2, <2>1, ObjectsKept DEF IInv
  <1>6. StartsNewest'
    <2>1. mgrEngine <= games /\ mgrTimer <= games /\ mgrEngine \in Nat /\ mgrTimer \in Nat
      BY <1>0 DEF IInv, StartsNewest, TypesOK
    <2>2. mgrEngine' <= games' /\ mgrTimer' <= games' /\ mgrEngine' # games'
      BY <1>0, <1>1, <2>1
    <2> QED BY <1>1, <1>2, <2>2 DEF StartsNewest
  <1>7. StartsTimer'
    BY <1>0, <1>3 DEF IInv, StartsTimer
  <1>8. Attended'
    <2>1. ~Watches(Host) /\ (TimerRuns => TimerRuns') /\ GameEndsForGood
      BY <1>0 DEF Watches, WillSee, WillRemove, TimerRuns, GameEndsForGood
    <2> QED BY <1>0, <1>2, <2>1, AttendedKept DEF IInv, Attends
  <1>9. EndIsAnnounced'
    <2>1. AnnouncesEnds(Host)
      BY <1>0 DEF AnnouncesEnds, Unannounced, Announces
    <2> QED BY <1>0, <1>2, <2>1, AnnouncedKept DEF IInv
  <1> QED BY <1>4, <1>5, <1>6, <1>7, <1>8, <1>9 DEF IInv

\* The engine is made; it is known to nobody else yet.
LEMMA StartEngineMoves ==
  ASSUME IInv, StartEngine
  PROVE  /\ Host \in Threads /\ pc[Host] = "startEngine" /\ StepOf(Host, "addEngine")
         /\ UNCHANGED <<mgrEngine, mgrTimer, timers, games, room, turns>>
         /\ games \in Games /\ local[Host].eng = games /\ mgrEngine # games
         /\ engines' \in [Games -> Engine] /\ ~Unannounced(games)'
         /\ \A e \in Games : e # games => engines'[e] = engines[e]
         /\ saved' \subseteq Position
         /\ saved' = saved \/ \E at : saved' = {at}
         /\ \E n \in {0, 1, 2} : Failures(n)
  <1>0. /\ TypesOK /\ Host \in Threads /\ pc[Host] = "startEngine" /\ Goto(Host, "addEngine")
        /\ UNCHANGED <<local, mgrEngine, mgrTimer, timers, games, room, turns>>
    BY DEF IInv, Threads, StartEngine, At, Failures
  <1>1. local[Host].eng = games /\ games \in Games /\ mgrEngine # games
    BY <1>0 DEF IInv, StartsNewest, Starting
  <1>2. PICK read \in BOOLEAN, save \in BOOLEAN, lacks \in SUBSET (Players \ {Host}) :
          LET resumed == read /\ saved # {}
          IN  /\ Failures((IF read THEN 0 ELSE 1) + (IF save THEN 0 ELSE 1))
              /\ resumed \/ lacks = {}
              /\ \E at \in IF resumed THEN saved ELSE {Dealt} :
                   /\ engines' = [engines EXCEPT ![local[Host].eng] =
                                    [NoEngine EXCEPT !.at = at, !.lacks = lacks,
                                                     !.wasOver = at.over]]
                   /\ saved' = IF save THEN {at} ELSE saved
    BY DEF StartEngine
  <1>3. PICK at \in IF read /\ saved # {} THEN saved ELSE {Dealt} :
          /\ engines' = [engines EXCEPT ![games] =
                           [NoEngine EXCEPT !.at = at, !.lacks = lacks, !.wasOver = at.over]]
          /\ saved' = IF save THEN {at} ELSE saved
    BY <1>1, <1>2
  <1>4. at \in Position
    BY <1>0, NoEngineType DEF TypesOK
  <1> DEFINE n == [NoEngine EXCEPT !.at = at, !.lacks = lacks, !.wasOver = at.over]
  <1>5. n \in Engine /\ n.at = at /\ n.wasOver = at.over
    <2>1. lacks \subseteq Players /\ at.over \in BOOLEAN
      BY <1>4 DEF Position
    <2> DEFINE a == [NoEngine EXCEPT !.at = at]
               b == [a EXCEPT !.lacks = lacks]
    <2>2. a \in Engine /\ a.at = at
      BY <1>4, NoEngineType DEF Engine
    <2>3. n = [b EXCEPT !.wasOver = at.over]
      OBVIOUS
    <2> HIDE DEF n, a
    <2>4. b \in Engine /\ b.at = at
      BY <2>1, <2>2 DEF Engine
    <2> HIDE DEF b
    <2> QED BY <2>1, <2>3, <2>4 DEF Engine
  <1>6. engines' = [engines EXCEPT ![games] = n]
    BY <1>3
  <1> HIDE DEF n
  <1>7. engines' \in [Games -> Engine] /\ engines'[games] = n
    BY <1>0, <1>1, <1>5, <1>6 DEF TypesOK
  <1>8. \A e \in Games : e # games => engines'[e] = engines[e]
    BY <1>0, <1>6 DEF TypesOK
  <1>9. ~Unannounced(games)'
    BY <1>0, <1>5, <1>7 DEF Unannounced
  <1>10. saved' \subseteq Position /\ (saved' = saved \/ \E x : saved' = {x})
    BY <1>0, <1>3, <1>4 DEF TypesOK
  <1>11. \E k \in {0, 1, 2} : Failures(k)
    BY <1>2
  <1>12. StepOf(Host, "addEngine")
    BY <1>0, GotoMoves DEF Steps
  <1> QED BY <1>0, <1>1, <1>7, <1>8, <1>9, <1>10, <1>11, <1>12

LEMMA StartEngineInv == ASSUME IInv, StartEngine PROVE IInv'
  <1>0. /\ TypesOK /\ Host \in Threads /\ pc[Host] = "startEngine" /\ StepOf(Host, "addEngine")
        /\ UNCHANGED <<mgrEngine, mgrTimer, timers, games>>
        /\ games \in Games /\ local[Host].eng = games /\ mgrEngine # games
        /\ engines' \in [Games -> Engine] /\ saved' \subseteq Position
        /\ ~Unannounced(games)' /\ \A e \in Games : e # games => engines'[e] = engines[e]
    BY StartEngineMoves DEF IInv
  <1>1. pc'[Host] = "addEngine" /\ local'[Host].eng = games
    BY <1>0 DEF StepOf, StartEngine
  <1>2. TypesOK'
    BY <1>0 DEF TypesOK, StepOf
  <1>3. HoldsObjects'
    <2>1. Holds(Host)'
      BY <1>1 DEF Holds, Holding
    <2> QED BY <1>0, <2>1, ObjectsKept DEF IInv
  <1>4. StartsNewest' /\ StartsTimer'
    BY <1>0, <1>1 DEF IInv, StartsNewest, StartsTimer, Starting
  <1>5. Attended'
    <2>1. ~Watches(Host) /\ (TimerRuns => TimerRuns')
      BY <1>0 DEF Watches, WillSee, WillRemove, TimerRuns
    <2>2. GameEndsForGood
      BY <1>0 DEF GameEndsForGood, TypesOK, Games
    <2> QED BY <1>0, <2>1, <2>2, AttendedKept DEF IInv, Attends
  <1>6. EndIsAnnounced'
    <2>1. \A e \in Games : Unannounced(e)' => Unannounced(e)
      BY <1>0 DEF Unannounced
    <2>2. \A e \in Games : ~Announces(Host, e)
      BY <1>0 DEF Announces
    <2>3. AnnouncesEnds(Host)
      BY <2>1, <2>2 DEF AnnouncesEnds
    <2> QED BY <1>0, <2>3, AnnouncedKept DEF IInv
  <1> QED BY <1>2, <1>3, <1>4, <1>5, <1>6 DEF IInv

\* The steps that follow leave the engines alone.
LEMMA HostKeepsEnds ==
  ASSUME IInv, NEW step, StepOf(Host, step), pc[Host] \in Starting, UNCHANGED engines
  PROVE  EndIsAnnounced'
  <1>1. Host \in Threads /\ \A e \in Games : ~Announces(Host, e)
    BY DEF Threads, Announces, Starting
  <1>2. AnnouncesEnds(Host)
    BY <1>1 DEF AnnouncesEnds, Unannounced
  <1> QED BY <1>1, <1>2, AnnouncedKept DEF IInv

LEMMA AddEngineInv == ASSUME IInv, AddEngine PROVE IInv'
  <1>0. /\ TypesOK /\ Host \in Threads /\ pc[Host] = "addEngine" /\ mgrEngine' = local[Host].eng
        /\ Goto(Host, "setTimer") /\ UNCHANGED <<local, mgrTimer, engines, timers, saved, games>>
    BY DEF IInv, Threads, AddEngine, At, redis, bounds
  <1>1. mgrEngine' = games /\ games \in Games /\ local[Host].eng = games
    BY <1>0 DEF IInv, StartsNewest, Starting
  <1>2. StepOf(Host, "setTimer") /\ pc'[Host] = "setTimer"
    BY <1>0, GotoMoves DEF Steps, StepOf
  <1>3. TypesOK'
    BY <1>0, <1>1, <1>2 DEF TypesOK, StepOf, Games
  <1>4. HoldsObjects'
    <2>1. Holds(Host)'
      BY <1>2 DEF Holds, Holding
    <2> QED BY <1>0, <1>2, <2>1, ObjectsKept DEF IInv
  <1>5. StartsNewest' /\ StartsTimer'
    BY <1>0, <1>1, <1>2 DEF IInv, StartsNewest, StartsTimer, Starting, Games
  <1>6. Attended'
    BY <1>2 DEF Attended
  <1>7. EndIsAnnounced'
    BY <1>0, <1>2, HostKeepsEnds DEF Starting
  <1> QED BY <1>3, <1>4, <1>5, <1>6, <1>7 DEF IInv

LEMMA SetTimerInv == ASSUME IInv, SetTimer PROVE IInv'
  <1>0. /\ TypesOK /\ Host \in Threads /\ pc[Host] = "setTimer" /\ mgrTimer' = local[Host].eng
        /\ Goto(Host, "startTimer") /\ UNCHANGED <<local, mgrEngine, engines, saved, games>>
    BY DEF IInv, Threads, SetTimer, At, redis, bounds
  <1>1. mgrTimer' = games /\ games \in Games /\ local[Host].eng = games
    BY <1>0 DEF IInv, StartsNewest, Starting
  <1>2. StepOf(Host, "startTimer") /\ pc'[Host] = "startTimer"
    BY <1>0, GotoMoves DEF Steps, StepOf
  <1>3. timers' \in [Games -> Timers]
    BY <1>0, StopRoomsTimer DEF SetTimer
  <1>4. TypesOK'
    BY <1>0, <1>1, <1>2, <1>3 DEF TypesOK, StepOf, Games
  <1>5. HoldsObjects'
    <2>1. Holds(Host)'
      BY <1>2 DEF Holds, Holding
    <2> QED BY <1>0, <1>2, <2>1, ObjectsKept DEF IInv
  <1>6. StartsNewest' /\ StartsTimer'
    BY <1>0, <1>1, <1>2 DEF IInv, StartsNewest, StartsTimer, Starting, Games
  <1>7. Attended'
    BY <1>2 DEF Attended
  <1>8. EndIsAnnounced'
    BY <1>0, <1>2, HostKeepsEnds DEF Starting
  <1> QED BY <1>4, <1>5, <1>6, <1>7, <1>8 DEF IInv

LEMMA StartTimerInv == ASSUME IInv, StartTimer PROVE IInv'
  <1>0. /\ TypesOK /\ Host \in Threads /\ pc[Host] = "startTimer"
        /\ Goto(Host, "saveStarted") /\ Drop(Host)
        /\ timers' = [timers EXCEPT ![local[Host].eng] = Started(timers[local[Host].eng])]
        /\ UNCHANGED <<mgrEngine, mgrTimer, engines, saved, games>>
    BY DEF IInv, Threads, StartTimer, At, redis, bounds
  <1>1. games \in Games /\ local[Host].eng = games
    BY <1>0 DEF IInv, StartsNewest, Starting
  <1>2. StepOf(Host, "saveStarted") /\ pc'[Host] = "saveStarted"
    BY <1>0, DropMoves DEF Steps, StepOf
  <1>3. timers[games] \in Timers
    BY <1>0, <1>1 DEF TypesOK
  <1>4. timers' \in [Games -> Timers] /\ ~timers'[games].stopped
    BY <1>0, <1>1, <1>3, StartedTimer DEF TypesOK
  <1>5. TypesOK'
    BY <1>0, <1>2, <1>4 DEF TypesOK, StepOf
  <1>6. HoldsObjects'
    <2>1. Holds(Host)'
      BY <1>2 DEF Holds, Holding
    <2> QED BY <1>0, <1>2, <2>1, ObjectsKept DEF IInv
  <1>7. mgrEngine # 0 => mgrTimer = games
    BY <1>0 DEF IInv, StartsTimer
  <1>8. StartsNewest' /\ StartsTimer'
    BY <1>0, <1>1, <1>2, <1>7 DEF IInv, StartsNewest, StartsTimer, Starting, Games
  <1>9. Attended'
    BY <1>0, <1>1, <1>4, <1>7 DEF Attended, TimerRuns, Games
  <1>10. EndIsAnnounced'
    BY <1>0, <1>2, HostKeepsEnds DEF Starting
  <1> QED BY <1>5, <1>6, <1>8, <1>9, <1>10 DEF IInv

-----------------------------------------------------------------------------
LEMMA StutterInv == ASSUME IInv, UNCHANGED vars PROVE IInv'
  <1>1. UNCHANGED <<pc, local, mgrEngine, mgrTimer, engines, timers, saved, games>>
    BY DEF vars, memory, redis, bounds
  <1>2. timers' \in [Games -> Timers] /\ (TimerRuns => TimerRuns')
    BY <1>1 DEF IInv, TypesOK, TimerRuns
  <1> QED BY <1>1, <1>2, NoThreadMoves

LEMMA NextInv == IInv /\ [Next]_vars => IInv'
  <1> SUFFICES ASSUME IInv, [Next]_vars PROVE IInv'
    OBVIOUS
  <1>1. CASE UNCHANGED vars
    BY <1>1, StutterInv
  <1>2. ASSUME NEW t \in Threads, Proceed(t) PROVE IInv'
    <2>1. CASE t \in Players /\ HandleEvent(t)
      BY <2>1, HandleEventInv
    <2>2. CASE t \in Slots /\ (HandleTimerExpired(t) \/ ForceAction(t) \/ GetRoom(t))
      BY <2>2, HandleTimerExpiredInv, ForceActionInv, GetRoomInv
    <2>3. CASE DeleteGameState(t) \/ SaveRoom(t)
      BY <2>3, CleanupSteps
    <2>4. CASE IsGameOver(t) \/ GetTimer(t) \/ ResetTimer(t) \/ EndGame(t) \/ RemoveEngine(t)
      BY <2>4, IsGameOverInv, GetTimerInv, ResetTimerInv, EndGameInv, RemoveEngineInv
    <2>5. CASE StartEngine \/ AddEngine \/ SetTimer \/ StartTimer \/ SaveStarted
      BY <2>5, StartEngineInv, AddEngineInv, SetTimerInv, StartTimerInv, HostSteps
    <2> QED BY <1>2, <2>1, <2>2, <2>3, <2>4, <2>5 DEF Proceed
  <1>3. ASSUME NEW p \in Players, ProcessAction(p) \/ LastLeaves(p) PROVE IInv'
    BY <1>3, ProcessActionInv, LastLeavesInv
  <1>4. ASSUME NEW e \in Games, TimerFires(e) \/ Callback(e) PROVE IInv'
    BY <1>4, TimerFiresInv, TimerCallbackInv DEF Callback
  <1>5. CASE StartGame \/ HostEndsGame \/ Crash
    BY <1>5, StartGameInv, HostSteps, CrashInv
  <1> QED BY <1>1, <1>2, <1>3, <1>4, <1>5 DEF Next

LEMMA Invariance == Spec => []IInv
  BY InitInv, NextInv, PTL DEF Spec

-----------------------------------------------------------------------------
\* However resets, expiries, cleanups, starts, failures and crashes overlap,
\* and however many there are: a running game of the room has a running timer
\* whose expiry is on its way, or a goroutine on its way to start it
\* (game_service.go:99-103, 198-205, 314-321; timer.go:30-39).
THEOREM RunningHasClock == Spec => []RunningGameHasClock
  <1>1. IInv => RunningGameHasClock
    BY AttendedGames DEF IInv
  <1> QED BY <1>1, Invariance, PTL

\* And a game that is over, also one that was over when it was taken up, is on
\* its way out of the room, unless an expiry found no room to clean up
\* (game_service.go:191-196, 297-312).
THEOREM FinishedLeaves == Spec => []FinishedGameLeaves
  <1>1. IInv => FinishedGameLeaves
    BY AttendedGames DEF IInv
  <1> QED BY <1>1, Invariance, PTL

\* However often the room is cleaned up and started anew meanwhile, a game that
\* ended is announced by a thread that saw it end (game_service.go:193, 304).
THEOREM EndAnnounced == Spec => []EndIsAnnounced
  <1>1. IInv => EndIsAnnounced
    BY DEF IInv
  <1> QED BY <1>1, Invariance, PTL

-----------------------------------------------------------------------------
(***************************************************************************)
(* A timer restarts only as often as the turns allow.  The restarts are    *)
(* accounted for: every thread that is about to restart a timer has paid   *)
(* for it with a turn, every restart that was made has been paid for, and  *)
(* only the first start of a timer is free.  A turn that ends its game     *)
(* pays for nothing, so the account may be in credit but never in debt.    *)
(***************************************************************************)
Restarting(t) ==
  \/ pc[t] \in {"getTimer", "resetTimer"}
  \/ pc[t] = "isGameOver" /\ ~engines[local[t].eng].at.over

Restarters == { t \in Threads : Restarting(t) }

FirstStart(e) == IF e > games \/ (e = games /\ pc[Host] \in Starting) THEN 0 ELSE 1

StartsPaid ==
  \A e \in Games : timers[e].gen + Cardinality(Restarters) <= turns + FirstStart(e)

\* A thread with an engine has one that was started already ...
Known(t) ==
  pc[t] \in Holding => local[t].eng <= games /\ (pc[Host] = "startEngine" => local[t].eng # games)

EnginesKnown == \A t \in Threads : Known(t)

\* ... and nobody has ended the others.
NewEnginesRun ==
  \A e \in Games : e > games \/ (e = games /\ pc[Host] = "startEngine") => ~engines[e].at.over

Counters ==
  /\ room \in {"waiting", "playing", "deleted"}
  /\ Cardinality(saved) <= 1
  /\ turns \in 0 .. MaxTurns /\ faults \in 0 .. MaxFaults /\ crashes \in 0 .. MaxCrashes

Account == StartsPaid /\ EnginesKnown /\ NewEnginesRun

\* The types before and after a step, which every lemma on the account needs.
Typed == IInv /\ Counters

LEMMA ThreadSets ==
  ASSUME NEW S, S \subseteq Threads
  PROVE  IsFiniteSet(S) /\ Cardinality(S) \in Nat
  <1>1. IsFiniteSet(Players)
    BY FS_Interval DEF Players
  <1>2. IsFiniteSet(Threads)
    BY <1>1, FS_Union DEF Threads
  <1>3. IsFiniteSet(S)
    BY <1>2, FS_Subset
  <1> QED BY <1>3, FS_CardinalityType

LEMMA SmallerSet ==
  ASSUME NEW S, NEW U, S \subseteq U, U \subseteq Threads
  PROVE  Cardinality(S) <= Cardinality(U)
  BY ThreadSets, FS_Subset

LEMMA RestarterSets ==
  /\ Restarters \subseteq Threads /\ Restarters' \subseteq Threads
  /\ Cardinality(Restarters) \in Nat /\ Cardinality(Restarters') \in Nat
  <1>1. Restarters \subseteq Threads /\ Restarters' \subseteq Threads
    BY DEF Restarters
  <1> QED BY <1>1, ThreadSets

LEMMA GenTypes == ASSUME IInv PROVE \A e \in Games : timers[e] \in Timers /\ timers[e].gen \in Nat
  BY DEF IInv, TypesOK, Timers, T!Timer

\* The account stays balanced if nothing is bought ...
LEMMA AccountKept ==
  ASSUME StartsPaid, Typed, Typed', Restarters' \subseteq Restarters, turns <= turns',
         \A e \in Games : timers'[e].gen <= timers[e].gen,
         \A e \in Games : FirstStart(e) <= FirstStart(e)'
  PROVE  StartsPaid'
  <1> DEFINE r == Cardinality(Restarters)
             rr == Cardinality(Restarters')
  <1>1. r \in Nat /\ rr \in Nat /\ rr <= r
    BY RestarterSets, SmallerSet
  <1>2. turns \in Nat /\ turns' \in Nat
    BY DEF Typed, Counters
  <1> SUFFICES ASSUME NEW e \in Games PROVE (timers[e].gen)' + rr <= turns' + FirstStart(e)'
    BY DEF StartsPaid
  <1>3. timers[e].gen + r <= turns + FirstStart(e)
    BY DEF StartsPaid
  <1>4. timers[e].gen \in Nat /\ timers'[e].gen \in Nat
    BY DEF Typed, IInv, TypesOK, Timers, T!Timer
  <1>5. FirstStart(e) \in Nat /\ FirstStart(e)' \in Nat
    BY DEF FirstStart
  <1>6. timers'[e].gen <= timers[e].gen /\ FirstStart(e) <= FirstStart(e)'
    OBVIOUS
  <1> HIDE DEF r, rr
  <1> QED BY <1>1, <1>2, <1>3, <1>4, <1>5, <1>6

LEMMA FirstStartKept ==
  ASSUME UNCHANGED games, pc'[Host] \in Starting => pc[Host] \in Starting
  PROVE  \A e \in Games : FirstStart(e) <= FirstStart(e)'
  BY DEF FirstStart, Games

\* Who takes a step may drop out of the restarters, and so may those whose
\* game it has ended.
LEMMA OthersRestart ==
  ASSUME HoldsObjects, NEW t \in Threads, NEW step, StepOf(t, step),
         \A e \in Games : engines[e].at.over => engines'[e].at.over
  PROVE  \A s \in Threads : s # t /\ Restarting(s)' => Restarting(s)
  <1> SUFFICES ASSUME NEW s \in Threads, s # t, Restarting(s)' PROVE Restarting(s)
    OBVIOUS
  <1>1. pc'[s] = pc[s] /\ local'[s] = local[s]
    BY DEF StepOf
  <1>2. CASE pc[s] \in {"getTimer", "resetTimer"}
    BY <1>2 DEF Restarting
  <1>3. CASE pc[s] = "isGameOver"
    <2>1. local[s].eng \in Games
      BY <1>3 DEF HoldsObjects, Holds, Holding
    <2>2. ~engines'[local[s].eng].at.over
      BY <1>1, <1>3 DEF Restarting
    <2> QED BY <1>3, <2>1, <2>2 DEF Restarting
  <1> QED BY <1>1, <1>2, <1>3 DEF Restarting

\* The others know what they knew, once the host is not at the start of one.
LEMMA OthersKnow ==
  ASSUME EnginesKnown, NEW t \in Threads, NEW step, StepOf(t, step), step # "startEngine",
         UNCHANGED games, Known(t)'
  PROVE  EnginesKnown' /\ (pc'[Host] = "startEngine" => pc[Host] = "startEngine")
  <1>1. pc'[Host] = "startEngine" => pc[Host] = "startEngine"
    BY DEF StepOf, Threads
  <1>2. EnginesKnown'
    <2> SUFFICES ASSUME NEW s \in Threads, s # t PROVE Known(s)'
      BY DEF EnginesKnown
    <2>1. Known(s) /\ pc'[s] = pc[s] /\ local'[s] = local[s]
      BY DEF EnginesKnown, StepOf
    <2> QED BY <1>1, <2>1 DEF Known
  <1> QED BY <1>1, <1>2

\* What the steps that start no timer and pay for none have in common.
LEMMA PlainStep ==
  ASSUME Typed, Typed', Account, NEW t \in Threads, NEW step, StepOf(t, step),
         step \in Starting => pc[t] \in Starting, step # "startEngine",
         UNCHANGED games, turns <= turns',
         \A e \in Games : engines[e].at.over => engines'[e].at.over,
         \A e \in Games : timers'[e].gen = timers[e].gen,
         Known(t)', Restarting(t)' => Restarting(t)
  PROVE  StartsPaid' /\ EnginesKnown'
  <1>1. pc'[Host] \in Starting => pc[Host] \in Starting
    BY DEF StepOf, Threads
  <1>2. EnginesKnown'
    BY OthersKnow DEF Account
  <1>3. Restarters' \subseteq Restarters
    BY OthersRestart DEF Restarters, Typed, IInv
  <1>4. \A e \in Games : timers'[e].gen <= timers[e].gen
    BY GenTypes DEF Typed
  <1>5. StartsPaid'
    BY <1>1, <1>3, <1>4, FirstStartKept, AccountKept DEF Account
  <1> QED BY <1>2, <1>5

\* Steps that leave positions, turns and generations as they are, ...
LEMMA QuietStep ==
  ASSUME Typed, Typed', Account, NEW t \in Threads, NEW step, StepOf(t, step),
         step \in Starting => pc[t] \in Starting, step # "startEngine",
         UNCHANGED <<games, turns>>,
         \A e \in Games : engines'[e].at = engines[e].at,
         \A e \in Games : timers'[e].gen = timers[e].gen,
         Known(t)', Restarting(t)' => Restarting(t)
  PROVE  Account'
  <1>1. turns <= turns' /\ \A e \in Games : engines[e].at.over => engines'[e].at.over
    BY DEF Typed, Counters
  <1>2. StartsPaid' /\ EnginesKnown'
    BY <1>1, PlainStep
  <1>3. NewEnginesRun'
    BY OthersKnow DEF Account, NewEnginesRun
  <1> QED BY <1>2, <1>3 DEF Account

\* ... with which most handlers end or go on to their cleanup ...
LEMMA LeavingStep ==
  ASSUME Typed, Typed', Account, NEW t \in Threads, NEW step, StepOf(t, step),
         step \in {"idle", "expired", "removeEngine", "deleteState", "saveRoom"},
         UNCHANGED <<games, turns>>,
         \A e \in Games : engines'[e].at = engines[e].at,
         \A e \in Games : timers'[e].gen = timers[e].gen
  PROVE  Account'
  <1>1. pc'[t] = step
    BY DEF StepOf
  <1>2. Known(t)' /\ ~Restarting(t)'
    BY <1>1 DEF Known, Holding, Restarting
  <1>3. step \notin Starting /\ step # "startEngine"
    BY DEF Starting
  <1> QED BY <1>2, <1>3, QuietStep

\* ... and those of no thread.
LEMMA NoThreadAccount ==
  ASSUME Typed, Typed', Account, UNCHANGED <<pc, local, engines, games, turns>>,
         \A e \in Games : timers'[e].gen = timers[e].gen
  PROVE  Account'
  <1>1. Restarters' = Restarters /\ \A e \in Games : FirstStart(e)' = FirstStart(e)
    BY DEF Restarters, Restarting, FirstStart
  <1>2. StartsPaid'
    BY <1>1 DEF Account, StartsPaid
  <1>3. EnginesKnown' /\ NewEnginesRun'
    BY DEF Account, EnginesKnown, Known, NewEnginesRun
  <1> QED BY <1>2, <1>3 DEF Account

\* A turn that does not end its game pays for one restart: its thread's.
LEMMA TurnPays ==
  ASSUME Typed, Typed', Account, NEW t \in Threads, NEW e \in Games, e = local[t].eng,
         pc[t] \in {"handleEvent", "forceAction"},
         StepOf(t, "isGameOver"), local'[t].eng = e, UNCHANGED <<timers, games>>,
         \A f \in Games : f # e => engines'[f] = engines[f],
         engines[e].at.over => engines'[e].at.over,
         Turn(engines'[e].at.over)
  PROVE  Account'
  <1>1. turns \in Nat /\ turns' \in Nat
    BY DEF Typed, Counters
  <1>2. \A f \in Games : engines[f].at.over => engines'[f].at.over
    OBVIOUS
  <1>3. e <= games /\ (pc[Host] = "startEngine" => e # games)
    BY DEF Account, EnginesKnown, Known, Holding
  <1>4. Known(t)'
    <2>1. pc'[Host] = "startEngine" => pc[Host] = "startEngine"
      BY DEF StepOf, Threads
    <2> QED BY <1>3, <2>1 DEF Known
  <1>5. EnginesKnown' /\ (pc'[Host] = "startEngine" => pc[Host] = "startEngine")
    BY <1>4, OthersKnow DEF Account
  <1>6. NewEnginesRun'
    <2> SUFFICES ASSUME NEW f \in Games, f > games \/ (f = games /\ pc[Host] = "startEngine")
                 PROVE  ~engines'[f].at.over
      BY <1>5 DEF NewEnginesRun
    <2>1. f # e
      BY <1>3 DEF Typed, IInv, TypesOK, Games
    <2> QED BY <2>1 DEF Account, NewEnginesRun
  <1>7. ~Restarting(t) /\ pc'[t] = "isGameOver"
    BY DEF Restarting, StepOf
  <1>8. CASE engines'[e].at.over
    <2>1. ~Restarting(t)' /\ turns <= turns'
      BY <1>1, <1>7, <1>8 DEF Restarting, Turn
    <2>2. StartsPaid'
      BY <1>2, <1>4, <2>1, PlainStep DEF Starting
    <2> QED BY <1>5, <1>6, <2>2 DEF Account
  <1>9. CASE ~engines'[e].at.over
    <2> DEFINE r == Cardinality(Restarters)
               rr == Cardinality(Restarters')
    <2>1. Restarters' \subseteq Restarters \cup {t} /\ t \notin Restarters
      BY <1>2, <1>7, OthersRestart DEF Restarters, Typed, IInv
    <2>2. r \in Nat /\ rr \in Nat /\ IsFiniteSet(Restarters)
      BY RestarterSets, ThreadSets
    <2>3. rr <= r + 1
      <3>1. Cardinality(Restarters \cup {t}) = r + 1
        BY <2>1, <2>2, FS_AddElement
      <3>2. Restarters \cup {t} \subseteq Threads
        BY RestarterSets
      <3>3. rr <= Cardinality(Restarters \cup {t})
        BY <2>1, <3>2, SmallerSet
      <3> QED BY <3>1, <3>3
    <2>4. turns' = turns + 1
      BY <1>9 DEF Turn
    <2>5. pc'[Host] \in Starting => pc[Host] \in Starting
      BY DEF StepOf, Starting, Threads
    <2>6. StartsPaid'
      <3> SUFFICES ASSUME NEW f \in Games PROVE (timers[f].gen)' + rr <= turns' + FirstStart(f)'
        BY DEF StartsPaid
      <3>1. timers[f].gen + r <= turns + FirstStart(f)
        BY DEF Account, StartsPaid
      <3>2. timers[f].gen \in Nat /\ timers'[f].gen = timers[f].gen
        BY GenTypes DEF Typed
      <3>3. FirstStart(f) \in Nat /\ FirstStart(f)' \in Nat
        BY DEF FirstStart
      <3>4. FirstStart(f) <= FirstStart(f)'
        BY <2>5, FirstStartKept
      <3> HIDE DEF r, rr
      <3> QED BY <1>1, <2>2, <2>3, <2>4, <3>1, <3>2, <3>3, <3>4
    <2> QED BY <1>5, <1>6, <2>6 DEF Account
  <1> QED BY <1>8, <1>9

\* What SetPosition does to the engines.
LEMMA NewPosition ==
  ASSUME TypesOK, NEW e \in Games, NEW next, SetPosition(e, next)
  PROVE  engines'[e].at = next /\ \A f \in Games : f # e => engines'[f] = engines[f]
  <1>1. engines' = [engines EXCEPT ![e] = [engines[e] EXCEPT !.at = next]]
    BY DEF SetPosition
  <1>2. [engines[e] EXCEPT !.at = next].at = next
    BY DEF TypesOK, Engine
  <1> QED BY <1>1, <1>2 DEF TypesOK

-----------------------------------------------------------------------------
LEMMA TimerFiresAccount ==
  ASSUME Typed, Typed', Account, NEW e \in Games, TimerFires(e) PROVE Account'
  <1>0. /\ timers[e].armed /\ timers' = [timers EXCEPT ![e] = Fired(timers[e])]
        /\ timers \in [Games -> Timers] /\ UNCHANGED <<pc, local, engines, games, turns>>
    BY DEF Typed, IInv, TypesOK, TimerFires, bounds
  <1>1. \A f \in Games : timers'[f].gen = timers[f].gen
    BY <1>0, FiredTimer
  <1> QED BY <1>0, <1>1, NoThreadAccount

LEMMA TimerCallbackAccount ==
  ASSUME Typed, Typed', Account, NEW e \in Games, NEW g \in timers[e].waiting, NEW s \in Slots,
         TimerCallback(e, g, s)
  PROVE  Account'
  <1>0. /\ timers' = [timers EXCEPT ![e] = Checked(timers[e], g)] /\ timers \in [Games -> Timers]
        /\ UNCHANGED <<local, engines, games, turns>> /\ s \in Threads /\ TypesOK
    BY DEF Typed, IInv, TypesOK, TimerCallback, bounds, Threads
  <1>1. \A f \in Games : timers'[f].gen = timers[f].gen
    BY <1>0, CheckedTimer
  <1>2. CASE UNCHANGED <<pc, local>>
    BY <1>0, <1>1, <1>2, NoThreadAccount
  <1>3. CASE Goto(s, "expired")
    <2>1. StepOf(s, "expired")
      BY <1>0, <1>3, GotoMoves DEF Steps
    <2> QED BY <1>0, <1>1, <2>1, LeavingStep
  <1> QED BY <1>2, <1>3 DEF TimerCallback

\* The thread has the room's engine, which is not the one that the host starts.
LEMMA TakesEngine ==
  ASSUME Typed, Typed', Account, NEW t \in Threads, NEW step \in {"handleEvent", "forceAction"},
         mgrEngine # 0, local' = [local EXCEPT ![t].eng = mgrEngine], Goto(t, step),
         UNCHANGED <<engines, timers, games, turns>>, pc[t] \in {"idle", "expired"}
  PROVE  Account'
  <1>0. TypesOK /\ mgrEngine \in 0 .. MaxGames /\ step \in Steps
    BY DEF Typed, IInv, TypesOK, Steps
  <1>1. StepOf(t, step) /\ local'[t].eng = mgrEngine
    BY <1>0, TakeEngineMoves
  <1>2. pc'[Host] = "startEngine" => pc[Host] = "startEngine"
    BY <1>1 DEF StepOf, Threads
  <1>3. Known(t)'
    BY <1>1, <1>2 DEF Typed, IInv, StartsNewest, Known
  <1>4. ~Restarting(t)' /\ step \notin Starting /\ step # "startEngine"
    BY <1>1 DEF Restarting, StepOf, Starting
  <1> QED BY <1>1, <1>3, <1>4, QuietStep

LEMMA ProcessActionAccount ==
  ASSUME Typed, Typed', Account, NEW p \in Players, ProcessAction(p) PROVE Account'
  <1>1. p \in Threads /\ UNCHANGED <<engines, timers, games, turns>> /\ pc[p] = "idle"
    BY DEF Threads, ProcessAction, memory, bounds, At
  <1> QED BY <1>1, TakesEngine DEF ProcessAction

LEMMA ReturnAccount ==
  ASSUME Typed, Typed', Account, NEW t \in Threads, Return(t), UNCHANGED <<engines, timers, games, turns>>
  PROVE  Account'
  <1>1. StepOf(t, "idle")
    BY ReturnMoves DEF Typed, IInv
  <1> QED BY <1>1, LeavingStep

LEMMA HandleTimerExpiredAccount ==
  ASSUME Typed, Typed', Account, NEW s \in Slots, HandleTimerExpired(s) PROVE Account'
  <1>1. s \in Threads /\ UNCHANGED <<engines, timers, games, turns>> /\ pc[s] = "expired"
    BY DEF Threads, HandleTimerExpired, memory, bounds, At
  <1>2. CASE Return(s)
    BY <1>1, <1>2, ReturnAccount
  <1>3. CASE ~Return(s)
    BY <1>1, <1>3, TakesEngine DEF HandleTimerExpired
  <1> QED BY <1>2, <1>3

LEMMA HandleEventAccount ==
  ASSUME Typed, Typed', Account, NEW p \in Players, HandleEvent(p) PROVE Account'
  <1> DEFINE e == local[p].eng
  <1>0. IInv /\ TypesOK /\ p \in Threads /\ e \in Games /\ pc[p] = "handleEvent"
    BY HandleEventMoves DEF Typed, IInv
  <1>1. CASE Return(p) /\ UNCHANGED <<memory, redis, bounds>>
    BY <1>0, <1>1, ReturnAccount DEF memory, bounds
  <1>2. CASE ~(Return(p) /\ UNCHANGED <<memory, redis, bounds>>)
    <2>1. PICK next \in Position :
            /\ engines[e].at.over => next.over
            /\ SetPosition(e, next) /\ SaveState(next) /\ Turn(next.over)
      BY <1>0, <1>2, HandleEventMoves
    <2>2. StepOf(p, "isGameOver") /\ local'[p].eng = e /\ UNCHANGED timers
      BY <1>0, <1>2, HandleEventMoves
    <2>3. games' = games
      BY <2>1 DEF SaveState, Redis, Failures
    <2>4. engines'[e].at = next /\ \A f \in Games : f # e => engines'[f] = engines[f]
      BY <1>0, <2>1, NewPosition
    <2>5. Turn(engines'[e].at.over) /\ (engines[e].at.over => engines'[e].at.over)
      BY <2>1, <2>4
    <2> QED BY <1>0, <2>2, <2>3, <2>4, <2>5, TurnPays
  <1> QED BY <1>1, <1>2

LEMMA ForceActionAccount ==
  ASSUME Typed, Typed', Account, NEW s \in Slots, ForceAction(s) PROVE Account'
  <1> DEFINE e == local[s].eng
  <1>0. /\ IInv /\ TypesOK /\ s \in Threads /\ e \in Games /\ pc[s] = "forceAction"
        /\ StepOf(s, "isGameOver") /\ local'[s].eng = e /\ UNCHANGED <<timers, games>>
    BY ForceActionMoves DEF Typed, IInv
  <1>1. CASE engines[e].at.over /\ UNCHANGED <<engines, redis, bounds>>
    <2>1. Turn(engines'[e].at.over)
      BY <1>1 DEF Turn, bounds
    <2> QED BY <1>0, <1>1, <2>1, TurnPays
  <1>2. CASE ~engines[e].at.over /\ Turn(FALSE) /\ UNCHANGED <<engines, redis, faults, crashes>>
    <2>1. engines[e].at.over = FALSE
      BY <1>0, <1>2 DEF TypesOK, Engine, Position
    <2>2. Turn(engines'[e].at.over)
      BY <1>2, <2>1
    <2> QED BY <1>0, <1>2, <2>2, TurnPays
  <1>3. CASE \E next \in Position : /\ ~engines[e].at.over
                                    /\ SetPosition(e, next) /\ SaveState(next) /\ Turn(next.over)
    <2>1. PICK next \in Position : /\ ~engines[e].at.over
                                   /\ SetPosition(e, next) /\ SaveState(next) /\ Turn(next.over)
      BY <1>3
    <2>2. engines'[e].at = next /\ \A f \in Games : f # e => engines'[f] = engines[f]
      BY <1>0, <2>1, NewPosition
    <2> QED BY <1>0, <2>1, <2>2, TurnPays
  <1> QED BY <1>0, <1>1, <1>2, <1>3, ForceActionMoves

\* The game is not over: the thread was restarting already.
LEMMA IsGameOverAccount ==
  ASSUME Typed, Typed', Account, NEW t \in Threads, IsGameOver(t) PROVE Account'
  <1> DEFINE e == local[t].eng
  <1>0. /\ IInv /\ e \in Games /\ pc[t] = "isGameOver"
        /\ UNCHANGED <<engines, timers, games, turns>>
    BY IsGameOverMoves DEF Typed, memory, bounds
  <1>1. CASE StepOf(t, "endGame") /\ local'[t] = local[t]
    <2>1. pc'[t] = "endGame" /\ (pc'[Host] = "startEngine" => pc[Host] = "startEngine")
      BY <1>1 DEF StepOf, Threads
    <2>2. Known(t)' /\ ~Restarting(t)'
      BY <1>0, <1>1, <2>1 DEF Account, EnginesKnown, Known, Holding, Restarting
    <2> QED BY <1>0, <1>1, <2>2, QuietStep DEF Starting
  <1>2. CASE ~engines[e].at.over /\ StepOf(t, "getTimer")
    <2>1. Known(t)' /\ Restarting(t)
      BY <1>0, <1>2 DEF Known, Holding, Restarting, StepOf
    <2> QED BY <1>0, <1>2, <2>1, QuietStep DEF Starting
  <1> QED BY <1>0, <1>1, <1>2, IsGameOverMoves

LEMMA GetTimerAccount ==
  ASSUME Typed, Typed', Account, NEW t \in Threads, GetTimer(t) PROVE Account'
  <1>0. /\ TypesOK /\ mgrTimer \in 0 .. MaxGames /\ pc[t] = "getTimer"
        /\ UNCHANGED <<engines, timers, games, turns>>
    BY DEF Typed, IInv, TypesOK, GetTimer, At, bounds, memory
  <1>1. CASE Return(t)
    BY <1>0, <1>1, ReturnAccount
  <1>2. CASE ~Return(t)
    <2>1. local' = [local EXCEPT ![t].tmr = mgrTimer] /\ Goto(t, "resetTimer")
      BY <1>2 DEF GetTimer
    <2>2. StepOf(t, "resetTimer")
      BY <1>0, <2>1, TakeTimerMoves DEF Steps
    <2>3. Known(t)' /\ Restarting(t)
      BY <1>0, <2>2 DEF Known, Holding, Restarting, StepOf
    <2> QED BY <1>0, <2>2, <2>3, QuietStep DEF Starting
  <1> QED BY <1>1, <1>2

LEMMA EndGameAccount ==
  ASSUME Typed, Typed', Account, NEW t \in Threads, EndGame(t) PROVE Account'
  <1>0. /\ IInv /\ pc[t] = "endGame" /\ UNCHANGED <<timers, games, turns>>
        /\ \A e \in Games : engines'[e].at = engines[e].at
    BY EndGameMoves DEF Typed, bounds
  <1>1. CASE StepOf(t, "getRoom") /\ local'[t] = local[t]
    <2>1. pc'[t] = "getRoom" /\ (pc'[Host] = "startEngine" => pc[Host] = "startEngine")
      BY <1>1 DEF StepOf, Threads
    <2>2. Known(t)' /\ ~Restarting(t)'
      BY <1>0, <1>1, <2>1 DEF Account, EnginesKnown, Known, Holding, Restarting
    <2> QED BY <1>0, <1>1, <2>2, QuietStep DEF Starting
  <1>2. CASE StepOf(t, "removeEngine")
    BY <1>0, <1>2, LeavingStep
  <1> QED BY <1>0, <1>1, <1>2, EndGameMoves

LEMMA GetRoomAccount ==
  ASSUME Typed, Typed', Account, NEW s \in Slots, GetRoom(s) PROVE Account'
  <1>0. /\ IInv /\ s \in Threads /\ UNCHANGED <<timers, games, turns>>
        /\ \A e \in Games : engines'[e].at = engines[e].at
        /\ StepOf(s, "removeEngine") \/ StepOf(s, "idle")
    BY GetRoomMoves DEF Typed
  <1> QED BY <1>0, LeavingStep

LEMMA CleanupAccount ==
  ASSUME Typed, Typed', Account, NEW t \in Threads, DeleteGameState(t) \/ SaveRoom(t)
  PROVE  Account'
  <1>1. UNCHANGED <<engines, timers, games, turns>> /\ TypesOK
    BY DEF DeleteGameState, SaveRoom, Redis, Failures, memory, Typed, IInv
  <1>2. CASE Return(t)
    BY <1>1, <1>2, ReturnAccount
  <1>3. CASE Goto(t, "saveRoom") /\ UNCHANGED local
    <2>1. StepOf(t, "saveRoom")
      BY <1>1, <1>3, GotoMoves DEF Steps
    <2> QED BY <1>1, <2>1, LeavingStep
  <1> QED BY <1>2, <1>3 DEF DeleteGameState, SaveRoom

LEMMA HostAccount ==
  ASSUME Typed, Typed', Account, SaveStarted \/ HostEndsGame PROVE Account'
  <1>1. Host \in Threads /\ UNCHANGED <<engines, timers, games, turns>> /\ TypesOK
    BY DEF Threads, SaveStarted, HostEndsGame, Redis, Failures, bounds, memory, Typed, IInv
  <1>2. CASE SaveStarted
    BY <1>1, <1>2, ReturnAccount DEF SaveStarted
  <1>3. CASE HostEndsGame
    <2>1. StepOf(Host, "removeEngine")
      BY <1>1, <1>3, GotoMoves DEF HostEndsGame, Steps
    <2> QED BY <1>1, <2>1, LeavingStep
  <1> QED BY <1>2, <1>3

LEMMA RemoveEngineAccount ==
  ASSUME Typed, Typed', Account, NEW t \in Threads, RemoveEngine(t) PROVE Account'
  <1>1. /\ TypesOK /\ Goto(t, "deleteState") /\ UNCHANGED <<local, engines, games, turns>>
        /\ timers' = [e \in Games |-> IF e = mgrTimer THEN Stopped(timers[e]) ELSE timers[e]]
    BY DEF Typed, IInv, RemoveEngine, bounds
  <1>2. StepOf(t, "deleteState")
    BY <1>1, GotoMoves DEF Steps
  <1>3. \A e \in Games : timers'[e].gen = timers[e].gen
    BY <1>1, StopRoomsTimer
  <1> QED BY <1>1, <1>2, <1>3, LeavingStep

LEMMA LastLeavesAccount ==
  ASSUME Typed, Typed', Account, NEW p \in Players, LastLeaves(p) PROVE Account'
  BY NoThreadAccount DEF LastLeaves, memory, bounds

\* ResetTimer: the restart that the thread has paid for.
LEMMA ResetTimerAccount ==
  ASSUME Typed, Typed', Account, NEW t \in Threads, ResetTimer(t) PROVE Account'
  <1> DEFINE e == local[t].tmr
             r == Cardinality(Restarters)
             rr == Cardinality(Restarters')
  <1>0. /\ IInv /\ TypesOK /\ pc[t] = "resetTimer" /\ Return(t)
        /\ timers' = [timers EXCEPT ![e] = Started(timers[e])] /\ timers \in [Games -> Timers]
        /\ UNCHANGED <<engines, games, turns>> /\ turns \in Nat
    BY DEF Typed, Counters, IInv, TypesOK, ResetTimer, At, bounds
  <1>1. StepOf(t, "idle")
    BY <1>0, ReturnMoves
  <1>2. Restarters' \subseteq Restarters \ {t} /\ t \in Restarters
    <2>1. pc'[t] = "idle"
      BY <1>1 DEF StepOf
    <2>2. Restarting(t) /\ ~Restarting(t)'
      BY <1>0, <2>1 DEF Restarting
    <2>3. \A s \in Threads : s # t /\ Restarting(s)' => Restarting(s)
      BY <1>0, <1>1, OthersRestart DEF IInv
    <2> QED BY <2>2, <2>3 DEF Restarters
  <1>3. r \in Nat /\ rr \in Nat /\ rr <= r - 1
    <2>1. IsFiniteSet(Restarters) /\ r \in Nat /\ rr \in Nat
      BY RestarterSets, ThreadSets
    <2>2. Cardinality(Restarters \ {t}) = r - 1
      BY <1>2, <2>1, FS_RemoveElement
    <2>3. rr <= Cardinality(Restarters \ {t})
      BY <1>2, RestarterSets, SmallerSet
    <2> QED BY <2>1, <2>2, <2>3
  <1>4. pc'[Host] \in Starting => pc[Host] \in Starting
    BY <1>1 DEF StepOf, Starting, Threads
  <1>5. StartsPaid'
    <2> SUFFICES ASSUME NEW f \in Games PROVE (timers[f].gen)' + rr <= turns + FirstStart(f)'
      BY <1>0 DEF StartsPaid
    <2>1. timers[f].gen + r <= turns + FirstStart(f)
      BY DEF Account, StartsPaid
    <2>2. timers[f].gen \in Nat
      BY <1>0, GenTypes
    <2>3. timers'[f].gen \in Nat /\ timers'[f].gen <= timers[f].gen + 1
      <3>1. CASE f = e
        <4>1. timers'[f].gen = timers[f].gen + 1
          BY <1>0, <3>1, StartedTimer
        <4> QED BY <2>2, <4>1
      <3>2. CASE f # e
        <4>1. timers'[f] = timers[f]
          BY <1>0, <3>2
        <4> QED BY <2>2, <4>1
      <3> QED BY <3>1, <3>2
    <2>4. FirstStart(f) \in Nat /\ FirstStart(f)' \in Nat
      BY DEF FirstStart
    <2>5. FirstStart(f) <= FirstStart(f)'
      BY <1>0, <1>4, FirstStartKept
    <2> HIDE DEF r, rr
    <2> QED BY <1>0, <1>3, <2>1, <2>2, <2>3, <2>4, <2>5
  <1>6. Known(t)'
    BY <1>1 DEF Known, Holding, StepOf
  <1>7. EnginesKnown' /\ NewEnginesRun'
    BY <1>0, <1>1, <1>6, OthersKnow DEF Account, NewEnginesRun
  <1> QED BY <1>5, <1>7 DEF Account

-----------------------------------------------------------------------------
\* The host's start: nobody has the new engine, and its first start is free.
LEMMA StartGameAccount == ASSUME Typed, Typed', Account, StartGame PROVE Account'
  <1>0. /\ IInv /\ TypesOK /\ Host \in Threads /\ pc[Host] = "idle"
        /\ games' = games + 1 /\ games \in Nat /\ games < MaxGames
        /\ local' = [local EXCEPT ![Host].eng = games + 1] /\ Goto(Host, "startEngine")
        /\ UNCHANGED <<engines, timers, turns>>
    BY DEF Typed, IInv, TypesOK, Threads, StartGame, At, memory
  <1>1. StepOf(Host, "startEngine")
    <2>1. games + 1 \in 0 .. MaxGames /\ "startEngine" \in Steps
      BY <1>0 DEF Steps
    <2> QED BY <1>0, <2>1, TakeEngineMoves
  <1>2. pc'[Host] = "startEngine" /\ ~Restarting(Host)'
    BY <1>1 DEF StepOf, Restarting
  <1>3. Restarters' \subseteq Restarters
    BY <1>0, <1>1, <1>2, OthersRestart DEF Restarters, IInv
  <1>4. \A e \in Games : FirstStart(e) <= FirstStart(e)'
    BY <1>0 DEF FirstStart, Games, Starting
  <1>5. turns <= turns' /\ \A e \in Games : timers'[e].gen <= timers[e].gen
    BY <1>0, GenTypes DEF Typed, Counters
  <1>6. StartsPaid'
    BY <1>3, <1>4, <1>5, AccountKept DEF Account
  <1>7. EnginesKnown'
    <2> SUFFICES ASSUME NEW s \in Threads, s # Host PROVE Known(s)'
      BY <1>2 DEF EnginesKnown, Known, Holding
    <2>1. Known(s) /\ pc'[s] = pc[s] /\ local'[s] = local[s]
      BY <1>1 DEF Account, EnginesKnown, StepOf
    <2>2. local[s].eng \in Nat
      BY <1>0 DEF TypesOK, Locals
    <2> QED BY <1>0, <2>1, <2>2 DEF Known
  <1>8. NewEnginesRun'
    BY <1>0 DEF Account, NewEnginesRun, Games
  <1> QED BY <1>6, <1>7, <1>8 DEF Account

LEMMA StartEngineAccount == ASSUME Typed, Typed', Account, StartEngine PROVE Account'
  <1>0. /\ Host \in Threads /\ pc[Host] = "startEngine" /\ StepOf(Host, "addEngine")
        /\ UNCHANGED <<timers, games, turns>> /\ games \in Games
        /\ \A e \in Games : e # games => engines'[e] = engines[e]
    BY StartEngineMoves DEF Typed
  <1>1. \A e \in Games : engines[e].at.over => engines'[e].at.over
    BY <1>0 DEF Account, NewEnginesRun
  <1>2. pc'[Host] = "addEngine" /\ Known(Host)' /\ ~Restarting(Host)' /\ turns <= turns'
    BY <1>0 DEF StepOf, Known, Holding, Restarting, Typed, Counters
  <1>3. StartsPaid' /\ EnginesKnown'
    BY <1>0, <1>1, <1>2, PlainStep DEF Starting
  <1>4. NewEnginesRun'
    BY <1>0, <1>2 DEF Account, NewEnginesRun, Games
  <1> QED BY <1>3, <1>4 DEF Account

\* The step stays within StartGame.
LEMMA StartingAccount ==
  ASSUME Typed, Typed', Account, NEW step \in {"setTimer", "startTimer"}, StepOf(Host, step),
         pc[Host] \in Starting, UNCHANGED <<engines, games, turns>>,
         \A e \in Games : timers'[e].gen = timers[e].gen
  PROVE  Account'
  <1>1. Host \in Threads /\ Known(Host)' /\ ~Restarting(Host)'
    BY DEF Threads, StepOf, Known, Holding, Restarting
  <1> QED BY <1>1, QuietStep DEF Starting

LEMMA AddEngineAccount == ASSUME Typed, Typed', Account, AddEngine PROVE Account'
  <1>1. /\ TypesOK /\ Host \in Threads /\ pc[Host] = "addEngine"
        /\ Goto(Host, "setTimer") /\ UNCHANGED <<local, engines, timers, games, turns>>
    BY DEF Typed, IInv, Threads, AddEngine, At, bounds
  <1>2. StepOf(Host, "setTimer")
    BY <1>1, GotoMoves DEF Steps
  <1> QED BY <1>1, <1>2, StartingAccount DEF Starting

LEMMA SetTimerAccount == ASSUME Typed, Typed', Account, SetTimer PROVE Account'
  <1>1. /\ TypesOK /\ Host \in Threads /\ pc[Host] = "setTimer"
        /\ timers' = [e \in Games |-> IF e = mgrTimer THEN Stopped(timers[e]) ELSE timers[e]]
        /\ Goto(Host, "startTimer") /\ UNCHANGED <<local, engines, games, turns>>
    BY DEF Typed, IInv, Threads, SetTimer, At, bounds
  <1>2. StepOf(Host, "startTimer")
    BY <1>1, GotoMoves DEF Steps
  <1> QED BY <1>1, <1>2, StopRoomsTimer, StartingAccount DEF Starting

LEMMA StartTimerAccount == ASSUME Typed, Typed', Account, StartTimer PROVE Account'
  <1> DEFINE r == Cardinality(Restarters)
             rr == Cardinality(Restarters')
  <1>0. /\ IInv /\ TypesOK /\ Host \in Threads /\ pc[Host] = "startTimer"
        /\ Goto(Host, "saveStarted") /\ Drop(Host)
        /\ timers' = [timers EXCEPT ![local[Host].eng] = Started(timers[local[Host].eng])]
        /\ timers \in [Games -> Timers] /\ UNCHANGED <<engines, games, turns>> /\ turns \in Nat
    BY DEF Typed, Counters, IInv, TypesOK, Threads, StartTimer, At, bounds
  <1>1. games \in Games /\ local[Host].eng = games
    BY <1>0 DEF IInv, StartsNewest, Starting
  <1>2. StepOf(Host, "saveStarted") /\ pc'[Host] = "saveStarted"
    BY <1>0, DropMoves DEF Steps, StepOf
  <1>3. Known(Host)' /\ ~Restarting(Host)'
    BY <1>2 DEF Known, Holding, Restarting
  <1>4. r \in Nat /\ rr \in Nat /\ rr <= r
    <2>1. Restarters' \subseteq Restarters
      BY <1>0, <1>2, <1>3, OthersRestart DEF Restarters, IInv
    <2> QED BY <2>1, RestarterSets, SmallerSet
  <1>5. StartsPaid'
    <2> SUFFICES ASSUME NEW f \in Games PROVE (timers[f].gen)' + rr <= turns + FirstStart(f)'
      BY <1>0 DEF StartsPaid
    <2>1. timers[f].gen + r <= turns + FirstStart(f)
      BY DEF Account, StartsPaid
    <2>2. timers[f].gen \in Nat
      BY <1>0, GenTypes
    <2>3. FirstStart(f) \in Nat /\ FirstStart(f)' \in Nat
      BY DEF FirstStart
    <2>4. CASE f = games
      <3>1. FirstStart(f) = 0 /\ FirstStart(f)' = 1
        BY <1>0, <1>1, <1>2, <2>4 DEF FirstStart, Starting, Games
      <3>2. timers'[f].gen = timers[f].gen + 1
        BY <1>0, <1>1, <2>4, StartedTimer
      <3> HIDE DEF r, rr
      <3> QED BY <1>0, <1>4, <2>1, <2>2, <3>1, <3>2
    <2>5. CASE f # games
      <3>1. FirstStart(f)' = FirstStart(f)
        BY <1>0, <2>5 DEF FirstStart
      <3>2. timers'[f] = timers[f]
        BY <1>0, <1>1, <2>5
      <3> HIDE DEF r, rr
      <3> QED BY <1>0, <1>4, <2>1, <2>2, <2>3, <3>1, <3>2
    <2> QED BY <2>4, <2>5
  <1>6. EnginesKnown' /\ NewEnginesRun'
    BY <1>0, <1>2, <1>3, OthersKnow DEF Account, NewEnginesRun
  <1> QED BY <1>5, <1>6 DEF Account

-----------------------------------------------------------------------------
\* A state without threads and timers owes nothing.
Restarted ==
  /\ pc = [t \in Threads |-> "idle"]
  /\ timers = [e \in Games |-> NewTimer]
  /\ engines = [e \in Games |-> NoEngine]

LEMMA NothingOwed == Restarted /\ turns \in Nat => Account
  <1> SUFFICES ASSUME Restarted, turns \in Nat PROVE Account
    OBVIOUS
  <1> USE DEF Restarted
  <1>1. Restarters = {} /\ Cardinality(Restarters) = 0
    BY FS_EmptySet DEF Restarters, Restarting
  <1>2. \A e \in Games : FirstStart(e) \in Nat
    BY DEF FirstStart
  <1>3. StartsPaid
    BY <1>1, <1>2, NewTimerType DEF StartsPaid
  <1>4. EnginesKnown
    BY DEF EnginesKnown, Known, Holding
  <1>5. NewEnginesRun
    BY NoEngineType DEF NewEnginesRun
  <1> QED BY <1>3, <1>4, <1>5 DEF Account

LEMMA CrashAccount == ASSUME Crash, Typed' PROVE Account'
  <1>1. Restarted' /\ (turns \in Nat)'
    BY DEF Crash, Restarted, Typed, Counters
  <1>2. (Restarted /\ turns \in Nat => Account)'
    BY NothingOwed, PTL
  <1> QED BY <1>1, <1>2

LEMMA AccountStep == ASSUME Typed, Typed', Account, [Next]_vars PROVE Account'
  <1>1. CASE UNCHANGED vars
    BY <1>1, NoThreadAccount DEF vars, memory, bounds
  <1>2. ASSUME NEW t \in Threads, Proceed(t) PROVE Account'
    <2>1. CASE t \in Players /\ HandleEvent(t)
      BY <2>1, HandleEventAccount
    <2>2. CASE t \in Slots /\ (HandleTimerExpired(t) \/ ForceAction(t) \/ GetRoom(t))
      BY <2>2, HandleTimerExpiredAccount, ForceActionAccount, GetRoomAccount
    <2>3. CASE DeleteGameState(t) \/ SaveRoom(t)
      BY <2>3, CleanupAccount
    <2>4. CASE IsGameOver(t) \/ GetTimer(t) \/ ResetTimer(t) \/ EndGame(t) \/ RemoveEngine(t)
      BY <2>4, IsGameOverAccount, GetTimerAccount, ResetTimerAccount, EndGameAccount,
         RemoveEngineAccount
    <2>5. CASE StartEngine \/ AddEngine \/ SetTimer \/ StartTimer \/ SaveStarted
      BY <2>5, StartEngineAccount, AddEngineAccount, SetTimerAccount, StartTimerAccount,
         HostAccount
    <2> QED BY <1>2, <2>1, <2>2, <2>3, <2>4, <2>5 DEF Proceed
  <1>3. ASSUME NEW p \in Players, ProcessAction(p) \/ LastLeaves(p) PROVE Account'
    BY <1>3, ProcessActionAccount, LastLeavesAccount
  <1>4. ASSUME NEW e \in Games, TimerFires(e) \/ Callback(e) PROVE Account'
    BY <1>4, TimerFiresAccount, TimerCallbackAccount DEF Callback
  <1>5. CASE StartGame \/ HostEndsGame \/ Crash
    BY <1>5, StartGameAccount, HostAccount, CrashAccount
  <1> QED BY <1>1, <1>2, <1>3, <1>4, <1>5 DEF Next

-----------------------------------------------------------------------------
\* The bounds and what Redis holds.
LEMMA CountersStep == ASSUME Counters, [Next]_vars PROVE Counters'
  <1>1. turns \in Nat /\ faults \in Nat /\ crashes \in Nat
    BY DEF Counters
  <1>2. CASE UNCHANGED <<room, saved, turns, faults, crashes>>
    BY <1>2 DEF Counters
  <1>3. ASSUME NEW n \in {0, 1, 2}, Failures(n) PROVE faults' \in 0 .. MaxFaults /\ crashes' = crashes
    BY <1>1, <1>3 DEF Failures
  <1>4. ASSUME NEW ok \in BOOLEAN, Redis(ok) PROVE faults' \in 0 .. MaxFaults /\ crashes' = crashes
    BY <1>3, <1>4 DEF Redis
  <1>5. \A at : Cardinality({at}) = 1 /\ Cardinality({}) = 0
    BY FS_Singleton, FS_EmptySet
  <1>6. ASSUME NEW over, Turn(over) PROVE turns' \in 0 .. MaxTurns
    BY <1>1, <1>6 DEF Turn, Counters
  <1>7. ASSUME NEW at, SaveState(at), turns' \in 0 .. MaxTurns, UNCHANGED room PROVE Counters'
    <2>1. faults' \in 0 .. MaxFaults /\ crashes' = crashes
      BY <1>4, <1>7 DEF SaveState
    <2>2. saved' = {at} \/ saved' = saved
      BY <1>7 DEF SaveState
    <2>3. Cardinality(saved') <= 1
      BY <1>5, <2>2 DEF Counters
    <2> QED BY <1>7, <2>1, <2>3 DEF Counters
  <1>8. ASSUME NEW t \in Threads, Proceed(t) PROVE Counters'
    <2>1. CASE HandleEvent(t)
      BY <1>2, <1>6, <1>7, <2>1 DEF HandleEvent, redis, bounds
    <2>2. CASE ForceAction(t)
      <3>1. CASE UNCHANGED <<engines, redis, bounds>>
        BY <1>2, <3>1 DEF redis, bounds
      <3>2. CASE Turn(FALSE) /\ UNCHANGED <<engines, redis, games, faults, crashes>>
        BY <1>6, <3>2 DEF redis, Counters
      <3>3. CASE \E next : SaveState(next) /\ Turn(next.over) /\ UNCHANGED room
        BY <1>6, <1>7, <3>3
      <3> QED BY <2>2, <3>1, <3>2, <3>3 DEF ForceAction
    <2>3. CASE GetRoom(t)
      BY <1>4, <2>3 DEF GetRoom, redis, Counters
    <2>4. CASE DeleteGameState(t)
      BY <1>4, <1>5, <2>4 DEF DeleteGameState, Counters
    <2>5. CASE SaveRoom(t)
      BY <1>4, <2>5 DEF SaveRoom, Counters
    <2>6. CASE SaveStarted
      BY <1>4, <2>6 DEF SaveStarted, Counters
    <2>7. CASE StartEngine
      <3>1. PICK n \in {0, 1, 2} : Failures(n)
        BY <2>7 DEF StartEngine
      <3>2. PICK at : saved' = {at} \/ saved' = saved
        BY <2>7 DEF StartEngine
      <3>3. UNCHANGED <<room, turns>>
        BY <2>7 DEF StartEngine
      <3>4. Cardinality(saved') <= 1
        <4>1. CASE saved' = {at}
          <5>1. Cardinality({at}) = 1
            BY <1>5
          <5> QED BY <4>1, <5>1
        <4>2. CASE saved' = saved
          BY <4>2 DEF Counters
        <4> QED BY <3>2, <4>1, <4>2
      <3>5. faults' \in 0 .. MaxFaults /\ crashes' = crashes
        BY <1>3, <3>1
      <3> QED BY <3>3, <3>4, <3>5 DEF Counters
    <2>8. CASE IsGameOver(t) \/ GetTimer(t) \/ ResetTimer(t) \/ EndGame(t) \/ RemoveEngine(t) \/ HandleTimerExpired(t)
      BY <1>2, <2>8 DEF IsGameOver, GetTimer, ResetTimer, EndGame, RemoveEngine,
         HandleTimerExpired, redis, bounds
    <2>9. CASE AddEngine \/ SetTimer \/ StartTimer
      BY <1>2, <2>9 DEF AddEngine, SetTimer, StartTimer, redis, bounds
    <2> QED BY <1>8, <2>1, <2>2, <2>3, <2>4, <2>5, <2>6, <2>7, <2>8, <2>9 DEF Proceed
  <1>9. ASSUME NEW p \in Players, ProcessAction(p) PROVE Counters'
    BY <1>2, <1>9 DEF ProcessAction, redis, bounds
  <1>10. ASSUME NEW p \in Players, LastLeaves(p) PROVE Counters'
    BY <1>10 DEF LastLeaves, bounds, Counters
  <1>11. ASSUME NEW e \in Games, TimerFires(e) \/ Callback(e) PROVE Counters'
    BY <1>2, <1>11 DEF TimerFires, Callback, TimerCallback, redis, bounds
  <1>12. CASE StartGame \/ HostEndsGame
    BY <1>2, <1>12 DEF StartGame, HostEndsGame, redis, bounds
  <1>13. CASE Crash
    BY <1>1, <1>13 DEF Crash, Counters, redis
  <1>14. CASE UNCHANGED vars
    BY <1>2, <1>14 DEF vars, redis, bounds
  <1> QED BY <1>8, <1>9, <1>10, <1>11, <1>12, <1>13, <1>14 DEF Next

LEMMA InitAccount == Init => Counters /\ Account
  <1> SUFFICES ASSUME Init PROVE Counters /\ Account
    OBVIOUS
  <1>1. Restarted /\ turns \in Nat
    BY DEF Init, Restarted
  <1>2. Cardinality(saved) = 0
    BY FS_EmptySet DEF Init
  <1>3. Counters
    BY <1>2 DEF Init, Counters
  <1> QED BY <1>1, <1>3, NothingOwed

LEMMA AccountInvariance == Spec => [](IInv /\ Counters /\ Account)
  <1>1. IInv /\ IInv' /\ Counters /\ Account /\ [Next]_vars => Counters' /\ Account'
    BY CountersStep, AccountStep DEF Typed
  <1> QED BY <1>1, InitAccount, Invariance, PTL DEF Spec

LEMMA Types == IInv /\ Counters /\ Account => TypeOK
  <1> SUFFICES ASSUME IInv, Counters, Account PROVE TypeOK
    OBVIOUS
  <1>1. ASSUME NEW e \in Games PROVE T(e)!TypeOK
    <2>1. timers[e].gen + Cardinality(Restarters) <= turns + FirstStart(e)
      BY DEF Account, StartsPaid
    <2>2. Cardinality(Restarters) \in Nat /\ turns \in Nat /\ turns <= MaxTurns
      BY RestarterSets DEF Counters
    <2>3. FirstStart(e) \in {0, 1} /\ timers[e].gen \in Nat
      BY GenTypes DEF FirstStart
    <2>4. timers[e].gen <= MaxTurns + 1
      BY <2>1, <2>2, <2>3
    <2>5. timers[e] \in Timers
      BY GenTypes
    <2> QED BY <2>4, <2>5 DEF T!TypeOK, Timers, T!Timer
  <1> QED BY <1>1 DEF TypeOK, IInv, TypesOK, Locals, Counters

\* Well typed, for every number of players, games, turns, timer goroutines,
\* Redis failures and crashes; and with it that resets, expiries and starts
\* that overlap never restart a timer more often than turns were played
\* (game_service.go:86-103, 193-205, manager.go:31-55).
THEOREM TypeCorrect == Spec => []TypeOK
  BY Types, AccountInvariance, PTL
===============================================================================
