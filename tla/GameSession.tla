---------------------------- MODULE GameSession ----------------------------
(***************************************************************************)
(* The life of the games of one room: GameService                          *)
(* (internal/service/game_service.go) over the Manager                     *)
(* (internal/game/manager.go), the turn timer of every game (TurnTimer)    *)
(* and the Hanabi engine, which is reduced here to the seat in turn and    *)
(* whether the game is over.                                               *)
(*                                                                         *)
(* The threads are the connection loops of the players, each of which      *)
(* serves one message at a time, and the goroutines in which timer         *)
(* callbacks run.  A step of a thread is what it does under one mutex or   *)
(* in one call of Redis; `pc' names the step that comes next.              *)
(*                                                                         *)
(* Abstracted: cards and tokens (module Hanabi has them; that a game ends  *)
(* after finitely many accepted requests is Hanabi!RequestsUseBudget);     *)
(* readiness of the players; all of the room record but whether it is      *)
(* there and IsGameStarted.  The host is fixed, the mode is Hanabi, and    *)
(* players who leave before the last one count as silent.                  *)
(* A Redis call may fail MaxFaults times, and the process may crash        *)
(* MaxCrashes times; Redis keeps its data over a crash.                    *)
(***************************************************************************)
EXTENDS Integers, FiniteSets

CONSTANTS
  NumPlayers,    \* players 0 .. NumPlayers - 1, by seat
  Host,          \* the host's seat
  Slots,         \* goroutines that run onExpire; bounds how many run at once
  MaxGames,      \* bounds the games started in the room
  MaxTurns,      \* how many actions and expiries, in all games, leave one running
  MaxFaults,     \* bounds the failing Redis calls
  MaxCrashes     \* bounds the crashes of the process

Players == 0 .. NumPlayers - 1
Games   == 1 .. MaxGames
Threads == Players \cup Slots

ASSUME PlayersAssumption == NumPlayers \in Nat \ {0} /\ Host \in Players
ASSUME SlotsAssumption   == IsFiniteSet(Slots) /\ Slots # {} /\ Slots \cap Players = {}
ASSUME BoundsAssumption  == /\ MaxGames \in Nat \ {0} /\ MaxTurns \in Nat
                            /\ MaxFaults \in Nat /\ MaxCrashes \in Nat

VARIABLES
  pc,         \* the next step of each thread
  local,      \* its local variables: engine, timer, and the timer's generation
  mgrEngine,  \* Manager.engines[roomID], 0 if there is none
  mgrTimer,   \* Manager.timers[roomID], 0 if there is none
  engines,    \* the Hanabi engines, by game
  timers,     \* the turn timers, by game
  room,       \* the room's record in Redis: IsGameStarted or not, or no record
  saved,      \* the game state in Redis: a set of at most one position
  games,      \* how many games were started
  turns,      \* how many actions and expiries left a game running
  faults, crashes

memory  == <<mgrEngine, mgrTimer, engines, timers>>
redis   == <<room, saved>>
bounds  == <<games, turns, faults, crashes>>
vars    == <<pc, local, memory, redis, bounds>>

\* What the session needs of an engine's state: who is in turn, and GameOver.
Position == [seat : Players, over : BOOLEAN]
Dealt    == [seat |-> 0, over |-> FALSE]

\* Of an engine: its state; the seats of players without a hand, who have joined
\* since the state that it took up was saved; whether it was over when it was
\* taken up; whether EndGame announced its end; and whether an expiry that ended
\* it found no room to clean up.  The last three are history.
Engine   == [at : Position, lacks : SUBSET Players, wasOver : BOOLEAN,
             announced : BOOLEAN, stranded : BOOLEAN]
NoEngine == [at |-> Dealt, lacks |-> {}, wasOver |-> FALSE,
             announced |-> FALSE, stranded |-> FALSE]
NoLocals == [eng |-> 0, tmr |-> 0]

\* Every restart of a timer follows a turn, but for the first.
T(e) == INSTANCE TurnTimer WITH timer <- timers[e], MaxStarts <- MaxTurns + 1

NewTimer      == T(1)!NewTimer
Started(t)    == T(1)!Started(t)
Stopped(t)    == T(1)!Stopped(t)
Fired(t)      == T(1)!Fired(t)
Checked(t, g) == T(1)!Checked(t, g)

Init ==
  /\ pc = [t \in Threads |-> "idle"]
  /\ local = [t \in Threads |-> NoLocals]
  /\ mgrEngine = 0 /\ mgrTimer = 0
  /\ engines = [e \in Games |-> NoEngine]
  /\ timers = [e \in Games |-> NewTimer]
  /\ room = "waiting"
  /\ saved = {}
  /\ games = 0 /\ turns = 0 /\ faults = 0 /\ crashes = 0

-----------------------------------------------------------------------------
At(t, step) == pc[t] = step

Goto(t, step) == pc' = [pc EXCEPT ![t] = step]

\* What the handler holds is not read again.
Drop(t) == local' = [local EXCEPT ![t] = NoLocals]

\* The handler returns.
Return(t) == Goto(t, "idle") /\ Drop(t)

\* So many of the Redis calls of a step fail.
Failures(n) == /\ faults + n <= MaxFaults
               /\ faults' = faults + n
               /\ UNCHANGED <<games, crashes>>

\* A Redis call succeeds, or it fails and uses up a fault.
Redis(ok) == Failures(IF ok THEN 0 ELSE 1)

\* A step of an engine that leaves its game running is one of MaxTurns.
Turn(over) == IF over THEN turns' = turns
                      ELSE turns < MaxTurns /\ turns' = turns + 1

NextSeat(p) == (p + 1) % NumPlayers

\* The turn passes, and the game may be over with that.
Moves(e) == { next \in Position : /\ ~engines[e].at.over
                                  /\ next.seat = NextSeat(engines[e].at.seat) }

\* A card that ends the game keeps the turn (Hanabi!AdvanceTurn); a player
\* without a hand has none.
EndingCards(e) == { next \in Position : /\ ~engines[e].at.over /\ next.over
                                        /\ next.seat = engines[e].at.seat
                                        /\ next.seat \notin engines[e].lacks }

\* Requests after the end pass no turn.
LateRequests(e) == { next \in {engines[e].at} : next.over }

SetPosition(e, at) == engines' = [engines EXCEPT ![e].at = at]

\* The engine saves its state; it only logs a failure.
SaveState(at) == \E ok \in BOOLEAN : /\ Redis(ok)
                                     /\ saved' = IF ok THEN {at} ELSE saved

-----------------------------------------------------------------------------
\* ProcessAction, first part: the engine of the room, and the room itself.  If
\* one is missing, or GetRoom fails, the call returns and nothing has changed.
ProcessAction(p) ==
  /\ At(p, "idle")
  /\ mgrEngine # 0
  /\ room # "deleted"
  /\ local' = [local EXCEPT ![p].eng = mgrEngine]
  /\ Goto(p, "handleEvent")
  /\ UNCHANGED <<memory, redis, bounds>>

\* HandleEvent under Engine.mu: it refuses a request out of turn, and any
\* other for reasons of its own.  It does not look at GameOver, so a request
\* that comes late is accepted by a game that is over.
HandleEvent(p) ==
  LET e == local[p].eng
  IN  /\ At(p, "handleEvent")
      /\ \/ Return(p) /\ UNCHANGED <<memory, redis, bounds>>
         \/ /\ engines[e].at.seat = p
            /\ \E next \in Moves(e) \cup EndingCards(e) \cup LateRequests(e) :
                 SetPosition(e, next) /\ SaveState(next) /\ Turn(next.over)
            /\ Goto(p, "isGameOver")
            /\ UNCHANGED <<local, mgrEngine, mgrTimer, timers, room>>

-----------------------------------------------------------------------------
\* The runtime fires the timer of a game.
TimerFires(e) ==
  /\ timers[e].armed
  /\ timers' = [timers EXCEPT ![e] = Fired(@)]
  /\ UNCHANGED <<pc, local, mgrEngine, mgrTimer, engines, redis, bounds>>

\* Its callback takes TurnTimer.mu; if the timer runs, the callback goes on to
\* handleTimerExpired in its goroutine, for which slot s stands.
TimerCallback(e, g, s) ==
  /\ g \in timers[e].waiting
  /\ At(s, "idle")
  /\ timers' = [timers EXCEPT ![e] = Checked(@, g)]
  /\ IF timers[e].stopped
     THEN UNCHANGED <<pc, local>>
     ELSE Goto(s, "expired") /\ UNCHANGED local
  /\ UNCHANGED <<mgrEngine, mgrTimer, engines, redis, bounds>>

\* handleTimerExpired, first part: the engine of the room.
HandleTimerExpired(s) ==
  /\ At(s, "expired")
  /\ \/ mgrEngine = 0 /\ Return(s)
     \/ /\ mgrEngine # 0
        /\ local' = [local EXCEPT ![s].eng = mgrEngine]
        /\ Goto(s, "forceAction")
  /\ UNCHANGED <<memory, redis, bounds>>

\* ExecuteForceAction under Engine.mu, for whoever is in turn by now.  It does
\* nothing in a game that is over, and nothing for a player without a hand.
ForceAction(s) ==
  LET e == local[s].eng
      at == engines[e].at
  IN  /\ At(s, "forceAction")
      /\ \/ at.over /\ UNCHANGED <<engines, redis, bounds>>
         \/ /\ ~at.over /\ at.seat \in engines[e].lacks
            /\ Turn(FALSE)
            /\ UNCHANGED <<engines, redis, games, faults, crashes>>
         \/ /\ at.seat \notin engines[e].lacks
            /\ \E next \in Moves(e) : SetPosition(e, next) /\ SaveState(next) /\ Turn(next.over)
            /\ UNCHANGED room
      /\ Goto(s, "isGameOver")
      /\ UNCHANGED <<local, mgrEngine, mgrTimer, timers>>

-----------------------------------------------------------------------------
\* Mutant: a game that is over goes on being timed.
IsGameOverIgnored(t) ==
  /\ At(t, "isGameOver")
  /\ Goto(t, "getTimer")
  /\ UNCHANGED <<local, memory, redis, bounds>>

\* Mutant: a game that was removed meanwhile is not ended.
IsGameOverIfStillThere(t) ==
  LET e == local[t].eng
  IN  /\ At(t, "isGameOver")
      /\ \/ ~engines[e].at.over /\ Goto(t, "getTimer") /\ Drop(t)
         \/ engines[e].at.over /\ mgrEngine = e /\ Goto(t, "endGame") /\ UNCHANGED local
         \/ engines[e].at.over /\ mgrEngine # e /\ Return(t)
      /\ UNCHANGED <<memory, redis, bounds>>

\* IsGameOver, read after Engine.mu was released.
IsGameOver(t) ==
  /\ At(t, "isGameOver")
  /\ IF engines[local[t].eng].at.over THEN Goto(t, "endGame") /\ UNCHANGED local
                                      ELSE Goto(t, "getTimer") /\ Drop(t)
  /\ UNCHANGED <<memory, redis, bounds>>

\* Mutant: the timer is not looked up, and not reset.
GetTimerForgotten(t) ==
  /\ At(t, "getTimer")
  /\ Return(t)
  /\ UNCHANGED <<memory, redis, bounds>>

\* GetTimer: the timer the room has by now, or none.
GetTimer(t) ==
  /\ At(t, "getTimer")
  /\ \/ mgrTimer = 0 /\ Return(t)
     \/ /\ mgrTimer # 0
        /\ local' = [local EXCEPT ![t].tmr = mgrTimer]
        /\ Goto(t, "resetTimer")
  /\ UNCHANGED <<memory, redis, bounds>>

\* timer.Reset on the timer that GetTimer returned.
ResetTimer(t) ==
  /\ At(t, "resetTimer")
  /\ timers' = [timers EXCEPT ![local[t].tmr] = Started(@)]
  /\ Return(t)
  /\ UNCHANGED <<mgrEngine, mgrTimer, engines, redis, bounds>>

\* Engine.EndGame; then a timer callback reads the room, a player's thread has it.
EndGame(t) ==
  /\ At(t, "endGame")
  /\ engines' = [engines EXCEPT ![local[t].eng].announced = TRUE]
  /\ IF t \in Slots THEN Goto(t, "getRoom") /\ UNCHANGED local
                    ELSE Goto(t, "removeEngine") /\ Drop(t)
  /\ UNCHANGED <<mgrEngine, mgrTimer, timers, redis, bounds>>

\* Mutant: a room that does not say that a game is on is not cleaned up.
GetRoomIfPlaying(s) ==
  /\ At(s, "getRoom")
  /\ IF room = "playing"
     THEN Goto(s, "removeEngine") /\ Drop(s) /\ UNCHANGED engines
     ELSE Return(s) /\ engines' = [engines EXCEPT ![local[s].eng].stranded = (room = "deleted")]
  /\ UNCHANGED <<mgrEngine, mgrTimer, timers, redis, bounds>>

\* handleTimerExpired reads the room; without it, be it deleted or Redis out of
\* reach, there is no cleanup.
GetRoom(s) ==
  /\ At(s, "getRoom")
  /\ \E ok \in BOOLEAN :
       /\ Redis(ok)
       /\ IF ok /\ room # "deleted"
          THEN Goto(s, "removeEngine") /\ Drop(s) /\ UNCHANGED engines
          ELSE Return(s) /\ engines' = [engines EXCEPT ![local[s].eng].stranded = TRUE]
  /\ UNCHANGED <<mgrEngine, mgrTimer, timers, redis, turns>>

\* Mutant: the timer is removed and the engine forgotten about.
RemoveTimerOnly(t) ==
  /\ At(t, "removeEngine")
  /\ mgrTimer' = 0
  /\ timers' = [e \in Games |-> IF e = mgrTimer THEN Stopped(timers[e]) ELSE timers[e]]
  /\ Goto(t, "deleteState")
  /\ UNCHANGED <<mgrEngine, local, engines, redis, bounds>>

\* cleanupGame: RemoveEngine under Manager.mu, whichever game the room has ...
RemoveEngine(t) ==
  /\ At(t, "removeEngine")
  /\ mgrEngine' = 0
  /\ mgrTimer' = 0
  /\ timers' = [e \in Games |-> IF e = mgrTimer THEN Stopped(timers[e]) ELSE timers[e]]
  /\ Goto(t, "deleteState")
  /\ UNCHANGED <<local, engines, redis, bounds>>

\* ... then DeleteGameState, where a failure is only logged ...
DeleteGameState(t) ==
  /\ At(t, "deleteState")
  /\ \E ok \in BOOLEAN : Redis(ok) /\ saved' = IF ok THEN {} ELSE saved
  /\ Goto(t, "saveRoom")
  /\ UNCHANGED <<local, memory, room, turns>>

\* ... then the room without its game, the same; if it was deleted since it was
\* read, it is back.
SaveRoom(t) ==
  /\ At(t, "saveRoom")
  /\ \E ok \in BOOLEAN : Redis(ok) /\ room' = IF ok THEN "waiting" ELSE room
  /\ Return(t)
  /\ UNCHANGED <<memory, saved, turns>>

-----------------------------------------------------------------------------
\* StartGame of the service, by the host: the room must not have a game.
StartGame ==
  /\ At(Host, "idle")
  /\ room = "waiting"
  /\ games < MaxGames
  /\ games' = games + 1
  /\ local' = [local EXCEPT ![Host].eng = games + 1]
  /\ Goto(Host, "startEngine")
  /\ UNCHANGED <<memory, redis, turns, faults, crashes>>

\* StartGame of the engine: it takes up a saved state, in which any present player
\* but the host may have no hand, or deals a new one when there is none or it
\* cannot be read.
StartEngine ==
  /\ At(Host, "startEngine")
  /\ \E read, save \in BOOLEAN, lacks \in SUBSET (Players \ {Host}) :
       LET resumed == read /\ saved # {}
       IN  /\ Failures((IF read THEN 0 ELSE 1) + (IF save THEN 0 ELSE 1))
           /\ resumed \/ lacks = {}
           /\ \E at \in IF resumed THEN saved ELSE {Dealt} :
                /\ engines' = [engines EXCEPT ![local[Host].eng] =
                                 [NoEngine EXCEPT !.at = at, !.lacks = lacks,
                                                  !.wasOver = at.over]]
                /\ saved' = IF save THEN {at} ELSE saved
  /\ Goto(Host, "addEngine")
  /\ UNCHANGED <<local, mgrEngine, mgrTimer, timers, room, turns>>

\* AddEngine replaces whatever engine the room has.
AddEngine ==
  /\ At(Host, "addEngine")
  /\ mgrEngine' = local[Host].eng
  /\ Goto(Host, "setTimer")
  /\ UNCHANGED <<local, mgrTimer, engines, timers, redis, bounds>>

\* NewTurnTimer and SetTimer: the new timer takes the place of the old one,
\* which is stopped.
SetTimer ==
  /\ At(Host, "setTimer")
  /\ timers' = [e \in Games |-> IF e = mgrTimer THEN Stopped(timers[e]) ELSE timers[e]]
  /\ mgrTimer' = local[Host].eng
  /\ Goto(Host, "startTimer")
  /\ UNCHANGED <<local, mgrEngine, engines, redis, bounds>>

StartTimer ==
  /\ At(Host, "startTimer")
  /\ timers' = [timers EXCEPT ![local[Host].eng] = Started(@)]
  /\ Goto(Host, "saveStarted")
  /\ Drop(Host)
  /\ UNCHANGED <<mgrEngine, mgrTimer, engines, redis, bounds>>

\* The room is saved with IsGameStarted; if that fails, StartGame reports an
\* error and leaves engine and timer as they are.
SaveStarted ==
  /\ At(Host, "saveStarted")
  /\ \E ok \in BOOLEAN : Redis(ok) /\ room' = IF ok THEN "playing" ELSE room
  /\ Return(Host)
  /\ UNCHANGED <<memory, saved, turns>>

\* EndGame of the service: the host's room is cleaned up, game or no game.
HostEndsGame ==
  /\ At(Host, "idle")
  /\ room # "deleted"
  /\ Goto(Host, "removeEngine")
  /\ UNCHANGED <<local, memory, redis, bounds>>

\* The last player leaves and the room is deleted; its engine and its timer stay
\* as they are.
LastLeaves(p) ==
  /\ At(p, "idle")
  /\ room # "deleted"
  /\ room' = "deleted"
  /\ UNCHANGED <<pc, local, memory, saved, bounds>>

\* The process crashes and is started again: Redis keeps what it has.
Crash ==
  /\ crashes < MaxCrashes
  /\ crashes' = crashes + 1
  /\ pc' = [t \in Threads |-> "idle"]
  /\ local' = [t \in Threads |-> NoLocals]
  /\ mgrEngine' = 0 /\ mgrTimer' = 0
  /\ engines' = [e \in Games |-> NoEngine]
  /\ timers' = [e \in Games |-> NewTimer]
  /\ UNCHANGED <<redis, games, turns, faults>>

-----------------------------------------------------------------------------
\* What a thread does once a handler has begun; it never waits for a request.
Proceed(t) ==
  \/ t \in Players /\ HandleEvent(t)
  \/ t \in Slots /\ (HandleTimerExpired(t) \/ ForceAction(t) \/ GetRoom(t))
  \/ IsGameOver(t) \/ GetTimer(t) \/ ResetTimer(t) \/ EndGame(t)
  \/ RemoveEngine(t) \/ DeleteGameState(t) \/ SaveRoom(t)
  \/ t = Host /\ (StartEngine \/ AddEngine \/ SetTimer \/ StartTimer \/ SaveStarted)

Callback(e) == \E g \in timers[e].waiting, s \in Slots : TimerCallback(e, g, s)

Next ==
  \/ \E t \in Threads : Proceed(t)
  \/ \E p \in Players : ProcessAction(p) \/ LastLeaves(p)
  \/ \E e \in Games : TimerFires(e) \/ Callback(e)
  \/ StartGame \/ HostEndsGame \/ Crash

Spec == Init /\ [][Next]_vars

\* A goroutine that runs goes on, an armed timer fires, and a fired callback
\* gets the mutex.  Nothing is assumed of players, host, Redis and crashes.
FairSpec ==
  /\ Spec
  /\ \A t \in Threads : WF_vars(Proceed(t))
  /\ \A e \in Games : WF_vars(TimerFires(e)) /\ WF_vars(Callback(e))

-----------------------------------------------------------------------------
Steps == { "idle", "handleEvent", "expired", "forceAction", "isGameOver",
           "getTimer", "resetTimer", "endGame", "getRoom", "removeEngine",
           "deleteState", "saveRoom", "startEngine", "addEngine", "setTimer",
           "startTimer", "saveStarted" }

TypeOK ==
  /\ pc \in [Threads -> Steps]
  /\ local \in [Threads -> [eng : 0 .. MaxGames, tmr : 0 .. MaxGames]]
  /\ mgrEngine \in 0 .. MaxGames /\ mgrTimer \in 0 .. MaxGames
  /\ engines \in [Games -> Engine]
  /\ \A e \in Games : T(e)!TypeOK
  /\ room \in {"waiting", "playing", "deleted"}
  /\ saved \subseteq Position /\ Cardinality(saved) <= 1
  /\ games \in 0 .. MaxGames /\ turns \in 0 .. MaxTurns
  /\ faults \in 0 .. MaxFaults /\ crashes \in 0 .. MaxCrashes

\* The room's timer will expire before long: it runs and its expiry is on the
\* way, or a thread that stopped it or put it there has yet to start it again.
ClockIsOn ==
  \/ mgrTimer # 0 /\ ~timers[mgrTimer].stopped /\ T(mgrTimer)!RunningWillExpire
  \/ pc[Host] \in {"setTimer", "startTimer"}
  \/ \E t \in Threads :
       \/ pc[t] \in {"expired", "getTimer"}
       \/ pc[t] \in {"forceAction", "isGameOver"} /\ local[t].eng = mgrEngine
       \/ pc[t] = "resetTimer" /\ local[t].tmr = mgrTimer

\* Whatever resets, stale callbacks, expiries, cleanups, starts, failures and
\* crashes overlap, a game that the room has and that is not over never loses
\* its clock for good: a silent player cannot stop it, and a callback that comes
\* late leaves no timer that runs and never expires (game_service.go:99-103,
\* 198-205, 314-321; timer.go:30-39).
RunningGameHasClock ==
  mgrEngine # 0 /\ ~engines[mgrEngine].at.over => ClockIsOn

\* A game that is over leaves the room, unless an expiry that ended it found the
\* room's record deleted or out of reach: a thread that will remove it is on its
\* way, or the clock is on, whose expiry sees that the game is over.  So it is
\* also for a game that was over in the saved state it was taken up from
\* (game_service.go:191-196, 297-312).
FinishedGameLeaves ==
  mgrEngine # 0 /\ engines[mgrEngine].at.over /\ ~engines[mgrEngine].stranded
    => \/ ClockIsOn
       \/ \E t \in Threads :
            \/ pc[t] \in {"isGameOver", "endGame", "getRoom"} /\ local[t].eng = mgrEngine
            \/ pc[t] = "removeEngine"

\* A game that came to its end is announced, or a thread that saw it is about to
\* announce it, also when the host removed the game or started the next one
\* meanwhile.  A game that was over when it was taken up may never be: the host
\* can remove it before any handler looks (game_service.go:193, 304).
EndIsAnnounced ==
  \A e \in Games :
    engines[e].at.over /\ ~engines[e].wasOver /\ ~engines[e].announced
      => \E t \in Threads : pc[t] \in {"isGameOver", "endGame"} /\ local[t].eng = e

\* Whether or not its players and its host do anything, a game in the room's
\* engine slot leaves it, but for two cases: an expiry ended it and found no room
\* to clean up, or its player in turn has joined since it was saved and has no
\* hand to move from (game_service.go:302-312; hanabi/engine.go:336).
GameIsRemoved ==
  \A e \in Games :
    (mgrEngine = e) ~> \/ mgrEngine # e
                       \/ engines[e].stranded
                       \/ ~engines[e].at.over /\ engines[e].at.seat \in engines[e].lacks
=============================================================================
