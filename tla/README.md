# A TLA+ model of the board-game server

The server (Go) keeps accounts in a database, runs rooms over WebSocket
connections, keeps rooms, sessions and games in Redis, carries chat over
Pub/Sub, and plays Hanabi: an engine per game, a turn timer per game, and a
service that connects requests, timer expiries, engine and Redis.  A second
game, TilePush, and AI players are written but not wired in yet.  These modules
model that program, TLC checks them on small instances, and TLAPS proves their
main invariants for every size.  Paths below are relative to the repository.

## 1. The system

| Component | State | Operations | What is hard | Module |
|---|---|---|---|---|
| Hanabi engine (`internal/game/hanabi/engine.go`, `state.go`) | deck, hands, fireworks, pile, tokens, what hints told, turn, last player, GameOver, result; one mutex | StartGame, HandleEvent (hint, play, discard), ExecuteForceAction, EndGame | end of the game, last round, requests after the end, resume without a deck | Hanabi, HanabiResume |
| Strategy (`internal/game/hanabi/strategy.go`) | none | choose, from a view of the table | never to be refused, to know no more than it may | HanabiStrategy |
| Turn timer (`internal/game/timer.go`) | `stopped`, the runtime timer; one mutex | Start/Reset, Stop, callback | callbacks that fired before a Reset | TurnTimer |
| Manager (`internal/game/manager.go`) | engine and timer per room; one RW mutex | Add/Get/RemoveEngine, Set/GetTimer | handlers that keep what they got | GameSession |
| Game service (`internal/service/game_service.go`) | none of its own | StartGame, ProcessAction, handleTimerExpired, EndGame, cleanupGame | every operation is several critical sections and Redis calls | GameSession, Lobby |
| Game state store (`internal/game/state_manager.go`) | JSON of a game in Redis | save, get, delete | saves after a delete, failures | GameSession, HanabiResume, TilePush |
| Rooms (`internal/domain/room/room.go`, `internal/service/room_service.go`) | room record in Redis, index of members | create, join, leave, update, kick, ready | unlocked read-modify-write of whole records | Lobby |
| Sessions (`internal/user/session.go`, `server/ws/websocket.go`, `events_user.go`) | live-session map, session record | identify, update, reconnect, disconnect, expiry of the record | old connection against new | Lobby |
| Broadcaster, chat (`server/ws/broadcaster.go`, `events_chat.go`, `internal/domain/chat`) | members' index, Pub/Sub, history | send, publish, listen, sweep | order; delivery to who is a member by then; a Conn that goes away under the listener | RoomChat |
| AI manager (`internal/ai`) | pending turns | schedule, cancel, shut down, callback | a cancelled callback against its successor | AIManager |
| Tilepush (`internal/game/tilepush`) | board, deck, pile, turn | push, skip, save, resume | the end of the deck, refusals after the draw | TilePush |
| Login, accounts (`internal/auth`, `internal/user`, `server/http`) | user rows, token blacklist | sign up, log in and out, update | check and act apart; whole rows saved | Accounts |

How they interact: a connection's loop (`server/ws/websocket.go:80-108`) calls
the service for one message at a time; the service gets the engine from the
manager, calls it under the engine's mutex, and then, with no lock held, looks
whether the game is over, ends it and cleans up, or gets the timer and resets
it.  A timer's callback runs in a goroutine of its own and does the same with
ExecuteForceAction.  The engine saves its state to Redis at the end of every
accepted request.  Room handlers read a record from Redis, change the copy and
save it whole, and then update the members' index and the sessions, one Redis
call after the other.  One goroutine takes broadcasts from Pub/Sub, looks the
members up in the index and writes to those whose session is live.  So several
goroutines may be anywhere inside these handlers at once, for the same room,
and across the end of one game and the start of the next.  `PROJECT.json` lists
the hazards of this code at their lines.

What makes each component correct, in short: the engine conserves its cards,
ends for a reason of the rules and does end, also when it is resumed; a decision of the strategy is
always accepted; a running timer has its expiry coming, and one that was reset
does not expire for the start before; the service never leaves a running game
without a clock, announces its end and lets it go; a room's record never contradicts itself, and, while handlers do not
overlap, record, index, session and live object agree; messages are shown in
one order and stay in the history; tiles, like cards, are conserved; a
logged-out token stays logged out, and nothing but a request for it changes a
password, or a save of an older copy of the row.

## 2. The modules

**Hanabi** models `Engine`.  Every operation holds the engine's mutex from
start to end, so it is one action: `GiveColorHint`, `GiveNumberHint`,
`PlayCard` and `DiscardCard` are HandleEvent with the handler and handleEndTurn
inside, `ForceAction` is ExecuteForceAction, `EndGame` is EndGame.  A refused
request changes nothing and is no step.  `HandleEvent` does not look at
GameOver, so the player requests have no guard on `gameOver` either: they stand
also for requests that got the engine before the game was removed.  Cards are
records (colour, number, copy), the deck is the set of what is left (nobody
looks into it before drawing), a hand is a set; `colorKnown` and `numberKnown`
are the cards whose face a hint has told.  Texts and the broadcast are left out.

**HanabiFinalRound** adds a history variable: the seats that moved since the
deck ran out.  **HanabiResume** adds Redis: the saved state (`Image`, all but
the deck), the save at the end of every request, which may fail, and StartGame
of a room that has a saved state, by the players the room has by then.  Hands
are saved under players and not seats, so the module has who sits where
(`players`) and the hands of those who are away, to which a hint may still be
given (`HintAway`).  It has one engine at a time;
GameSession has the paths on which a saved state survives its game, a state that
cannot be read, and two engines that overlap.  **HanabiStrategy** is `GetPlayerView` and the decision as
operators on the table: since hands are sets, "the first card such that" is any
such card and `Decide` returns the set of possible decisions.  No handler calls
the strategy yet, so it is asked at every reachable table.

**TurnTimer** models one timer.  A generation counts the calls of Start; a
callback that fired waits for the mutex under its generation while anything
else happens.  Durations are left out: an armed timer may fire at any time.

**GameSession** composes service, manager, timers (their operations by
`INSTANCE TurnTimer`), Redis and the engine for one room.  The threads are the
players' connection loops and `Slots` for timer goroutines; `pc` names the next
critical section or Redis call of each, `local` what it holds from earlier ones
(engine, timer).  The host's `StartGame` is six steps, the cleanup three.  The
engine is reduced to its turn counter, GameOver, and who of the players has no
hand in it because the state that it took up was saved before they joined; what
it may do in a turn is any move or ending, as Hanabi allows, and for a player
without a hand an expiry does nothing.  History variables in it say whether it
was over when it was taken up, whether its end was announced, and whether an
expiry that ended it found no room to clean up (`stranded`).  The room's record
may be deleted under the game (`LastLeaves`), and the save of a late cleanup
brings it back.  A Redis call may fail (`MaxFaults`), the process may crash and
restart (`MaxCrashes`), which clears everything but Redis.  The host is fixed,
the mode is Hanabi, players who leave before the last one count as silent, and
reads of the room by a request that then does nothing are no steps.

**Lobby** models rooms, sessions and connections together.  A handler is its
first read, an action of its own that decides everything from the copy, and the
calls it has still to make, which wait in `todo` of its goroutine; `Step` makes
the next one.  So handlers of several connections, a timer's cleanup, a
disconnect and a crash interleave at every Redis call.  A connection can end in
two ways: `Disconnect` is the loop's failing read, `AskToDisconnect` the client's
`user.disconnect`, after which the loop goes on and the next message stores the
object again.  `SessionExpires` is the record's time to live, `HandleUserUpdate`
a status that the client sets, `UpdateRoom` changes size and mode.  A game is
only whether the manager has an engine.  The list of players is a set, so a new
host is any player that stays; a mode is Hanabi or one that the game service does
not know.

**RoomChat** models chat and broadcaster for one room, over members that join,
leave, drop out and come back.  A message is its number in the order of
timestamps; MongoDB keeps milliseconds, so equal times come back in any order.
The listener's work on a member is the look-up of its Session object, the check
of the object's Conn, and the write, or the removal from the index: each a step,
between which members leave, come back with a new object, or have the Conn of the
old one set to nil, so that the write panics and the process is `down`.  A user
has one connection at a time, and so one handler.

**TilePush** models the second engine with counts per shape in place of
shuffled lists, the squares of the board as a function, the saved state, failing
saves and restarts, and the caller's question whether the game is over, which ends
it.  **AIManager** numbers scheduled turns and follows each from
its armed timer to the executor.  **Accounts** models requests as goroutines
whose steps are their calls to the database and Redis, with a clock for the
tokens' expiry.

**HanabiProofs** (engine, strategy and resume), **TurnTimerProofs**,
**GameSessionProofs**, **LobbyProofs**, **RoomChatProofs**,
**TilePushProofs**, **AIManagerProofs** and **AccountsProofs** hold the theorems.
**MCHanabi**, **MCHanabiFinalRound**, **MCHanabiResume** and **MCLobby** give TLC a small deck and
the symmetry sets.  Definitions with a comment "Mutant:" are broken versions of
the definition after them; no specification uses them, they show that a
property can fail.

## 3. What TLC checks

| Run | Bounds | Shows |
|---|---|---|
| `hanabi_safety` | 3 players, hands of 1, 2 colours of 1,1,2, 2 hints, 2 misses | a card is in one place; the fireworks account for the missing cards; running hands are full; the game is over exactly for a reason; the recorded reason stays true; the strategy's decisions are accepted, use only the player's view and miss only when forced; each step uses up budget; every game ends |
| `hanabi_resume` | 2 players and a newcomer, hands of 1, 1 colour of 1,1,2,2,3, 1 hint, 2 misses, 2 resumes, a failing save | after a resume on any seats a card is in one place, away hands included; all but newcomers have full hands; without a failed save nothing but the deck is lost; the next card ends a resumed game; it ends if nobody is new |
| `session_safety` | 2 games of the room, 1 turn that leaves a game running, 2 players, 1 timer goroutine, a failing Redis call | a running game has a clock; a finished one is on its way out unless an expiry found no room; a game's end is announced; a timer is restarted no more often than turns allow |
| `session_live` | 1 game, 1 turn that leaves it running, 2 players, 2 timer goroutines, a failing Redis call, a crash | silent players cannot keep a game, but for two cases that the property names; a running game has a clock also with two expiries in flight |
| `lobby` | 2 users, 2 connections made 3 times, 1 room of 2 players, 7 requests, expiries and crashes (5 in a behaviour with overlap), of them 1 crash; users and connections symmetric | no saved record ever contradicts itself; while handlers do not overlap, records, index, sessions, live objects and games agree |
| `chat` | 2 users, 2 messages, histories of 1 and 2, 2 milliseconds, a failing call, 2 moves | what was shown stays in the history; all clients see one order; a member is told, but for three ways out that the property names |
| `ai` | 2 rooms, 4 turns | an entry is the newest turn, still to come; a cancel stops all but turns that had fired and turns that the manager had lost sight of; every turn is answered |
| `tilepush` | 2 shapes of 3 copies, a board of 3 by 2, 2 players, 2 restarts, a failing save | tiles are conserved; the end of the deck is noticed; the saved state lags only by refused requests; a final board stays |
| `accounts` | 1 user, 2 passwords, 2 nicknames, 2 requests at once, 2 logins, a token valid for 2 of 4 seconds | one account per address; a logged-out token stays out; passwords change on request |

The Hanabi deck runs out, fireworks complete, misses run out, hint tokens are full
and empty, and late requests follow each kind of end; hints and misses differ only
in number from 8 and 3.  A resumed game is from the state before or after the lost
save, running or over, and is itself resumed again.

In a session two games are enough because a stale handler can meet only the next
game's objects; the second game follows the cleanup of the first, is started over
it when the save of the room failed, or takes up its state, over or not.
`MaxTurns` bounds, over all games together, the turns that leave a game running:
one of them makes a restart of the timer next to a start, an end and a cleanup.
Turns that end a game are not bounded, nor are requests that come late.  Two games
with two timer goroutines and a crash are beyond TLC; the theorems have no bound.

In the lobby a create, a join, two that set ready, a start and two more are seven
requests, so that two things can happen in or after a game when handlers do not
overlap; a behaviour in which they do ends after five.  Rooms are of two places, so
TLC sees changes of the mode but no other size; a user in two rooms at once
is outside the run as well.  The proofs cover any sizes and number of rooms.
`lobby_reconnect` needs five requests and no overlap.

In chat two messages overflow a history of one, two milliseconds give both equal
and different times, and two moves are a loss and a return, under the listener's
hands; a leave and a join; or a `user.disconnect` during a write.  Four AI turns
are enough for a callback, its successor and a third that was scheduled meanwhile,
next to another room.  On the tilepush board a column fills, pushes a tile out and
has gaps.  Two requests at once are a profile update against a password change or
a login, and two logins within a second give one token, in different seconds two.

Three runs find what the documents rule out (the findings of `PROJECT.json`
quote the lines):

- `hanabi_final_round`: the game ends with the first play or discard on an empty
  deck, not after a last turn of every player (`engine.go:314`).
- `lobby_reconnect`: a player of a running game that identifies before the
  server noticed the loss of its old connection gets a fresh session without a
  room (`events_user.go:25`).
- `timer_stale`: a callback that waits for the mutex over a Reset finds the flag
  cleared again and expires the new turn at once (`timer.go:31`), where
  `docs/turn_timer.md` and `docs/game_event_flow.md` say that it returns.

Other disagreements between the code and its documents or comments.  The models
have this behaviour, and no run reports it; where a passing property would forbid
it, the property's comment names it as an exception:

- A lost game's `FinalScore` is the height of its fireworks (`engine.go:76`);
  `docs/game_rule/hanabi.md:55` counts it zero.  `GameEnds` claims no score of a
  game lost by misses.
- Nothing ends a game whose players leave: it goes on below its minimum of
  players and after the room's record is deleted, and once an expiry has ended it
  there, its engine stays for good (`game_service.go:307`).
  `docs/game_event_flow.md:48` ends such a game.  `FinishedGameLeaves` and
  `GameIsRemoved` except a game that was ended by an expiry that found no room.
- `CancelRoom` and `Shutdown` are to cancel all pending timers, by their comments
  (`ai/manager.go:66`, `78`) and by `TestShutdown_CancelsAllTimers`.  A turn
  scheduled while an older callback of its room waits for the mutex loses its
  entry to that callback and is cancelled by neither.  `CancelStopsTheRest`
  excepts such turns (`overlapped`).
- A member that reconnected is put back into the index so that the broadcaster
  finds it (comment at `events_user.go:42`); the listener, which did not find it a
  moment before, may take it out afterwards (`broadcaster.go:118`).
  `MembersAreTold` excepts that member and the messages that wait then (`lost`).

Faults of the code that no document speaks of: the listener panics, and the process
with it, when `HandleUserDisconnect` sets a Conn to nil between the listener's
check and its write (`events_user.go:166`), after which `MembersAreTold` claims
nothing (`down`); a player who joined between save and resume has no hand, so no
timeout moves for it and the game is kept as long as it is silent
(`hanabi/engine.go:336`), which `GameIsRemoved` excepts and `ResumedGameEnds`
assumes away; an object that `user.disconnect` dropped during a game is stored
again by the next message, with a room that a kick or an expiry may have taken from
its session meanwhile, which `SessionsAgree` excepts (`Stale`); a resumed game
ends as `deck_exhausted` with cards that nobody took, which is
`NextCardEndsResumed` (`state.go:23`); a late request still builds a firework
after the last miss (`engine.go:118`); a Reset after RemoveEngine restarts a
timer that nobody holds (`game_service.go:200`); a save by a request in flight
after the cleanup makes the next start resume the ended game (`engine.go:126`),
whose end is announced only if a handler looks before the host removes it, so
`EndIsAnnounced` is about games that were not over when they were taken up; the
second cleanup of one end removes the next game (`game_service.go:275`); two
handlers that see the same end both broadcast `game.end`
(`game_service.go:191-193`); a cleanup's save brings a deleted room back
(`game_service.go:281`).

**Fairness.** `Hanabi!FairSpec` and
`HanabiResume!ResumeFairSpec`: the forced action (the timer always runs,
which is `RunningGameHasClock`) and the caller's EndGame; nothing of players.
`TurnTimer!FairSpec`: the runtime fires an armed timer, and a waiting goroutine
gets the mutex, which nobody holds for long.  `GameSession!FairSpec`: those two,
and a handler that has begun goes on; nothing of players, host, Redis or
crashes.  `Proceed` is fair as a whole because a goroutine has one next step.
`AIManager!FairSpec`: the same for its timers and goroutines, each turn its own.
`RoomChat!FairSpec`: the listener, a loop for the life of the server whose writes
return, and a handler that has begun.  Lobby, TilePush and Accounts promise
nothing that needs time to pass, and state no fairness.

Deadlock is checked in every run but those of MCLobby and RoomChat, where the
bounds on requests, connections and messages end a behaviour and nobody has to
send; of GameSession, where a deleted room in which no game runs
really is the end;
and of MCHanabiResume, where a newcomer without a card and a hint to give
really has no move.  Elsewhere a timer can always be stopped, a game
that is over can be ended again, and a tilepush turn can always be skipped.

## 4. What is proved

**Hanabi**, for every number of players, colours, numbers, copies, tokens and
hand size that satisfies the ASSUMEs (a full deal leaves cards; the perfect
score is that of complete fireworks):

- `TypeCorrect`, first and alone;
- `OneHolder`: with the type, inductive as it stands;
- `FireworksAccount`: inductive given that cards have one holder, since a play
  or a miss takes the card out of exactly one hand;
- `LastPlayerOver`, and `HandsFull` through the strengthening `FullUntilLast`:
  a hand is full as long as nobody is the last player, whether or not the game
  is over, because only the draw that sets `lastPlayer` leaves one short;
- `OverForAReason`, which needs `LastPlayerOver`;
- `EndReasonStaysTrue`: each reason is a condition that no later request undoes;
- `RequestsUse`: a hint costs a token; a play or a discard takes one card from
  deck and hands, since cards have one holder, and returns one token at most.

**HanabiStrategy**, at every table of the same games:

- `AIDecidesFromItsView`: two tables that look alike to a player give it the
  same view, and each part of the decision reads the view only;
- `AIIsNeverRefused`: full hands leave a card to discard or play, and a hint that
  the strategy chooses is for another seat, has a token and names a card there;
- `AIMissesOnlyWhenForced`: the cases of the decision in their order.

**HanabiResume**, also for every number of newcomers, resumes and failing saves:
`ResumeTypeCorrect`, `NextCardEnds`, `OnlyDeckIsLost`, `ResumedCards`,
`ResumedHands` and `ResumedOverForAReason`.  A step of the running game keeps what is
shown of the engine, by the same lemmas; each invariant says in addition the same of
what is saved, where it must not speak of the deck: that a last player is set
only in a game that is over (`EmptyDeckInv`) replaces, in a saved state, that
its deck ran out (`ReasonIn`).  Hands of people who are away are apart from all
on the table (`AwayApart`), since they may come back with them.  That hands are
full is inductive by person and not by seat, for those away and what is saved as
well (`FullInv`).

**TurnTimer**, for every bound on the starts: `TypeCorrect` and
`RunningTimerWillExpire`, the reason why a stale callback can expire a timer early
but never leave one that runs and will not expire.

**GameSession**, for every number of players, games, turns, timer goroutines,
failing calls and crashes: `RunningHasClock`, `FinishedLeaves`, `EndAnnounced`
and `TypeCorrect`.  The invariant `IInv` is

- `Attended`, from which the first two follow: the room's timer runs, or the host
  is about to set or start it, or a goroutine watches (`Watches`), which will
  restart the timer, see that the game is over, or has seen it and removes it; or
  an expiry ended the game and found no room.  A goroutine hands the duty on from
  `expired` over `forceAction`, `isGameOver` and `getTimer` to `resetTimer`, each
  time for the engine or timer that the room has by then;
- what is special about the start of a game (`StartsNewest`, `StartsTimer`): an
  engine without a timer exists only between the host's AddEngine and SetTimer,
  which is why `getTimer` may give up when it finds none; the timer that the host
  is about to start is the room's, unless a cleanup took it; and the engine that
  is being dealt is not in the room yet, so dealing it cannot bring a finished
  game back to life;
- `EndIsAnnounced`, inductive as it stands: only a goroutine that goes on to
  `isGameOver` ends a game;
- the types and `HoldsObjects`: who has got so far holds the objects it works on.

`TypeCorrect` is more than shapes: `TypeOK` bounds the starts of a timer by the
turns, which no single step shows, since a late goroutine may restart the timer of
another game than the one it moved in.  The invariant is an account
(`StartsPaid`): the starts of a timer and the goroutines that are still to restart
one (`Restarters`) are together no more than the turns played in all games and one
first start.  A turn that does not end its game pays for one restart, that of the
goroutine that played it; the host's start of a game is free for the new timer
only.  The timeout of a player without a hand moves nothing but restarts the timer
all the same, and counts as a turn there.

**Lobby**, for every number of users, connections, rooms, events and crashes,
given that "no session" is told from a session (`SessionAssumption`: Redis
answers with nil).

`TypeCorrect` and `SoundRecords`: a record that is saved was computed by a
handler some time ago, so the invariant says of every call that waits in `todo`
that the record it carries is sound; then neither overlap nor a crash between
two calls matters, and what is left is that each handler makes a sound record
from a sound one (a join looks at the capacity of the copy it changes, a leave
picks a new host of those who stay, and so on).

`SerialHandlersAgree` and `SerialGamesAgree` are about handlers that do not
overlap, between whose calls everything may contradict everything.  The
invariant (`SInv`) does not describe those moments but where they lead: while
nothing has overlapped or crashed, at most one goroutine has calls to make
(`Alone`), and there is a state `v` with two properties.  In `v` the places agree
(`Agree`), which is more than the two theorems claim: also every open connection
is its user's only one and owns the live entry, if there is one (`LoopsOwn`), and
rooms not yet created are empty.  And the calls that
wait lead to `v` (`Leads`): each writes the value that `v` has (`Keeps`), and
whatever differs from `v` now is written by one of them (`Reached`).  A handler's
first action gives `v`, a call keeps it, and when no call waits the present state
is `v`.  After `user.disconnect` the object of an open connection is in no entry, and a game may
have left it its room: what agrees is then only what the entries and the saved
sessions say, and the next message of that connection, which makes its object the
entry, keeps `Agree` because the object names the room of the saved session or the
behaviour is set aside (`Stale`).  A session that expires takes nothing
from `Agree`, which asks nothing of a user without one.  Calls that read before they write (a kick's move of the target, the room
of a leaver) wait alone, so that nothing they read is still to be written, and
the few others whose order matters are in it, which is `Ordered`.

**RoomChat**, for every number of users, messages, moves, failures and length of
the history:

- `OneOrder`: a message passes four places, its sender's handler, the channel,
  the listener and the inboxes, and messages of one sender are in order from each
  place to the next (`PlacesInOrder`, `NextIsAfter`); whom the listener has still to
  serve is told by `ToServe`, and who was served is not served again and has that message last (`ServedOnce`), so two clients that have
  two messages got them in one order, however the members change meanwhile;
- `ShownStays`: a message is saved before it is published (`SavedFirst`), and a
  full history leaves out no message that is younger than one it holds, in
  whatever order MongoDB returns equal times, whatever the limit of the request.

**TilePush**, for every board, tile set and number of players: `TypeCorrect`,
`TilesConserved`, `EndOfDeckNoticed`, `SavedLags` and `FinalBoard`.  The
invariants are inductive together; the work is the shift of a column with gaps,
whose counts are compared by a bijection between the squares that hold a shape
before and after.

**AIManager**, for every set of rooms and number of turns: `TypeCorrect`,
`EntryStillToCome` and `CancelStops`.  A turn that is still to come when its room
is cancelled is stopped, has fired (`late`), or was scheduled over an older callback
(`overlapped`).  The strengthening `EntryOverOlderIsOverlapped` says that an entry
that was made over an older callback on its way is known to be: when that callback
deletes it, the turn that escapes is one of those.

**Accounts**, for every set of users and requests: `OneAccount`, `LoggedOutOut`
and `PasswordsOnRequest`.  The invariant says what a request has made sure of at
each step: whoever has a token has a row, and rows do not go away; a time to
live was counted before Redis counts it, so the key outlives the token
(`LivesLongEnough`, `KeyOutlivesToken`); a copy that is about to be saved has
the stored password or is known to be older.

The types of Hanabi, TurnTimer, Lobby, TilePush, AIManager and HanabiResume are proved
(`TypeCorrect`, `ResumeTypeCorrect`) and no run repeats them; that of RoomChat is
part of its invariant.

Every invariant and action property of the passing runs is proved.  What needs
time to pass is only model-checked (`GameEnds`, `ResumedGameEnds`, `GameIsRemoved`,
`TurnsAreAnswered`, `MembersAreTold`), since
the prover does not reason about fairness.

## 5. Not modelled

The components with status `not_modelled` in `PROJECT.json`: messages and their
protocol (shapes and texts without control) and utilities (hashes, strings).
Within the others: `GetTurnsRemaining` and `Remaining` (they only read), the
messages' texts, `GetGameInfo` and `GetGameState` (a read without the engine's
mutex, whose outcome is any mixture of two states), room names and
passwords, a second identify on one connection, two connections of one user in chat, the ping loop, failing reads in
the lobby, a Hanabi game resumed by fewer or more players than it was dealt to
(the number is a constant of the engine's modules), a game in GameSession after some
but not all of its players have left (they are silent there), tilepush's racks, targets and
winner (no operation writes or asks them), signatures and hashes, and the
server's configuration, logging and start.

## 6. Plan

Done: all modules above.  Next:

- **CardTable**, an abstract specification of a table of cards with an end, and
  Hanabi shown to implement it; its proof.
