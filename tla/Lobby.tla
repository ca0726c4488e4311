-------------------------------- MODULE Lobby --------------------------------
(***************************************************************************)
(* Rooms, sessions and connections: internal/service/room_service.go,      *)
(* internal/domain/room/room.go, internal/user/session.go and              *)
(* server/ws/websocket.go, events_user.go, events_room.go, events_game.go. *)
(*                                                                         *)
(* A handler reads what it needs, decides, and then makes one call after   *)
(* the other to Redis, to the map of live sessions or to the manager of    *)
(* games.  No lock spans two calls.  So a handler is its first read, which *)
(* is an action of its own, and the calls it has still to make, which are  *)
(* in `todo' of its goroutine; Step makes the next one.  What a handler    *)
(* writes is what it computed from the copy it read.                       *)
(*                                                                         *)
(* Abstracted: the list of players is a set, so the new host of a room is  *)
(* any player that stays; names, passwords (which room.go:19 keeps out of  *)
(* the saved record, so that no join is refused for one), times and        *)
(* broadcasts (module RoomChat) are left out; a mode is Hanabi, which the  *)
(* game service supports, or one that it does not; a status is what        *)
(* HandleUserIdentify asks for, or not; a game is whether the manager has  *)
(* an engine (module GameSession).  Users act once they have identified,   *)
(* and identify once per connection.                                       *)
(***************************************************************************)
EXTENDS Integers, Sequences, FiniteSets

CONSTANTS
  Users,
  Conns,          \* connections; one that is over may be used again
  Rooms,          \* ids of rooms; each is given once
  Sizes,          \* the values of maxPlayers that clients ask for
  Timer,          \* the goroutine of a turn timer's callback
  NoUser, NoConn, NoRoom, NoRecord, NoSession,
  MaxEvents,      \* bounds the requests, expiries and crashes
  MaxOverlapped,  \* bounds them in a behaviour in which handlers overlap
  MaxLogins,      \* bounds the connections made
  MaxCrashes

ASSUME SizesAssumption  == Sizes \subseteq 2 .. 6
ASSUME UsersAssumption  == IsFiniteSet(Users) /\ NoUser \notin Users
ASSUME ConnsAssumption  == Timer \notin Conns /\ NoConn \notin Conns
ASSUME RoomsAssumption  == NoRoom \notin Rooms
ASSUME BoundsAssumption == {MaxEvents, MaxOverlapped, MaxLogins, MaxCrashes} \subseteq Nat

Threads == Conns \cup {Timer}

Modes    == {"hanabi", "other"}
Statuses == {"connected", "disconnected"}

Record == [host : Users, players : SUBSET Users, ready : SUBSET Users,
           max : Sizes, mode : Modes, started : BOOLEAN]
Session == [room : Rooms \cup {NoRoom}, status : Statuses]

\* No session and one of the sessions are told apart (Redis answers with nil).
ASSUME SessionAssumption == NoSession \notin Session

VARIABLES
  rooms,      \* Redis: the saved room records
  index,      \* Redis: room_sessions, the members the broadcaster looks up
  sess,       \* Redis: the saved sessions
  live,       \* activeSessions: whose Session object a user's entry holds
  mem,        \* the Session object of each connection
  open,       \* whether the connection's loop is running
  engines,    \* rooms for which the manager has an engine
  todo,       \* the calls each goroutine has still to make
  created,    \* ids of rooms that were given
  events, crashes, logins,
  raced,      \* history: two handlers ran at once
  doubled     \* history: a user identified while another of its connections
              \*   was open, or after a crash, or used a stale object

redis   == <<rooms, index, sess>>
memory  == <<live, mem, open, engines>>
counts  == <<created, events, crashes, logins>>
history == <<raced, doubled>>
vars    == <<redis, memory, todo, counts, history>>

Fresh == [user |-> NoUser, room |-> NoRoom, status |-> "connected"]

Init ==
  /\ rooms = [r \in Rooms |-> NoRecord]
  /\ index = [r \in Rooms |-> {}]
  /\ sess = [u \in Users |-> NoSession]
  /\ live = [u \in Users |-> NoConn]
  /\ mem = [c \in Conns |-> Fresh]
  /\ open = [c \in Conns |-> FALSE]
  /\ engines = {}
  /\ todo = [t \in Threads |-> <<>>]
  /\ created = {} /\ events = 0 /\ crashes = 0 /\ logins = 0
  /\ raced = FALSE /\ doubled = FALSE

-----------------------------------------------------------------------------
(* The calls of handlers. *)

SaveRoom(r, rec)       == [call |-> "saveRoom", room |-> r, rec |-> rec]
DeleteRoom(r)          == [call |-> "deleteRoom", room |-> r]
AddIndex(r, u)         == [call |-> "addIndex", room |-> r, user |-> u]
RemoveIndex(r, u)      == [call |-> "removeIndex", room |-> r, user |-> u]
DeleteIndex(r)         == [call |-> "deleteIndex", room |-> r]
SessionRoom(u, r)      == [call |-> "sessionRoom", user |-> u, room |-> r]
SessionMove(u, r)      == [call |-> "sessionMove", user |-> u, room |-> r]
SaveSession(u, s)      == [call |-> "saveSession", user |-> u, rec |-> s]
SaveObject(c)          == [call |-> "saveObject", conn |-> c]
DeleteSession(u)       == [call |-> "deleteSession", user |-> u]
Claim(c, u, r)         == [call |-> "claim", conn |-> c, user |-> u, room |-> r]
SetStatus(c, s)        == [call |-> "setStatus", conn |-> c, status |-> s]
SetLiveRoom(c, r)      == [call |-> "setLiveRoom", conn |-> c, room |-> r]
Forget(c)              == [call |-> "forget", conn |-> c]
SetLiveRoomByID(u)     == [call |-> "setLiveRoomByID", user |-> u]
CheckTarget(r, u, rec) == [call |-> "checkTarget", room |-> r, user |-> u, rec |-> rec]
ReadForLeaver(c)       == [call |-> "readForLeaver", conn |-> c]
Move(r)                == [call |-> "move", room |-> r]
AddEngine(r)           == [call |-> "addEngine", room |-> r]
RemoveEngine(r)        == [call |-> "removeEngine", room |-> r]

(* What handlers make of a room record they have read. *)

NewRecord(u, n) == [host |-> u, players |-> {u}, ready |-> {}, max |-> n,
                    mode |-> "hanabi", started |-> FALSE]

Joined(rec, u) == [rec EXCEPT !.players = @ \cup {u}, !.ready = {}]

\* Mutant: the host that leaves stays the host.
LeftHostStays(rec, u) == { [rec EXCEPT !.players = @ \ {u}, !.ready = {}] }

\* LeaveRoom, KickUser, HandleUserDisconnect: u goes; a host is replaced.
Left(rec, u) ==
  { [rec EXCEPT !.players = @ \ {u}, !.ready = {}, !.host = h] :
      h \in IF rec.host = u THEN rec.players \ {u} ELSE {rec.host} }

\* The room record goes with its last player, together with the index.
StoreLeft(r, rec, u, left) ==
  IF rec.players \ {u} = {} THEN <<DeleteRoom(r), DeleteIndex(r)>>
                            ELSE <<SaveRoom(r, left)>>

Lefts(rec, u) == IF rec.players \ {u} = {} THEN {rec} ELSE Left(rec, u)

Toggled(rec, u) ==
  [rec EXCEPT !.ready = IF u \in @ THEN @ \ {u} ELSE @ \cup {u}]

Playing(rec, b) == [rec EXCEPT !.started = b, !.ready = {}]

-----------------------------------------------------------------------------
Idle(t) == todo[t] = <<>>
Quiet   == \A t \in Threads : Idle(t)

Starts(t, calls) ==
  /\ Idle(t)
  /\ todo' = [todo EXCEPT ![t] = calls]

Counted ==
  /\ events < MaxEvents /\ (~Quiet \/ raced => events < MaxOverlapped)
  /\ events' = events + 1

\* History: an overlap makes whether a user acted through two objects, or
\* through a stale one, of no account.
Remember(odd) ==
  /\ raced' = (raced \/ ~Quiet)
  /\ doubled' = (~raced' /\ (doubled \/ odd))

\* Websocket and HandleUserIdentify: a connection with a Session object of its
\* own identifies its user.  The saved session is read; a disconnected one of a
\* room is taken up, any other is written over.
IsUnused(c) ==
  /\ ~open[c] /\ Idle(c)
  /\ \A u \in Users : live[u] # c
  /\ \A t \in Threads : \A i \in 1 .. Len(todo[t]) :
       LET op == todo[t][i]
       IN  op.call \in {"readForLeaver", "saveObject", "setLiveRoom", "setStatus", "forget"}
             => op.conn # c

HandleUserIdentify(c, u) ==
  /\ IsUnused(c)
  /\ logins < MaxLogins
  /\ logins' = logins + 1
  /\ open' = [open EXCEPT ![c] = TRUE]
  /\ mem' = [mem EXCEPT ![c] = Fresh]
  /\ Starts(c, IF sess[u] # NoSession /\ sess[u].status = "disconnected"
                  /\ sess[u].room # NoRoom
               THEN <<Claim(c, u, sess[u].room), SaveObject(c), AddIndex(sess[u].room, u)>>
               ELSE <<Claim(c, u, NoRoom), SaveObject(c)>>)
  /\ Remember(crashes > 0 \/ \E d \in Conns : open[d] /\ mem[d].user = u)
  /\ UNCHANGED <<redis, live, engines, created, events, crashes>>

\* What is left of user.disconnect on a connection that goes on: the map has
\* dropped the object, and its room is no longer the one that is saved.
SavedRoom(u) == IF sess[u] = NoSession THEN NoRoom ELSE sess[u].room
Stale(c) == live[mem[c].user] # c /\ mem[c].room # SavedRoom(mem[c].user)

\* Websocket: every message of an identified user first puts its own Session
\* object into the map; then its handler runs.
Receive(c, calls) ==
  /\ open[c] /\ mem[c].user # NoUser
  /\ Starts(c, calls) /\ Counted
  /\ live' = [live EXCEPT ![mem[c].user] = c]
  /\ Remember(Stale(c))
  /\ UNCHANGED <<redis, mem, open, engines, crashes, logins>>

\* HandleUserUpdate: the client says what its status is.
HandleUserUpdate(c, s) ==
  /\ Receive(c, <<SetStatus(c, s), SaveObject(c)>>)
  /\ UNCHANGED created

\* CreateRoom; the room the host was in is left as it is.
CreateRoom(c, r, n) ==
  LET u == mem[c].user
  IN  /\ r \notin created
      /\ created' = created \cup {r}
      /\ Receive(c, <<SaveRoom(r, NewRecord(u, n)), AddIndex(r, u),
                      SessionRoom(u, r), SetLiveRoom(c, r)>>)

HasSpace(rec) == Cardinality(rec.players) < rec.max

\* JoinRoom; a player of the room goes through it as well, without a save.
JoinRoom(c, r) ==
  LET u == mem[c].user
  IN  /\ rooms[r] # NoRecord
      /\ HasSpace(rooms[r]) /\ ~rooms[r].started
      /\ Receive(c, (IF u \in rooms[r].players THEN <<>>
                     ELSE <<SaveRoom(r, Joined(rooms[r], u))>>)
                    \o <<SessionMove(u, r), AddIndex(r, u), SetLiveRoom(c, r)>>)
      /\ UNCHANGED created

\* A request of a user for the room its Session object names.
InRoom(c, r) == mem[c].room = r /\ r # NoRoom /\ rooms[r] # NoRecord

LeaveRoom(c, r) ==
  LET u == mem[c].user
  IN  /\ InRoom(c, r)
      /\ \E left \in Lefts(rooms[r], u) :
           Receive(c, <<RemoveIndex(r, u)>> \o StoreLeft(r, rooms[r], u, left)
                      \o <<SessionRoom(u, NoRoom), SetLiveRoom(c, NoRoom)>>)
      /\ UNCHANGED created

\* UpdateRoom of maxPlayers, gameMode or both.
Updated(rec, n, m) == [rec EXCEPT !.max = n, !.mode = m]

UpdateRoom(c, r, n, m) ==
  /\ InRoom(c, r) /\ rooms[r].host = mem[c].user
  /\ n = rooms[r].max \/ n >= Cardinality(rooms[r].players)
  /\ n # rooms[r].max \/ m # rooms[r].mode
  /\ Receive(c, <<SaveRoom(r, Updated(rooms[r], n, m))>>)
  /\ UNCHANGED created

KickUser(c, r, target) ==
  /\ InRoom(c, r) /\ rooms[r].host = mem[c].user
  /\ Receive(c, <<CheckTarget(r, target, rooms[r])>>)
  /\ UNCHANGED created

SetPlayerReady(c, r) ==
  /\ InRoom(c, r) /\ mem[c].user \in rooms[r].players
  /\ Receive(c, <<SaveRoom(r, Toggled(rooms[r], mem[c].user))>>)
  /\ UNCHANGED created

\* GameService.StartGame, with AllPlayersReady.
StartGame(c, r) ==
  /\ InRoom(c, r) /\ rooms[r].host = mem[c].user /\ ~rooms[r].started
  /\ Cardinality(rooms[r].players) >= 2 /\ rooms[r].players \subseteq rooms[r].ready
  /\ rooms[r].mode = "hanabi"
  /\ Receive(c, <<AddEngine(r), SaveRoom(r, Playing(rooms[r], TRUE))>>)
  /\ UNCHANGED created

\* GameService.EndGame, with cleanupGame.
EndGame(c, r) ==
  /\ InRoom(c, r) /\ rooms[r].host = mem[c].user
  /\ Receive(c, <<RemoveEngine(r), SaveRoom(r, Playing(rooms[r], FALSE))>>)
  /\ UNCHANGED created

\* GameService.ProcessAction and handleTimerExpired find an engine, read the
\* room, and clean up if the game is over then.
ProcessAction(c, r) ==
  /\ mem[c].room = r /\ r \in engines
  /\ Receive(c, <<Move(r)>>)
  /\ UNCHANGED created

TimerExpired(r) ==
  /\ r \in engines
  /\ Starts(Timer, <<Move(r)>>) /\ Counted
  /\ Remember(FALSE)
  /\ UNCHANGED <<redis, memory, created, crashes, logins>>

\* HandleUserDisconnect of the object obj, on connection c.
HandleUserDisconnect(c, obj) ==
  LET u == mem[obj].user
  IN  /\ live' = [live EXCEPT ![u] = NoConn]
      /\ Starts(c, IF mem[obj].room = NoRoom THEN <<DeleteSession(u)>>
                                             ELSE <<ReadForLeaver(obj)>>)
      /\ Remember(Stale(c))
      /\ UNCHANGED <<redis, mem, engines, created, crashes, logins>>

\* The client sends user.disconnect: its object is put into the map and taken
\* out of it.  The connection stays, and the next message puts it back.
AskToDisconnect(c) ==
  /\ open[c] /\ mem[c].user # NoUser
  /\ HandleUserDisconnect(c, c) /\ Counted
  /\ UNCHANGED open

\* Websocket: the loop's read fails; the object of the user's entry, if there
\* is one, is the one that is disconnected.
Disconnect(c) ==
  LET u == mem[c].user
  IN  /\ open[c] /\ u # NoUser
      /\ open' = [open EXCEPT ![c] = FALSE]
      /\ HandleUserDisconnect(c, IF live[u] # NoConn THEN live[u] ELSE c)
      /\ UNCHANGED events

\* Redis drops a session 3 hours after its last save (sessionTTL).
SessionExpires(u) ==
  /\ sess[u] # NoSession
  /\ sess' = [sess EXCEPT ![u] = NoSession]
  /\ Counted
  /\ Remember(FALSE)
  /\ UNCHANGED <<rooms, index, memory, todo, created, crashes, logins>>

\* The process dies and starts again; Redis stays.
Crash ==
  /\ crashes < MaxCrashes
  /\ crashes' = crashes + 1 /\ Counted
  /\ live' = [u \in Users |-> NoConn]
  /\ mem' = [c \in Conns |-> Fresh]
  /\ open' = [c \in Conns |-> FALSE]
  /\ engines' = {}
  /\ todo' = [t \in Threads |-> <<>>]
  /\ Remember(FALSE)
  /\ UNCHANGED <<redis, created, logins>>

-----------------------------------------------------------------------------
(* The steps of a handler after its first one. *)

Calls(t, kind) == ~Idle(t) /\ Head(todo[t]).call = kind

\* The call is made; `more' comes before the calls that are left.
Goes(t, more) == todo' = [todo EXCEPT ![t] = more \o Tail(@)]
Aborts(t)     == todo' = [todo EXCEPT ![t] = <<>>]

\* Room.Save, DeleteRoom.
CallRooms(t) ==
  LET op == Head(todo[t])
  IN  /\ \/ Calls(t, "saveRoom") /\ rooms' = [rooms EXCEPT ![op.room] = op.rec]
         \/ Calls(t, "deleteRoom") /\ rooms' = [rooms EXCEPT ![op.room] = NoRecord]
      /\ Goes(t, <<>>)
      /\ UNCHANGED <<index, sess, memory, counts, history>>

\* AddSet, RemoveSetMembers and Delete of the room's index.
CallIndex(t) ==
  LET op == Head(todo[t])
  IN  /\ \/ Calls(t, "addIndex") /\ index' = [index EXCEPT ![op.room] = @ \cup {op.user}]
         \/ Calls(t, "removeIndex") /\ index' = [index EXCEPT ![op.room] = @ \ {op.user}]
         \/ Calls(t, "deleteIndex") /\ index' = [index EXCEPT ![op.room] = {}]
      /\ Goes(t, <<>>)
      /\ UNCHANGED <<rooms, sess, memory, counts, history>>

\* SaveUserSession, of a session that was read or of an object, and
\* DeleteUserSession.
CallSession(t) ==
  LET op == Head(todo[t])
  IN  /\ \/ Calls(t, "saveSession") /\ sess' = [sess EXCEPT ![op.user] = op.rec]
         \/ /\ Calls(t, "saveObject")
            /\ sess' = [sess EXCEPT ![mem[op.conn].user] =
                          [room |-> mem[op.conn].room, status |-> mem[op.conn].status]]
         \/ Calls(t, "deleteSession") /\ sess' = [sess EXCEPT ![op.user] = NoSession]
      /\ Goes(t, <<>>)
      /\ UNCHANGED <<rooms, index, memory, counts, history>>

\* GetSession, before the session is saved with another room; without one
\* there is nothing to save.  JoinRoom also leaves the old room's index.
ReadSession(t) ==
  LET op == Head(todo[t])
      s  == sess[op.user]
      saved == SaveSession(op.user, [s EXCEPT !.room = op.room])
  IN  /\ Calls(t, "sessionRoom") \/ Calls(t, "sessionMove")
      /\ Goes(t, IF s = NoSession THEN <<>>
                 ELSE IF op.call = "sessionRoom" \/ s.room \in {NoRoom, op.room} THEN <<saved>>
                 ELSE <<saved, RemoveIndex(s.room, op.user)>>)
      /\ UNCHANGED <<redis, memory, counts, history>>

\* HandleUserIdentify takes the object over, updateLiveRoomSession changes its
\* room; both put it into the map.  HandleUserUpdate sets its status.
CallObject(t) ==
  LET op == Head(todo[t])
  IN  /\ \/ /\ Calls(t, "claim")
            /\ mem' = [mem EXCEPT ![op.conn] =
                         [user |-> op.user, room |-> op.room, status |-> "connected"]]
            /\ live' = [live EXCEPT ![op.user] = op.conn]
         \/ /\ Calls(t, "setLiveRoom")
            /\ mem' = [mem EXCEPT ![op.conn].room = op.room]
            /\ live' = [live EXCEPT ![mem[op.conn].user] = op.conn]
         \/ /\ Calls(t, "setStatus")
            /\ mem' = [mem EXCEPT ![op.conn].status = op.status]
            /\ UNCHANGED live
         \/ /\ Calls(t, "setLiveRoomByID")
            /\ mem' = [c \in Conns |-> IF live[op.user] = c
                                      THEN [mem[c] EXCEPT !.room = NoRoom] ELSE mem[c]]
            /\ UNCHANGED live
         \/ /\ Calls(t, "forget")
            /\ mem' = [mem EXCEPT ![op.conn].room = NoRoom, ![op.conn].status = "disconnected"]
            /\ UNCHANGED live
      /\ Goes(t, <<>>)
      /\ UNCHANGED <<redis, open, engines, counts, history>>

\* Mutant: the session of a user that was kicked stays as it was.
KickTargetKeepsSession(t) ==
  LET op     == Head(todo[t])
      s      == sess[op.user]
      isHere == s # NoSession /\ s.room = op.room /\ op.user \in op.rec.players
  IN  /\ Calls(t, "checkTarget") /\ isHere
      /\ \E left \in Lefts(op.rec, op.user) :
           Goes(t, StoreLeft(op.room, op.rec, op.user, left)
                   \o <<RemoveIndex(op.room, op.user), SetLiveRoomByID(op.user)>>)
      /\ UNCHANGED <<redis, memory, counts, history>>

\* KickUser reads the target's session and gives up if it is elsewhere.
KickTarget(t) ==
  LET op     == Head(todo[t])
      s      == sess[op.user]
      isHere == s # NoSession /\ s.room = op.room /\ op.user \in op.rec.players
  IN  /\ Calls(t, "checkTarget")
      /\ \/ /\ ~isHere
            /\ Aborts(t)
         \/ /\ isHere
            /\ \E left \in Lefts(op.rec, op.user) :
                 Goes(t, StoreLeft(op.room, op.rec, op.user, left)
                         \o <<SaveSession(op.user, [s EXCEPT !.room = NoRoom]),
                              RemoveIndex(op.room, op.user), SetLiveRoomByID(op.user)>>)
      /\ UNCHANGED <<redis, memory, counts, history>>

\* HandleUserDisconnect reads the room: a player of a game keeps its seat.
ReadRoomForLeaver(t) ==
  LET obj == Head(todo[t]).conn
      u   == mem[obj].user
      r   == mem[obj].room
      rec == IF r = NoRoom THEN NoRecord ELSE rooms[r]
  IN  /\ Calls(t, "readForLeaver")
      /\ \/ /\ rec = NoRecord
            /\ Goes(t, <<DeleteSession(u)>>)
            /\ UNCHANGED mem
         \/ /\ rec # NoRecord /\ rec.started
            /\ mem' = [mem EXCEPT ![obj].status = "disconnected"]
            /\ Goes(t, <<SaveObject(obj)>>)
         \/ /\ rec # NoRecord /\ ~rec.started
            /\ \E left \in Lefts(rec, u) :
                 Goes(t, <<RemoveIndex(r, u)>> \o StoreLeft(r, rec, u, left)
                         \o <<Forget(obj), DeleteSession(u)>>)
            /\ UNCHANGED mem
      /\ UNCHANGED <<redis, live, open, engines, counts, history>>

\* ProcessAction and handleTimerExpired read the room; the move ends the game
\* or does not.  ProcessAction makes no move in a room of another mode.
EndOfMove(t) ==
  LET r == Head(todo[t]).room
  IN  /\ Calls(t, "move")
      /\ \/ Goes(t, <<>>)
         \/ /\ rooms[r] # NoRecord /\ (t = Timer \/ rooms[r].mode = "hanabi")
            /\ Goes(t, <<RemoveEngine(r), SaveRoom(r, Playing(rooms[r], FALSE))>>)
      /\ UNCHANGED <<redis, memory, counts, history>>

\* Mutant: the engine of a game that ended stays.
CallEnginesAdding(t) ==
  /\ Calls(t, "addEngine") \/ Calls(t, "removeEngine")
  /\ engines' = engines \cup {Head(todo[t]).room}
  /\ Goes(t, <<>>)
  /\ UNCHANGED <<redis, live, mem, open, counts, history>>

\* Manager.AddEngine, RemoveEngine.
CallEngines(t) ==
  LET r == Head(todo[t]).room
  IN  /\ \/ Calls(t, "addEngine") /\ engines' = engines \cup {r}
         \/ Calls(t, "removeEngine") /\ engines' = engines \ {r}
      /\ Goes(t, <<>>)
      /\ UNCHANGED <<redis, live, mem, open, counts, history>>

Step(t) == \/ CallRooms(t) \/ CallIndex(t) \/ CallSession(t) \/ ReadSession(t)
           \/ CallObject(t) \/ KickTarget(t) \/ ReadRoomForLeaver(t)
           \/ EndOfMove(t) \/ CallEngines(t)

Next ==
  \/ \E c \in Conns :
       \/ Disconnect(c) \/ AskToDisconnect(c)
       \/ \E s \in Statuses : HandleUserUpdate(c, s)
       \/ \E u \in Users : HandleUserIdentify(c, u)
       \/ \E r \in Rooms :
            \/ JoinRoom(c, r) \/ LeaveRoom(c, r) \/ SetPlayerReady(c, r)
            \/ StartGame(c, r) \/ EndGame(c, r) \/ ProcessAction(c, r)
            \/ \E n \in Sizes : CreateRoom(c, r, n)
            \/ \E n \in Sizes, m \in Modes : UpdateRoom(c, r, n, m)
            \/ \E u \in Users : KickUser(c, r, u)
  \/ \E r \in Rooms : TimerExpired(r)
  \/ \E u \in Users : SessionExpires(u)
  \/ \E t \in Threads : Step(t)
  \/ Crash

Spec == Init /\ [][Next]_vars

-----------------------------------------------------------------------------
TypeOK ==
  /\ rooms \in [Rooms -> Record \cup {NoRecord}]
  /\ index \in [Rooms -> SUBSET Users]
  /\ sess \in [Users -> Session \cup {NoSession}]
  /\ live \in [Users -> Conns \cup {NoConn}]
  /\ mem \in [Conns -> [user : Users \cup {NoUser}, room : Rooms \cup {NoRoom},
                        status : Statuses]]
  /\ open \in [Conns -> BOOLEAN]
  /\ engines \subseteq Rooms /\ created \subseteq Rooms
  /\ events \in 0 .. MaxEvents /\ logins \in 0 .. MaxLogins /\ crashes \in 0 .. MaxCrashes
  /\ raced \in BOOLEAN /\ doubled \in BOOLEAN

\* What must hold of one record: a room has players, its host is one of them,
\* only players are ready, and there are no more of them than it has room for.
HostIsPlayer(rec)    == rec.host \in rec.players
ReadyArePlayers(rec) == rec.ready \subseteq rec.players
CapacityKept(rec)    == Cardinality(rec.players) <= rec.max

\* Records are read, changed and saved whole with nothing to keep two handlers
\* apart, so updates get lost; but no interleaving of joins, leaves, kicks,
\* resizes, games and disconnects, no crash between two calls, and no stale
\* record that brings a deleted room back makes a record that contradicts
\* itself (room.go:91, 94-125; room_service.go:110-353).
RecordsAreSound ==
  \A r \in Rooms : rooms[r] # NoRecord =>
    HostIsPlayer(rooms[r]) /\ ReadyArePlayers(rooms[r]) /\ CapacityKept(rooms[r])

\* As long as handlers do not overlap, the four places that say who is where
\* agree whenever none is running: the room that a saved session or a live
\* object names has the user as a player and as a member of its index; the two
\* name the same room; nobody is in the index of a room it does not play in
\* (room_service.go:76-97, 137-163; events_user.go:25-108, 114-225).  This
\* covers user.disconnect, messages sent after it, sessions that expire and
\* statuses that clients set.  Left out is what follows a message through an
\* object that user.disconnect dropped, during a game, and that a kick, a leave
\* or an expiry has contradicted since (Stale).
IsPlaced(u, r) ==
  r # NoRoom /\ rooms[r] # NoRecord => u \in rooms[r].players /\ u \in index[r]

SessionsAgree ==
  Quiet /\ ~raced /\ ~doubled /\ crashes = 0 =>
    /\ \A u \in Users : sess[u] # NoSession => IsPlaced(u, sess[u].room)
    /\ \A u \in Users : live[u] # NoConn =>
         /\ IsPlaced(u, mem[live[u]].room)
         /\ sess[u] # NoSession => sess[u].room = mem[live[u]].room
    /\ \A r \in Rooms : rooms[r] # NoRecord => index[r] \subseteq rooms[r].players

\* As long as handlers do not overlap, a saved room says that a game is on
\* exactly if the manager has one, whoever started and ended it, left, was
\* kicked, lost the connection or changed the mode of the room meanwhile
\* (game_service.go:38-113, 153-183, 274-316; room_service.go:196-201).
StartedMeansGame ==
  Quiet /\ ~raced /\ ~doubled /\ crashes = 0 =>
    \A r \in Rooms : rooms[r] # NoRecord => (rooms[r].started <=> r \in engines)

\* docs/hanabi_status.md:52: a player whose connection broke during a game gets
\* session and room back.  Unless handlers overlapped, a player of a game that
\* is on and that has identified has the room in its object.  The code gives it
\* back only to a session that the server has seen disconnect.
ReconnectRestoresRoom ==
  Quiet /\ ~raced => \A u \in Users, r \in Rooms :
    /\ live[u] # NoConn /\ rooms[r] # NoRecord
    /\ rooms[r].started /\ u \in rooms[r].players
    => mem[live[u]].room # NoRoom

=============================================================================
