------------------------------ MODULE RoomChat ------------------------------
(***************************************************************************)
(* Chat in one room and the broadcaster that carries it:                   *)
(* server/ws/events_chat.go, internal/domain/chat/service.go and           *)
(* server/ws/broadcaster.go, with what events_user.go and room_service.go  *)
(* do to the members' index while messages are on their way.               *)
(*                                                                         *)
(* A connection's loop handles one message at a time, in steps that are    *)
(* the calls to MongoDB, Redis and Pub/Sub.  One goroutine listens to the  *)
(* channel; it takes the members of the room from the index, and for each  *)
(* of them looks the Session object up, checks its Conn and writes to it,  *)
(* or removes the member.  No lock spans these steps, and in a game        *)
(* HandleUserDisconnect sets the Conn of the same object to nil: a write   *)
(* that comes after that panics in the listener and ends the process.      *)
(*                                                                         *)
(* Abstracted: a message is its number, in the order in which the handlers *)
(* took their timestamps; texts and the reply to the sender are left out.  *)
(* MongoDB keeps milliseconds, so several messages may bear one time, and  *)
(* orders those as it likes.  Writes to a client return: a client that     *)
(* stops reading would hold up the listener, and with it every room.  A    *)
(* user has one connection at a time, so one handler.                      *)
(***************************************************************************)
EXTENDS Integers, SequencesExt

CONSTANTS
  Users,
  Host,             \* who made the room and is in it at the start, when all
                    \*   users have a connection
  NoUser,
  Notice,           \* a broadcast that is not a chat message
  MaxChatHistory,   \* the largest limit; it is 50 in the code
  MaxMessages, MaxTime, MaxFaults,
  MaxMoves          \* bounds the joins, leaves, lost and new connections

ASSUME UsersAssumption  == IsFiniteSet(Users) /\ Host \in Users /\ NoUser \notin Users
ASSUME BoundsAssumption ==
  /\ MaxChatHistory \in Nat \ {0}
  /\ {MaxMessages, MaxTime, MaxFaults, MaxMoves} \subseteq Nat
  /\ Notice \notin 1 .. MaxMessages

Messages == 1 .. MaxMessages

VARIABLES
  now,          \* the time of the last message, in milliseconds since the
                \*   first
  sent,         \* number of messages that got a timestamp
  ts, sender,   \* their times and senders
  store,        \* MongoDB: the messages of the room
  channel,      \* Pub/Sub: published and not yet taken by the listener
  index,        \* Redis: room_sessions
  live,         \* activeSessions: users whose last Session object is in it
  inRoom,       \* users whose Session names the room
  looping,      \* users whose connection's loop is running
  conn,         \* Conn of each user's Session objects, the last one being that
                \*   of its last connection
  pc,           \* the next call of each user's handler
  listening,    \* what the listener works on: the message, the members still
                \*   to serve, the one it serves, which of its objects it
                \*   holds, and what is next
  inbox,        \* chat messages written to each user, in order
  down,         \* the process has died
  lost,         \* history: whom the listener's own faults cost which message
  faults, moves

sessions == <<index, live, inRoom>>
objects  == <<looping, conn>>
members  == <<sessions, objects>>
written  == <<sent, ts, sender>>
served   == <<inbox, down, lost>>
vars == <<now, written, store, channel, members, pc, listening, served, faults, moves>>

Conns == {"open", "closed", "nil"}

Waiting == [msg |-> Notice, todo |-> {}, to |-> NoUser, object |-> 0, step |-> "next"]

Init ==
  /\ now = 0 /\ sent = 0
  /\ ts = [m \in Messages |-> 0]
  /\ sender = [m \in Messages |-> NoUser]
  /\ store = {} /\ channel = <<>>
  /\ index = {Host} /\ live = Users /\ inRoom = {Host} /\ looping = Users
  /\ conn = [u \in Users |-> <<"open">>]
  /\ pc = [u \in Users |-> "idle"]
  /\ listening = Waiting
  /\ inbox = [u \in Users |-> <<>>]
  /\ down = FALSE /\ lost = {}
  /\ faults = 0 /\ moves = 0

Goto(u, step) == pc' = [pc EXCEPT ![u] = step]
At(u, step)   == ~down /\ pc[u] = step

\* What the handler of u works on: a sender has one message at a time.
Pending(u) == CHOOSE m \in 1 .. sent : sender[m] = u /\ \A k \in m + 1 .. sent : sender[k] # u

-----------------------------------------------------------------------------
(* Chat. *)

\* Websocket: every message of a client puts its object into the map.
Receive(u) ==
  /\ At(u, "idle") /\ u \in looping
  /\ live' = live \cup {u}
  /\ UNCHANGED objects

\* HandleChatSend takes the time before it saves; the clock may have gone on.
HandleChatSend(u) ==
  /\ Receive(u) /\ u \in inRoom
  /\ sent < MaxMessages
  /\ sent' = sent + 1
  /\ now' \in IF sent = 0 THEN {now} ELSE now .. MaxTime
  /\ ts' = [ts EXCEPT ![sent + 1] = now']
  /\ sender' = [sender EXCEPT ![sent + 1] = u]
  /\ Goto(u, "save")
  /\ UNCHANGED <<store, channel, index, inRoom, listening, served, faults, moves>>

\* Mutant: a message that could not be saved is broadcast all the same.
SaveOrNot(u) ==
  /\ At(u, "save")
  /\ Goto(u, "publish")
  /\ \/ store' = store \cup {Pending(u)} /\ UNCHANGED faults
     \/ faults < MaxFaults /\ faults' = faults + 1 /\ UNCHANGED store
  /\ UNCHANGED <<now, written, channel, members, listening, served, moves>>

\* A message that cannot be saved is refused.
SaveChatMessage(u) ==
  /\ At(u, "save")
  /\ \/ /\ store' = store \cup {Pending(u)}
        /\ Goto(u, "publish")
        /\ UNCHANGED faults
     \/ /\ faults < MaxFaults
        /\ faults' = faults + 1
        /\ Goto(u, "idle")
        /\ UNCHANGED store
  /\ UNCHANGED <<now, written, channel, members, listening, served, moves>>

\* Mutant: the newest message overtakes those that wait.
PublishFirst(u) ==
  /\ At(u, "publish") \/ At(u, "notify")
  /\ channel' = <<IF At(u, "publish") THEN Pending(u) ELSE Notice>> \o channel
  /\ Goto(u, "idle")
  /\ UNCHANGED <<now, written, store, members, listening, served, faults, moves>>

\* BroadcastToRoom; nobody looks at its error.
BroadcastToRoom(u) ==
  /\ At(u, "publish") \/ At(u, "notify")
  /\ \/ channel' = Append(channel, IF At(u, "publish") THEN Pending(u) ELSE Notice)
        /\ UNCHANGED faults
     \/ faults < MaxFaults /\ faults' = faults + 1 /\ UNCHANGED channel
  /\ Goto(u, "idle")
  /\ UNCHANGED <<now, written, store, members, listening, served, moves>>

-----------------------------------------------------------------------------
(* Members come and go. *)

Moves ==
  /\ moves < MaxMoves
  /\ moves' = moves + 1
  /\ UNCHANGED <<now, written, store, channel, served, faults>>

\* JoinRoom's AddSet; then updateLiveRoomSession.
JoinRoom(u) ==
  /\ Receive(u) /\ u \notin inRoom
  /\ index' = index \cup {u}
  /\ Goto(u, "joined")
  /\ Moves /\ UNCHANGED <<inRoom, listening>>

\* LeaveRoom's RemoveSetMembers; then updateLiveRoomSession.
LeaveRoom(u) ==
  /\ Receive(u) /\ u \in inRoom
  /\ index' = index \ {u}
  /\ Goto(u, "left")
  /\ Moves /\ UNCHANGED <<inRoom, listening>>

\* HandleUserDisconnect: during a game the seat is kept and the others are
\* told, else the user goes.
HandleUserDisconnect(u) ==
  /\ At(u, "idle") /\ u \in looping
  /\ live' = live \ {u}
  /\ \/ u \notin inRoom /\ UNCHANGED pc
     \/ u \in inRoom /\ (Goto(u, "unindex") \/ Goto(u, "forget"))
  /\ Moves /\ UNCHANGED <<index, inRoom, listening>>

\* The connection is lost: what is still written to it arrives nowhere.
Disconnect(u) ==
  /\ HandleUserDisconnect(u)
  /\ looping' = looping \ {u}
  /\ conn' = [conn EXCEPT ![u][Len(conn[u])] = IF @ = "open" THEN "closed" ELSE @]

\* The client sends user.disconnect; its loop goes on.
AskToDisconnect(u) == HandleUserDisconnect(u) /\ UNCHANGED objects

\* HandleUserIdentify: the new connection is live before it is in the index.
HandleUserIdentify(u) ==
  /\ At(u, "idle") /\ u \notin looping
  /\ live' = live \cup {u} /\ looping' = looping \cup {u}
  /\ conn' = [conn EXCEPT ![u] = Append(@, "open")]
  /\ IF u \in inRoom THEN Goto(u, "reindex") ELSE UNCHANGED pc
  /\ Moves /\ UNCHANGED <<index, inRoom, listening>>

\* The second calls of these handlers.  In a game the disconnected object
\* loses its Conn.
Membership(u) ==
  /\ \/ At(u, "joined") /\ inRoom' = inRoom \cup {u} /\ Goto(u, "idle") /\ UNCHANGED <<index, conn>>
     \/ At(u, "left") /\ inRoom' = inRoom \ {u} /\ Goto(u, "idle") /\ UNCHANGED <<index, conn>>
     \/ /\ At(u, "unindex")
        /\ index' = index \ {u} /\ inRoom' = inRoom \ {u} /\ Goto(u, "notify")
        /\ UNCHANGED conn
     \/ /\ At(u, "forget")
        /\ conn' = [conn EXCEPT ![u][Len(conn[u])] = "nil"]
        /\ Goto(u, "notify") /\ UNCHANGED <<index, inRoom>>
     \/ /\ At(u, "reindex")
        /\ index' = index \cup {u}
        /\ Goto(u, "notify") /\ UNCHANGED <<inRoom, conn>>
  /\ UNCHANGED <<now, written, store, channel, live, looping, listening, served, faults, moves>>

\* The user went away itself: it left, or it or its client disconnected.
HasLeft(u) == \/ u \notin looping \/ u \notin inRoom
              \/ pc[u] \in {"left", "unindex", "forget"}
              \/ conn[u][Len(conn[u])] = "nil"
IsMember(u) == u \in live /\ u \in index /\ ~HasLeft(u)

-----------------------------------------------------------------------------
(* listen *)

Listens(step) == ~down /\ listening.step = step

\* The next message, with the members of the moment; it is lost if Redis does
\* not give them.
Listen ==
  /\ Listens("next") /\ listening.todo = {} /\ channel # <<>>
  /\ channel' = Tail(channel)
  /\ \/ /\ listening' = [Waiting EXCEPT !.msg = Head(channel), !.todo = index]
        /\ UNCHANGED <<lost, faults>>
     \/ /\ faults < MaxFaults
        /\ faults' = faults + 1
        /\ lost' = lost \cup (Users \X {Head(channel)})
        /\ UNCHANGED listening
  /\ UNCHANGED <<now, written, store, members, pc, inbox, down, moves>>

\* sessionGetter: the object of the next member, if the map has one.
LookUp(u) ==
  /\ Listens("next") /\ u \in listening.todo
  /\ listening' = [listening EXCEPT !.todo = @ \ {u}, !.to = u, !.object = Len(conn[u]),
                     !.step = IF u \in live THEN "check" ELSE "sweep"]
  /\ UNCHANGED <<now, written, store, channel, members, pc, served, faults, moves>>

\* The Conn of the object it holds, which may no longer be the one in the map.
Held == conn[listening.to][listening.object]

\* On to the next member.
Served == [listening EXCEPT !.to = NoUser, !.object = 0, !.step = "next"]

CheckConn ==
  /\ Listens("check")
  /\ listening' = [listening EXCEPT !.step = IF Held = "nil" THEN "sweep" ELSE "write"]
  /\ UNCHANGED <<now, written, store, channel, members, pc, served, faults, moves>>

\* WriteJSON: the error of a connection that is over is logged; on a Conn that
\* became nil since the check it panics.
Deliver ==
  /\ Listens("write")
  /\ listening' = Served
  /\ down' = (Held = "nil")
  /\ inbox' = IF Held = "open" /\ listening.msg # Notice
              THEN [inbox EXCEPT ![listening.to] = Append(@, listening.msg)] ELSE inbox
  /\ UNCHANGED <<now, written, store, channel, members, pc, lost, faults, moves>>

\* Mutant: the listener gives up at the first member that is gone.
SweepAndStop ==
  /\ Listens("sweep")
  /\ index' = index \ {listening.to}
  /\ listening' = Waiting
  /\ UNCHANGED <<now, written, store, channel, live, inRoom, objects, pc, served, faults, moves>>

\* RemoveSetMembers of a member that was gone, and may be back.
Sweep ==
  /\ Listens("sweep")
  /\ index' = index \ {listening.to}
  /\ listening' = Served
  /\ lost' = IF IsMember(listening.to) THEN lost \cup ({listening.to} \X ToSet(channel)) ELSE lost
  /\ UNCHANGED <<now, written, store, channel, live, inRoom, objects, pc, inbox, down, faults, moves>>

Listener == Listen \/ (\E u \in Users : LookUp(u)) \/ CheckConn \/ Deliver \/ Sweep
Handler(u) == SaveChatMessage(u) \/ BroadcastToRoom(u) \/ Membership(u)

Next ==
  \/ Listener
  \/ \E u \in Users :
       \/ HandleChatSend(u) \/ Handler(u)
       \/ JoinRoom(u) \/ LeaveRoom(u)
       \/ Disconnect(u) \/ AskToDisconnect(u) \/ HandleUserIdentify(u)

\* The listener runs for the life of the process; a handler that has begun goes
\* on.  Nobody has to send, come or go, and time may stand still.
FairSpec ==
  /\ Init /\ [][Next]_vars
  /\ WF_vars(Listener)
  /\ \A u \in Users : WF_vars(Handler(u))

-----------------------------------------------------------------------------
(* GetChatHistory *)

\* Sort {timestamp: -1}: any order of the messages with the newest first.
NewestFirst(ms) ==
  { s \in [1 .. Cardinality(ms) -> ms] :
      IsInjective(s) /\ \A i, j \in DOMAIN s : i < j => ts[s[i]] >= ts[s[j]] }

\* The limit, and the reversal.
GetChatHistory(ms, limit) ==
  { Reverse(SubSeq(s, 1, IF Len(s) < limit THEN Len(s) ELSE limit)) : s \in NewestFirst(ms) }

-----------------------------------------------------------------------------
\* Whatever fails, whatever order MongoDB gives to equal times, and whatever the
\* limit of the history is, every history is chronological, and it holds each message that any client was
\* shown, unless it is full of messages that are not older (service.go:36-72,
\* events_chat.go:32-41: saved before it is broadcast).
ShownStaysInHistory ==
  \A limit \in 1 .. MaxChatHistory : \A h \in GetChatHistory(store, limit) :
    /\ \A i, j \in DOMAIN h : i < j => ts[h[i]] <= ts[h[j]]
    /\ \A u \in Users : \A m \in ToSet(inbox[u]) \ ToSet(h) :
         Len(h) = limit /\ \A k \in ToSet(h) : ts[k] >= ts[m]

\* No client is shown a message twice, all clients are shown the messages they
\* have in common in one order, and each sender's in the order it sent them,
\* although handlers of several connections save and publish at once and
\* clients come and go while the listener writes (broadcaster.go:85-122).
OneOrderForAll ==
  \A u \in Users : \A i, j \in DOMAIN inbox[u] : i < j =>
    /\ inbox[u][i] # inbox[u][j]
    /\ sender[inbox[u][i]] = sender[inbox[u][j]] => inbox[u][i] < inbox[u][j]
    /\ \A v \in Users : \A k, l \in DOMAIN inbox[v] :
         k < l => ~(inbox[v][k] = inbox[u][j] /\ inbox[v][l] = inbox[u][i])

\* A message that was published is written to every user that is a member then
\* and does not go away itself, however many members are gone and have to be
\* swept out before it, and although users come back while the listener still
\* holds their old object (broadcaster.go:85-122).  Three ways out are the
\* code's: the look-up of this very message's members fails; the message waits
\* while the listener sweeps out a user that it found gone and that has come
\* back since; the process dies of a write to a Conn that became nil
\* (events_user.go:166).
MembersAreTold ==
  \A u \in Users, m \in Messages :
    (m \in ToSet(channel) /\ IsMember(u))
      ~> (m \in ToSet(inbox[u]) \/ HasLeft(u) \/ <<u, m>> \in lost \/ down)

=============================================================================
