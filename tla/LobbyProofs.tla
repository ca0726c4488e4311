----------------------------- MODULE LobbyProofs -----------------------------
(***************************************************************************)
(* Two results, for every number of users, connections, rooms and crashes  *)
(* and for every bound on the events.  Room records stay sound: whatever   *)
(* handlers overlap, what each of them still has to save is a sound        *)
(* record, because it was computed from a sound record and saved whole.    *)
(* And room, index, session, object and engine agree as long as handlers   *)
(* do not overlap, because the running one is on its way to a state in     *)
(* which they agree.                                                       *)
(***************************************************************************)
EXTENDS Lobby, FiniteSetTheorems, SequenceTheorems, TLAPS

SoundRecord ==
  { rec \in Record : HostIsPlayer(rec) /\ ReadyArePlayers(rec) /\ CapacityKept(rec) }

Somewhere == Rooms \cup {NoRoom}
Someone   == Users \cup {NoUser}

\* The calls that handlers make, with sound records where they carry one.
Ops ==
  [call : {"saveRoom"}, room : Rooms, rec : SoundRecord]
  \cup [call : {"deleteRoom", "deleteIndex", "move", "addEngine", "removeEngine"}, room : Rooms]
  \cup [call : {"addIndex"}, room : Rooms, user : Users]
  \cup [call : {"removeIndex"}, room : Rooms, user : Someone]
  \cup [call : {"sessionRoom", "sessionMove"}, user : Users, room : Somewhere]
  \cup [call : {"saveSession"}, user : Users, rec : Session]
  \cup [call : {"saveObject", "readForLeaver", "forget"}, conn : Conns]
  \cup [call : {"deleteSession"}, user : Someone]
  \cup [call : {"claim"}, conn : Conns, user : Users, room : Somewhere]
  \cup [call : {"setLiveRoom"}, conn : Conns, room : Somewhere]
  \cup [call : {"setStatus"}, conn : Conns, status : Statuses]
  \cup [call : {"setLiveRoomByID"}, user : Users]
  \cup [call : {"checkTarget"}, room : Rooms, user : Users, rec : SoundRecord]

IInv ==
  /\ TypeOK
  /\ rooms \in [Rooms -> SoundRecord \cup {NoRecord}]
  /\ todo \in [Threads -> Seq(Ops)]

-----------------------------------------------------------------------------
(* The calls: what each one carries, and that handlers make such calls. *)

LEMMA OpCarries ==
  ASSUME NEW op \in Ops
  PROVE  /\ op.call = "saveRoom" => op.room \in Rooms /\ op.rec \in SoundRecord
         /\ op.call \in {"deleteRoom", "deleteIndex", "move", "addEngine", "removeEngine"}
              => op.room \in Rooms
         /\ op.call = "addIndex" => op.room \in Rooms /\ op.user \in Users
         /\ op.call = "removeIndex" => op.room \in Rooms
         /\ op.call \in {"sessionRoom", "sessionMove"} =>
              op.user \in Users /\ op.room \in Somewhere
         /\ op.call = "saveSession" => op.user \in Users /\ op.rec \in Session
         /\ op.call \in {"saveObject", "readForLeaver", "forget"} => op.conn \in Conns
         /\ op.call = "claim" =>
              op.conn \in Conns /\ op.user \in Users /\ op.room \in Somewhere
         /\ op.call = "setLiveRoom" => op.conn \in Conns /\ op.room \in Somewhere
         /\ op.call = "setStatus" => op.conn \in Conns /\ op.status \in Statuses
         /\ op.call = "setLiveRoomByID" => op.user \in Users
         /\ op.call = "checkTarget" =>
              op.room \in Rooms /\ op.user \in Users /\ op.rec \in SoundRecord
  BY DEF Ops

LEMMA RoomOps ==
  ASSUME NEW r \in Rooms
  PROVE  /\ \A rec \in SoundRecord : SaveRoom(r, rec) \in Ops
         /\ DeleteRoom(r) \in Ops /\ DeleteIndex(r) \in Ops
         /\ Move(r) \in Ops /\ AddEngine(r) \in Ops /\ RemoveEngine(r) \in Ops
         /\ \A u \in Users : AddIndex(r, u) \in Ops
         /\ \A u \in Someone : RemoveIndex(r, u) \in Ops
         /\ \A u \in Users, rec \in SoundRecord : CheckTarget(r, u, rec) \in Ops
  BY DEF Ops, SaveRoom, DeleteRoom, DeleteIndex, Move, AddEngine, RemoveEngine,
         AddIndex, RemoveIndex, CheckTarget

LEMMA UserOps ==
  ASSUME NEW u \in Users
  PROVE  /\ \A r \in Somewhere : SessionRoom(u, r) \in Ops /\ SessionMove(u, r) \in Ops
         /\ \A s \in Session : SaveSession(u, s) \in Ops
         /\ SetLiveRoomByID(u) \in Ops
  BY DEF Ops, SessionRoom, SessionMove, SaveSession, SetLiveRoomByID

LEMMA ObjectOps ==
  ASSUME NEW c \in Conns
  PROVE  /\ SaveObject(c) \in Ops /\ Forget(c) \in Ops /\ ReadForLeaver(c) \in Ops
         /\ \A r \in Somewhere : SetLiveRoom(c, r) \in Ops
         /\ \A s \in Statuses : SetStatus(c, s) \in Ops
         /\ \A u \in Users, r \in Somewhere : Claim(c, u, r) \in Ops
         /\ \A u \in Someone : DeleteSession(u) \in Ops
  BY DEF Ops, SaveObject, Forget, ReadForLeaver, SetLiveRoom, SetStatus, Claim, DeleteSession

LEMMA OpSeqs ==
  /\ <<>> \in Seq(Ops)
  /\ \A a \in Ops : <<a>> \in Seq(Ops)
  /\ \A a, b \in Ops : <<a, b>> \in Seq(Ops)
  /\ \A a, b, c \in Ops : <<a, b, c>> \in Seq(Ops)
  /\ \A a, b, c, d \in Ops : <<a, b, c, d>> \in Seq(Ops)
  /\ \A s, t \in Seq(Ops) : s \o t \in Seq(Ops)
  <1>1. ASSUME NEW a \in Ops, NEW b \in Ops, NEW c \in Ops, NEW d \in Ops
        PROVE  /\ <<a>> \in Seq(Ops) /\ <<a, b>> \in Seq(Ops)
               /\ <<a, b, c>> \in Seq(Ops) /\ <<a, b, c, d>> \in Seq(Ops)
    BY <1>1
  <1> QED BY <1>1, EmptySeq, ConcatProperties

-----------------------------------------------------------------------------
(* The records: what a handler makes of a sound record is sound. *)

LEMMA PlayersFinite ==
  ASSUME NEW rec \in Record
  PROVE  /\ IsFiniteSet(rec.players) /\ Cardinality(rec.players) \in Nat
         /\ rec.max \in Int
  <1>1. rec.players \in SUBSET Users /\ rec.max \in Sizes
    BY DEF Record
  <1>2. IsFiniteSet(rec.players)
    BY <1>1, UsersAssumption, FS_Subset
  <1>3. Cardinality(rec.players) \in Nat
    BY <1>2, FS_CardinalityType
  <1>4. rec.max \in Int
    <2>1. \A n \in Sizes : n \in Int
      BY SizesAssumption
    <2> QED BY <1>1, <2>1
  <1> QED BY <1>2, <1>3, <1>4

LEMMA NewRecordSound ==
  ASSUME NEW u \in Users, NEW n \in Sizes
  PROVE  NewRecord(u, n) \in SoundRecord
  <1>1. Cardinality({u}) = 1 /\ n >= 1
    BY FS_Singleton, SizesAssumption
  <1> QED BY <1>1
     DEF NewRecord, Modes, SoundRecord, Record, HostIsPlayer, ReadyArePlayers, CapacityKept

LEMMA JoinedSound ==
  ASSUME NEW rec \in SoundRecord, NEW u \in Users, HasSpace(rec)
  PROVE  Joined(rec, u) \in SoundRecord
  <1>1. rec \in Record
    BY DEF SoundRecord
  <1>2. Cardinality(rec.players \cup {u}) <= rec.max
    <2>1. IsFiniteSet(rec.players) /\ Cardinality(rec.players) \in Nat /\ rec.max \in Int
      BY <1>1, PlayersFinite
    <2>2. \/ Cardinality(rec.players \cup {u}) = Cardinality(rec.players)
          \/ Cardinality(rec.players \cup {u}) = Cardinality(rec.players) + 1
      BY <2>1, FS_AddElement
    <2> QED BY <2>1, <2>2 DEF HasSpace
  <1> QED BY <1>1, <1>2
     DEF Joined, SoundRecord, Record, HostIsPlayer, ReadyArePlayers, CapacityKept

LEMMA LeftSound ==
  ASSUME NEW rec \in SoundRecord, NEW u \in Someone, rec.players \ {u} # {},
         NEW left \in Left(rec, u)
  PROVE  left \in SoundRecord
  <1>1. rec \in Record
    BY DEF SoundRecord
  <1>2. Cardinality(rec.players \ {u}) <= rec.max
    <2>1. Cardinality(rec.players \ {u}) <= Cardinality(rec.players)
          /\ Cardinality(rec.players \ {u}) \in Nat
      BY <1>1, PlayersFinite, FS_Subset, FS_CardinalityType
    <2> QED BY <1>1, <2>1, PlayersFinite DEF SoundRecord, CapacityKept
  <1>3. PICK h \in rec.players \ {u} :
          left = [rec EXCEPT !.players = @ \ {u}, !.ready = {}, !.host = h]
    BY DEF Left, SoundRecord, HostIsPlayer
  <1>4. /\ left.players = rec.players \ {u} /\ left.ready = {} /\ left.host = h
        /\ left.max = rec.max /\ left \in Record
    BY <1>1, <1>3 DEF Record
  <1> QED BY <1>2, <1>4 DEF SoundRecord, HostIsPlayer, ReadyArePlayers, CapacityKept

LEMMA StoreLeftOps ==
  ASSUME NEW r \in Rooms, NEW rec \in SoundRecord, NEW u \in Someone,
         NEW left \in Lefts(rec, u)
  PROVE  StoreLeft(r, rec, u, left) \in Seq(Ops)
  <1>1. CASE rec.players \ {u} = {}
    BY <1>1, RoomOps, OpSeqs DEF StoreLeft
  <1>2. CASE rec.players \ {u} # {}
    <2>1. left \in SoundRecord
      BY <1>2, LeftSound DEF Lefts
    <2> QED BY <1>2, <2>1, RoomOps, OpSeqs DEF StoreLeft
  <1> QED BY <1>1, <1>2

LEMMA ToggledSound ==
  ASSUME NEW rec \in SoundRecord, NEW u \in rec.players
  PROVE  Toggled(rec, u) \in SoundRecord
  BY DEF Toggled, SoundRecord, Record, HostIsPlayer, ReadyArePlayers, CapacityKept

LEMMA PlayingSound ==
  ASSUME NEW rec \in SoundRecord, NEW b \in BOOLEAN
  PROVE  Playing(rec, b) \in SoundRecord
  BY DEF Playing, SoundRecord, Record, HostIsPlayer, ReadyArePlayers, CapacityKept

LEMMA UpdatedSound ==
  ASSUME NEW rec \in SoundRecord, NEW n \in Sizes, NEW m \in Modes,
         n = rec.max \/ n >= Cardinality(rec.players)
  PROVE  Updated(rec, n, m) \in SoundRecord
  <1>1. rec \in Record /\ Cardinality(rec.players) <= rec.max
    BY DEF SoundRecord, CapacityKept
  <1>2. Cardinality(rec.players) <= n
    BY <1>1, PlayersFinite, SizesAssumption
  <1> QED BY <1>1, <1>2
     DEF Updated, SoundRecord, Record, HostIsPlayer, ReadyArePlayers, CapacityKept

-----------------------------------------------------------------------------
(* The first steps of handlers. *)

LEMMA InitInv == Init => IInv
  <1> SUFFICES ASSUME Init PROVE IInv
    OBVIOUS
  <1>1. 0 \in 0 .. MaxEvents /\ 0 \in 0 .. MaxLogins /\ 0 \in 0 .. MaxCrashes
    BY BoundsAssumption
  <1>2. mem \in [Conns -> [user : Users \cup {NoUser}, room : Rooms \cup {NoRoom},
                           status : Statuses]]
    BY DEF Init, Fresh, Statuses
  <1>3. TypeOK
    BY <1>1, <1>2 DEF Init, TypeOK
  <1>4. rooms \in [Rooms -> SoundRecord \cup {NoRecord}] /\ todo \in [Threads -> Seq(Ops)]
    BY OpSeqs DEF Init
  <1> QED BY <1>3, <1>4 DEF IInv

LEMMA StartsOps ==
  ASSUME IInv, NEW t \in Threads, NEW calls \in Seq(Ops), Starts(t, calls)
  PROVE  todo' \in [Threads -> Seq(Ops)]
  BY DEF IInv, Starts

\* What each request has in common.
LEMMA ReceiveInv ==
  ASSUME IInv, NEW c \in Conns, NEW calls \in Seq(Ops), Receive(c, calls),
         created' \subseteq Rooms
  PROVE  IInv'
  <1>1. todo' \in [Threads -> Seq(Ops)]
    <2>1. c \in Threads /\ Starts(c, calls)
      BY DEF Receive, Threads
    <2> QED BY <2>1, StartsOps
  <1>2. events' \in 0 .. MaxEvents
    BY BoundsAssumption DEF IInv, TypeOK, Receive, Counted
  <1>3. live' \in [Users -> Conns \cup {NoConn}]
    BY DEF IInv, TypeOK, Receive
  <1>4. raced' \in BOOLEAN /\ doubled' \in BOOLEAN
    BY DEF Receive, Remember
  <1>5. UNCHANGED <<rooms, index, sess, mem, open, engines, crashes, logins>>
    BY DEF Receive, redis
  <1> QED BY <1>1, <1>2, <1>3, <1>4, <1>5 DEF IInv, TypeOK

\* The requests' users are users, and what they read of rooms is sound.
LEMMA Requester ==
  ASSUME IInv, NEW c \in Conns, NEW calls, Receive(c, calls)
  PROVE  mem[c].user \in Users
  BY DEF IInv, TypeOK, Receive

LEMMA ReadSound ==
  ASSUME IInv, NEW r \in Rooms, rooms[r] # NoRecord
  PROVE  rooms[r] \in SoundRecord
  BY DEF IInv

LEMMA IdentifyInv ==
  ASSUME IInv, NEW c \in Conns, NEW u \in Users, HandleUserIdentify(c, u)
  PROVE  IInv'
  <1> DEFINE again == <<Claim(c, u, sess[u].room), SaveObject(c), AddIndex(sess[u].room, u)>>
             anew  == <<Claim(c, u, NoRoom), SaveObject(c)>>
  <1>1. anew \in Seq(Ops)
    BY ObjectOps, OpSeqs DEF Somewhere
  <1>2. ASSUME sess[u] # NoSession, sess[u].room # NoRoom PROVE again \in Seq(Ops)
    <2>1. sess[u].room \in Rooms
      BY <1>2 DEF IInv, TypeOK, Session
    <2>2. Claim(c, u, sess[u].room) \in Ops /\ SaveObject(c) \in Ops
          /\ AddIndex(sess[u].room, u) \in Ops
      BY <2>1, ObjectOps, RoomOps DEF Somewhere
    <2> QED BY <2>2, OpSeqs
  <1>3. todo' \in [Threads -> Seq(Ops)]
    <2>1. PICK calls \in Seq(Ops) : Starts(c, calls)
      BY <1>1, <1>2 DEF HandleUserIdentify
    <2> QED BY <2>1, StartsOps DEF Threads
  <1>4. logins' \in 0 .. MaxLogins
    BY BoundsAssumption DEF IInv, TypeOK, HandleUserIdentify
  <1>5. mem' \in [Conns -> [user : Users \cup {NoUser}, room : Rooms \cup {NoRoom},
                            status : Statuses]]
    BY DEF IInv, TypeOK, HandleUserIdentify, Fresh, Statuses
  <1>6. open' \in [Conns -> BOOLEAN] /\ raced' \in BOOLEAN /\ doubled' \in BOOLEAN
    BY DEF IInv, TypeOK, HandleUserIdentify, Remember
  <1>7. UNCHANGED <<rooms, index, sess, live, engines, created, events, crashes>>
    BY DEF HandleUserIdentify, redis
  <1> QED BY <1>3, <1>4, <1>5, <1>6, <1>7 DEF IInv, TypeOK

LEMMA UserUpdateInv ==
  ASSUME IInv, NEW c \in Conns, NEW s \in Statuses, HandleUserUpdate(c, s)
  PROVE  IInv'
  <1>1. <<SetStatus(c, s), SaveObject(c)>> \in Seq(Ops)
    BY ObjectOps, OpSeqs
  <1>2. Receive(c, <<SetStatus(c, s), SaveObject(c)>>) /\ created' = created
    BY DEF HandleUserUpdate
  <1> QED BY <1>1, <1>2, ReceiveInv DEF IInv, TypeOK

LEMMA CreateRoomInv ==
  ASSUME IInv, NEW c \in Conns, NEW r \in Rooms, NEW n \in Sizes, CreateRoom(c, r, n)
  PROVE  IInv'
  <1> DEFINE u == mem[c].user
             calls == <<SaveRoom(r, NewRecord(u, n)), AddIndex(r, u),
                        SessionRoom(u, r), SetLiveRoom(c, r)>>
  <1>1. Receive(c, calls) /\ created' = created \cup {r}
    BY DEF CreateRoom
  <1>2. u \in Users
    BY <1>1, Requester
  <1> HIDE DEF u
  <1>3. calls \in Seq(Ops)
    BY <1>2, NewRecordSound, RoomOps, UserOps, ObjectOps, OpSeqs DEF Somewhere
  <1> HIDE DEF calls
  <1> QED BY <1>1, <1>3, ReceiveInv DEF IInv, TypeOK

LEMMA JoinRoomInv ==
  ASSUME IInv, NEW c \in Conns, NEW r \in Rooms, JoinRoom(c, r)
  PROVE  IInv'
  <1> DEFINE u == mem[c].user
             first == IF u \in rooms[r].players THEN <<>>
                      ELSE <<SaveRoom(r, Joined(rooms[r], u))>>
             rest == <<SessionMove(u, r), AddIndex(r, u), SetLiveRoom(c, r)>>
  <1>1. Receive(c, first \o rest) /\ rooms[r] # NoRecord /\ HasSpace(rooms[r])
        /\ created' = created
    BY DEF JoinRoom
  <1>2. u \in Users /\ rooms[r] \in SoundRecord
    BY <1>1, Requester, ReadSound
  <1> HIDE DEF u
  <1>3. first \in Seq(Ops)
    BY <1>1, <1>2, JoinedSound, RoomOps, OpSeqs
  <1>4. rest \in Seq(Ops)
    BY <1>2, RoomOps, UserOps, ObjectOps, OpSeqs DEF Somewhere
  <1> HIDE DEF first, rest
  <1>5. first \o rest \in Seq(Ops)
    BY <1>3, <1>4, OpSeqs
  <1> QED BY <1>1, <1>5, ReceiveInv DEF IInv, TypeOK

LEMMA LeaveRoomInv ==
  ASSUME IInv, NEW c \in Conns, NEW r \in Rooms, LeaveRoom(c, r)
  PROVE  IInv'
  <1> DEFINE u == mem[c].user
             first == <<RemoveIndex(r, u)>>
             last  == <<SessionRoom(u, NoRoom), SetLiveRoom(c, NoRoom)>>
  <1>1. PICK left \in Lefts(rooms[r], u) :
          Receive(c, first \o StoreLeft(r, rooms[r], u, left) \o last)
    BY DEF LeaveRoom
  <1>2. u \in Users /\ u \in Someone
    BY <1>1, Requester DEF Someone
  <1>3. rooms[r] \in SoundRecord /\ created' = created
    BY ReadSound DEF LeaveRoom, InRoom
  <1> HIDE DEF u
  <1>4. first \in Seq(Ops) /\ last \in Seq(Ops)
    BY <1>2, RoomOps, UserOps, ObjectOps, OpSeqs DEF Somewhere
  <1>5. StoreLeft(r, rooms[r], u, left) \in Seq(Ops)
    BY <1>2, <1>3, StoreLeftOps
  <1> HIDE DEF first, last
  <1>6. first \o StoreLeft(r, rooms[r], u, left) \o last \in Seq(Ops)
    BY <1>4, <1>5, OpSeqs
  <1> QED BY <1>1, <1>3, <1>6, ReceiveInv DEF IInv, TypeOK

LEMMA UpdateRoomInv ==
  ASSUME IInv, NEW c \in Conns, NEW r \in Rooms, NEW n \in Sizes, NEW m \in Modes,
         UpdateRoom(c, r, n, m)
  PROVE  IInv'
  <1>1. Updated(rooms[r], n, m) \in SoundRecord
    BY ReadSound, UpdatedSound DEF UpdateRoom, InRoom
  <1>2. <<SaveRoom(r, Updated(rooms[r], n, m))>> \in Seq(Ops)
    BY <1>1, RoomOps, OpSeqs
  <1>3. Receive(c, <<SaveRoom(r, Updated(rooms[r], n, m))>>) /\ created' = created
    BY DEF UpdateRoom
  <1> QED BY <1>2, <1>3, ReceiveInv DEF IInv, TypeOK

LEMMA KickUserInv ==
  ASSUME IInv, NEW c \in Conns, NEW r \in Rooms, NEW u \in Users, KickUser(c, r, u)
  PROVE  IInv'
  <1>1. rooms[r] \in SoundRecord
    BY ReadSound DEF KickUser, InRoom
  <1>2. <<CheckTarget(r, u, rooms[r])>> \in Seq(Ops)
    BY <1>1, RoomOps, OpSeqs
  <1>3. Receive(c, <<CheckTarget(r, u, rooms[r])>>) /\ created' = created
    BY DEF KickUser
  <1> QED BY <1>2, <1>3, ReceiveInv DEF IInv, TypeOK

LEMMA ReadyInv ==
  ASSUME IInv, NEW c \in Conns, NEW r \in Rooms, SetPlayerReady(c, r)
  PROVE  IInv'
  <1>1. Toggled(rooms[r], mem[c].user) \in SoundRecord
    BY ReadSound, ToggledSound DEF SetPlayerReady, InRoom
  <1>2. <<SaveRoom(r, Toggled(rooms[r], mem[c].user))>> \in Seq(Ops)
    BY <1>1, RoomOps, OpSeqs
  <1>3. Receive(c, <<SaveRoom(r, Toggled(rooms[r], mem[c].user))>>) /\ created' = created
    BY DEF SetPlayerReady
  <1> QED BY <1>2, <1>3, ReceiveInv DEF IInv, TypeOK

LEMMA GameInv ==
  ASSUME IInv, NEW c \in Conns, NEW r \in Rooms, StartGame(c, r) \/ EndGame(c, r)
  PROVE  IInv'
  <1>1. /\ Playing(rooms[r], TRUE) \in SoundRecord
        /\ Playing(rooms[r], FALSE) \in SoundRecord
    BY ReadSound, PlayingSound DEF StartGame, EndGame, InRoom
  <1>2. /\ <<AddEngine(r), SaveRoom(r, Playing(rooms[r], TRUE))>> \in Seq(Ops)
        /\ <<RemoveEngine(r), SaveRoom(r, Playing(rooms[r], FALSE))>> \in Seq(Ops)
    BY <1>1, RoomOps, OpSeqs
  <1>3. CASE StartGame(c, r)
    <2>1. Receive(c, <<AddEngine(r), SaveRoom(r, Playing(rooms[r], TRUE))>>)
          /\ created' = created
      BY <1>3 DEF StartGame
    <2> QED BY <1>2, <2>1, ReceiveInv DEF IInv, TypeOK
  <1>4. CASE EndGame(c, r)
    <2>1. Receive(c, <<RemoveEngine(r), SaveRoom(r, Playing(rooms[r], FALSE))>>)
          /\ created' = created
      BY <1>4 DEF EndGame
    <2> QED BY <1>2, <2>1, ReceiveInv DEF IInv, TypeOK
  <1> QED BY <1>3, <1>4

LEMMA MoveInv ==
  ASSUME IInv, NEW r \in Rooms, TimerExpired(r) \/ \E c \in Conns : ProcessAction(c, r)
  PROVE  IInv'
  <1>1. <<Move(r)>> \in Seq(Ops)
    BY RoomOps, OpSeqs
  <1>2. ASSUME NEW c \in Conns, ProcessAction(c, r) PROVE IInv'
    BY <1>1, <1>2, ReceiveInv DEF ProcessAction, IInv, TypeOK
  <1>3. CASE TimerExpired(r)
    <2>1. todo' \in [Threads -> Seq(Ops)]
      BY <1>1, <1>3, StartsOps DEF TimerExpired, Threads
    <2>2. events' \in 0 .. MaxEvents
      BY <1>3, BoundsAssumption DEF IInv, TypeOK, TimerExpired, Counted
    <2>3. raced' \in BOOLEAN /\ doubled' \in BOOLEAN
      BY <1>3 DEF TimerExpired, Remember
    <2>4. UNCHANGED <<rooms, index, sess, live, mem, open, engines, created, crashes,
                      logins>>
      BY <1>3 DEF TimerExpired, redis, memory
    <2> QED BY <2>1, <2>2, <2>3, <2>4 DEF IInv, TypeOK
  <1> QED BY <1>2, <1>3

\* What user.disconnect and a lost connection have in common.
LEMMA DisconnectedInv ==
  ASSUME IInv, NEW c \in Conns, NEW obj \in Conns, HandleUserDisconnect(c, obj),
         open' \in [Conns -> BOOLEAN], events' \in 0 .. MaxEvents
  PROVE  IInv'
  <1>1. mem[obj].user \in Someone
    BY DEF IInv, TypeOK, Someone
  <1>2. /\ <<DeleteSession(mem[obj].user)>> \in Seq(Ops)
        /\ <<ReadForLeaver(obj)>> \in Seq(Ops)
    BY <1>1, ObjectOps, OpSeqs
  <1>3. todo' \in [Threads -> Seq(Ops)]
    <2>1. PICK calls \in Seq(Ops) : Starts(c, calls)
      BY <1>2 DEF HandleUserDisconnect
    <2> QED BY <2>1, StartsOps DEF Threads
  <1>4. live' \in [Users -> Conns \cup {NoConn}]
    BY DEF HandleUserDisconnect, IInv, TypeOK
  <1>5. raced' \in BOOLEAN /\ doubled' \in BOOLEAN
    BY DEF HandleUserDisconnect, Remember
  <1>6. UNCHANGED <<rooms, index, sess, mem, engines, created, crashes, logins>>
    BY DEF HandleUserDisconnect, redis
  <1> QED BY <1>3, <1>4, <1>5, <1>6 DEF IInv, TypeOK

LEMMA AskToDisconnectInv ==
  ASSUME IInv, NEW c \in Conns, AskToDisconnect(c)
  PROVE  IInv'
  <1>1. events' \in 0 .. MaxEvents
    BY BoundsAssumption DEF IInv, TypeOK, AskToDisconnect, Counted
  <1> QED BY <1>1, DisconnectedInv DEF AskToDisconnect, IInv, TypeOK

LEMMA DisconnectInv ==
  ASSUME IInv, NEW c \in Conns, Disconnect(c)
  PROVE  IInv'
  <1> DEFINE obj == IF live[mem[c].user] # NoConn THEN live[mem[c].user] ELSE c
  <1>1. obj \in Conns /\ HandleUserDisconnect(c, obj)
    BY DEF Disconnect, IInv, TypeOK
  <1>2. open' \in [Conns -> BOOLEAN] /\ events' \in 0 .. MaxEvents
    BY DEF Disconnect, IInv, TypeOK
  <1> HIDE DEF obj
  <1> QED BY <1>1, <1>2, DisconnectedInv

LEMMA SessionExpiresInv ==
  ASSUME IInv, NEW u \in Users, SessionExpires(u)
  PROVE  IInv'
  <1>1. sess' \in [Users -> Session \cup {NoSession}]
    BY DEF SessionExpires, IInv, TypeOK
  <1>2. events' \in 0 .. MaxEvents
    BY BoundsAssumption DEF IInv, TypeOK, SessionExpires, Counted
  <1>3. raced' \in BOOLEAN /\ doubled' \in BOOLEAN
    BY DEF SessionExpires, Remember
  <1>4. UNCHANGED <<rooms, index, live, mem, open, engines, todo, created, crashes, logins>>
    BY DEF SessionExpires, memory
  <1> QED BY <1>1, <1>2, <1>3, <1>4 DEF IInv, TypeOK

LEMMA CrashInv ==
  ASSUME IInv, Crash
  PROVE  IInv'
  <1>1. todo' \in [Threads -> Seq(Ops)]
    BY OpSeqs DEF Crash
  <1>2. events' \in 0 .. MaxEvents /\ crashes' \in 0 .. MaxCrashes
    BY BoundsAssumption DEF IInv, TypeOK, Crash, Counted
  <1>3. mem' \in [Conns -> [user : Users \cup {NoUser}, room : Rooms \cup {NoRoom},
                            status : Statuses]]
    BY DEF Crash, Fresh, Statuses
  <1>4. open' \in [Conns -> BOOLEAN] /\ live' \in [Users -> Conns \cup {NoConn}]
        /\ engines' \subseteq Rooms
    BY DEF Crash
  <1>5. raced' \in BOOLEAN /\ doubled' \in BOOLEAN
    BY DEF Crash, Remember
  <1>6. UNCHANGED <<rooms, index, sess, created, logins>>
    BY DEF Crash, redis
  <1> QED BY <1>1, <1>2, <1>3, <1>4, <1>5, <1>6 DEF IInv, TypeOK

-----------------------------------------------------------------------------
(* The later steps of handlers. *)

LEMMA NextOp ==
  ASSUME IInv, NEW t \in Threads, ~Idle(t)
  PROVE  Head(todo[t]) \in Ops /\ Tail(todo[t]) \in Seq(Ops)
  <1>1. todo[t] \in Seq(Ops) /\ todo[t] # <<>>
    BY DEF IInv, Idle
  <1> QED BY <1>1, HeadTailProperties

LEMMA GoesOps ==
  ASSUME IInv, NEW t \in Threads, ~Idle(t), NEW more \in Seq(Ops), Goes(t, more)
  PROVE  todo' \in [Threads -> Seq(Ops)]
  <1>1. more \o Tail(todo[t]) \in Seq(Ops)
    BY NextOp, OpSeqs
  <1> QED BY <1>1 DEF Goes, IInv

\* A save stores a sound record.
LEMMA CallRoomsInv ==
  ASSUME IInv, NEW t \in Threads, CallRooms(t)
  PROVE  IInv'
  <1> DEFINE op == Head(todo[t])
  <1>1. ~Idle(t) /\ op.call \in {"saveRoom", "deleteRoom"}
    BY DEF CallRooms, Calls
  <1>2. op \in Ops
    BY <1>1, NextOp
  <1>3. todo' \in [Threads -> Seq(Ops)]
    BY <1>1, GoesOps, OpSeqs DEF CallRooms
  <1>4. rooms' \in [Rooms -> SoundRecord \cup {NoRecord}]
    <2>1. CASE op.call = "saveRoom" /\ rooms' = [rooms EXCEPT ![op.room] = op.rec]
      <3>1. op.room \in Rooms /\ op.rec \in SoundRecord
        BY <1>2, <2>1, OpCarries
      <3> HIDE DEF op
      <3> QED BY <2>1, <3>1 DEF IInv
    <2>2. CASE rooms' = [rooms EXCEPT ![op.room] = NoRecord]
      <3> HIDE DEF op
      <3> QED BY <2>2 DEF IInv
    <2> QED BY <2>1, <2>2 DEF CallRooms, Calls
  <1>5. rooms' \in [Rooms -> Record \cup {NoRecord}]
    BY <1>4 DEF SoundRecord
  <1>6. UNCHANGED <<index, sess, live, mem, open, engines, created, events, crashes,
                    logins, raced, doubled>>
    BY DEF CallRooms, memory, counts, history
  <1> QED BY <1>3, <1>4, <1>5, <1>6 DEF IInv, TypeOK

LEMMA CallIndexInv ==
  ASSUME IInv, NEW t \in Threads, CallIndex(t)
  PROVE  IInv'
  <1> DEFINE op == Head(todo[t])
  <1>1. ~Idle(t) /\ op.call \in {"addIndex", "removeIndex", "deleteIndex"}
    BY DEF CallIndex, Calls
  <1>2. op \in Ops
    BY <1>1, NextOp
  <1>3. todo' \in [Threads -> Seq(Ops)]
    BY <1>1, GoesOps, OpSeqs DEF CallIndex
  <1>4. index' \in [Rooms -> SUBSET Users]
    <2>1. CASE op.call = "addIndex" /\ index' = [index EXCEPT ![op.room] = @ \cup {op.user}]
      <3>1. op.user \in Users
        BY <1>2, <2>1, OpCarries
      <3> HIDE DEF op
      <3> QED BY <2>1, <3>1 DEF IInv, TypeOK
    <2>2. CASE index' = [index EXCEPT ![op.room] = @ \ {op.user}]
      <3> HIDE DEF op
      <3> QED BY <2>2 DEF IInv, TypeOK
    <2>3. CASE index' = [index EXCEPT ![op.room] = {}]
      <3> HIDE DEF op
      <3> QED BY <2>3 DEF IInv, TypeOK
    <2> QED BY <2>1, <2>2, <2>3 DEF CallIndex, Calls
  <1>5. UNCHANGED <<rooms, sess, live, mem, open, engines, created, events, crashes,
                    logins, raced, doubled>>
    BY DEF CallIndex, memory, counts, history
  <1> QED BY <1>3, <1>4, <1>5 DEF IInv, TypeOK

LEMMA CallSessionInv ==
  ASSUME IInv, NEW t \in Threads, CallSession(t)
  PROVE  IInv'
  <1> DEFINE op == Head(todo[t])
  <1>1. ~Idle(t) /\ op.call \in {"saveSession", "saveObject", "deleteSession"}
    BY DEF CallSession, Calls
  <1>2. op \in Ops
    BY <1>1, NextOp
  <1>3. todo' \in [Threads -> Seq(Ops)]
    BY <1>1, GoesOps, OpSeqs DEF CallSession
  <1>4. sess' \in [Users -> Session \cup {NoSession}]
    <2>1. CASE op.call = "saveSession" /\ sess' = [sess EXCEPT ![op.user] = op.rec]
      <3>1. op.rec \in Session
        BY <1>2, <2>1, OpCarries
      <3> HIDE DEF op
      <3> QED BY <2>1, <3>1 DEF IInv, TypeOK
    <2>2. CASE op.call = "saveObject"
               /\ sess' = [sess EXCEPT ![mem[op.conn].user] =
                             [room |-> mem[op.conn].room, status |-> mem[op.conn].status]]
      <3>1. op.conn \in Conns
        BY <1>2, <2>2, OpCarries
      <3> HIDE DEF op
      <3>2. [room |-> mem[op.conn].room, status |-> mem[op.conn].status] \in Session
        BY <3>1 DEF IInv, TypeOK, Session
      <3> QED BY <2>2, <3>2 DEF IInv, TypeOK
    <2>3. CASE sess' = [sess EXCEPT ![op.user] = NoSession]
      <3> HIDE DEF op
      <3> QED BY <2>3 DEF IInv, TypeOK
    <2> QED BY <2>1, <2>2, <2>3 DEF CallSession, Calls
  <1>5. UNCHANGED <<rooms, index, live, mem, open, engines, created, events, crashes,
                    logins, raced, doubled>>
    BY DEF CallSession, memory, counts, history
  <1> QED BY <1>3, <1>4, <1>5 DEF IInv, TypeOK

LEMMA ReadSessionInv ==
  ASSUME IInv, NEW t \in Threads, ReadSession(t)
  PROVE  IInv'
  <1> DEFINE op == Head(todo[t])
             s == sess[op.user]
             saved == SaveSession(op.user, [s EXCEPT !.room = op.room])
             gone == RemoveIndex(s.room, op.user)
  <1>1. ~Idle(t) /\ op.call \in {"sessionRoom", "sessionMove"}
    BY DEF ReadSession, Calls
  <1>2. op.user \in Users /\ op.room \in Somewhere
    BY <1>1, NextOp, OpCarries
  <1>3. ASSUME s # NoSession PROVE saved \in Ops
    <2>1. s \in Session
      BY <1>2, <1>3 DEF IInv, TypeOK
    <2>2. [s EXCEPT !.room = op.room] \in Session
      BY <1>2, <2>1 DEF Session, Somewhere
    <2> QED BY <1>2, <2>2, UserOps
  <1>4. ASSUME s # NoSession, s.room # NoRoom PROVE gone \in Ops
    <2>1. s.room \in Rooms
      BY <1>2, <1>4 DEF IInv, TypeOK, Session
    <2> QED BY <1>2, <2>1, RoomOps DEF Someone
  <1>5. \/ Goes(t, <<>>)
        \/ s # NoSession /\ Goes(t, <<saved>>)
        \/ s # NoSession /\ s.room # NoRoom /\ Goes(t, <<saved, gone>>)
    BY DEF ReadSession
  <1> HIDE DEF op, s, saved, gone
  <1>6. PICK more \in Seq(Ops) : Goes(t, more)
    BY <1>3, <1>4, <1>5, OpSeqs
  <1>7. todo' \in [Threads -> Seq(Ops)]
    BY <1>1, <1>6, GoesOps
  <1>8. UNCHANGED <<rooms, index, sess, live, mem, open, engines, created, events, crashes,
                    logins, raced, doubled>>
    BY DEF ReadSession, redis, memory, counts, history
  <1> QED BY <1>7, <1>8 DEF IInv, TypeOK

LEMMA CallObjectInv ==
  ASSUME IInv, NEW t \in Threads, CallObject(t)
  PROVE  IInv'
  <1> DEFINE op == Head(todo[t])
             Objects == [user : Users \cup {NoUser}, room : Rooms \cup {NoRoom},
                         status : Statuses]
  <1>1. ~Idle(t)
    BY DEF CallObject, Calls
  <1>2. op \in Ops
    BY <1>1, NextOp
  <1>3. todo' \in [Threads -> Seq(Ops)]
    BY <1>1, GoesOps, OpSeqs DEF CallObject
  <1>4. mem \in [Conns -> Objects] /\ live \in [Users -> Conns \cup {NoConn}]
    BY DEF IInv, TypeOK
  <1>5. mem' \in [Conns -> Objects] /\ live' \in [Users -> Conns \cup {NoConn}]
    <2>1. CASE /\ op.call = "claim"
               /\ mem' = [mem EXCEPT ![op.conn] =
                            [user |-> op.user, room |-> op.room, status |-> "connected"]]
               /\ live' = [live EXCEPT ![op.user] = op.conn]
      <3>1. op.conn \in Conns /\ op.user \in Users /\ op.room \in Somewhere
        BY <1>2, <2>1, OpCarries
      <3> HIDE DEF op
      <3>2. [user |-> op.user, room |-> op.room, status |-> "connected"] \in Objects
        BY <3>1 DEF Somewhere, Statuses
      <3> HIDE DEF Objects
      <3> QED BY <1>4, <2>1, <3>1, <3>2
    <2>2. CASE /\ op.call = "setLiveRoom"
               /\ mem' = [mem EXCEPT ![op.conn].room = op.room]
               /\ live' = [live EXCEPT ![mem[op.conn].user] = op.conn]
      <3>1. op.conn \in Conns /\ op.room \in Somewhere
        BY <1>2, <2>2, OpCarries
      <3> HIDE DEF op
      <3> QED BY <1>4, <2>2, <3>1 DEF Somewhere
    <2>3. CASE /\ mem' = [c \in Conns |-> IF live[op.user] = c
                                         THEN [mem[c] EXCEPT !.room = NoRoom] ELSE mem[c]]
               /\ live' = live
      <3> HIDE DEF op
      <3>1. ASSUME NEW c \in Conns PROVE [mem[c] EXCEPT !.room = NoRoom] \in Objects
        BY <1>4
      <3> HIDE DEF Objects
      <3> QED BY <1>4, <2>3, <3>1
    <2>4. CASE /\ op.call = "forget"
               /\ mem' = [mem EXCEPT ![op.conn].room = NoRoom,
                                     ![op.conn].status = "disconnected"]
               /\ live' = live
      <3>1. op.conn \in Conns
        BY <1>2, <2>4, OpCarries
      <3> HIDE DEF op
      <3> QED BY <1>4, <2>4, <3>1 DEF Statuses
    <2>5. CASE /\ op.call = "setStatus"
               /\ mem' = [mem EXCEPT ![op.conn].status = op.status]
               /\ live' = live
      <3>1. op.conn \in Conns /\ op.status \in Statuses
        BY <1>2, <2>5, OpCarries
      <3> HIDE DEF op
      <3> QED BY <1>4, <2>5, <3>1
    <2> QED BY <2>1, <2>2, <2>3, <2>4, <2>5 DEF CallObject, Calls
  <1>6. UNCHANGED <<rooms, index, sess, open, engines, created, events, crashes, logins,
                    raced, doubled>>
    BY DEF CallObject, redis, counts, history
  <1> QED BY <1>3, <1>5, <1>6 DEF IInv, TypeOK

LEMMA KickTargetInv ==
  ASSUME IInv, NEW t \in Threads, KickTarget(t)
  PROVE  IInv'
  <1> DEFINE op == Head(todo[t])
             s == sess[op.user]
             rest == <<SaveSession(op.user, [s EXCEPT !.room = NoRoom]),
                       RemoveIndex(op.room, op.user), SetLiveRoomByID(op.user)>>
  <1>1. ~Idle(t) /\ op.call = "checkTarget"
    BY DEF KickTarget, Calls
  <1>2. op.room \in Rooms /\ op.user \in Users /\ op.rec \in SoundRecord
    BY <1>1, NextOp, OpCarries
  <1>3. todo' \in [Threads -> Seq(Ops)]
    <2>1. CASE Aborts(t)
      BY <2>1, OpSeqs DEF Aborts, IInv
    <2>2. CASE /\ s # NoSession
               /\ \E left \in Lefts(op.rec, op.user) :
                    Goes(t, StoreLeft(op.room, op.rec, op.user, left) \o rest)
      <3>1. s \in Session
        BY <1>2, <2>2 DEF IInv, TypeOK
      <3>2. [s EXCEPT !.room = NoRoom] \in Session
        BY <3>1 DEF Session
      <3>3. op.user \in Someone
        BY <1>2 DEF Someone
      <3>4. SaveSession(op.user, [s EXCEPT !.room = NoRoom]) \in Ops
            /\ RemoveIndex(op.room, op.user) \in Ops /\ SetLiveRoomByID(op.user) \in Ops
        BY <1>2, <3>2, <3>3, RoomOps, UserOps
      <3>5. rest \in Seq(Ops)
        BY <3>4, OpSeqs
      <3>6. PICK left \in Lefts(op.rec, op.user) :
              Goes(t, StoreLeft(op.room, op.rec, op.user, left) \o rest)
        BY <2>2
      <3>7. StoreLeft(op.room, op.rec, op.user, left) \in Seq(Ops)
        BY <1>2, <3>3, StoreLeftOps
      <3> HIDE DEF op, rest
      <3>8. StoreLeft(op.room, op.rec, op.user, left) \o rest \in Seq(Ops)
        BY <3>5, <3>7, OpSeqs
      <3> QED BY <1>1, <3>6, <3>8, GoesOps
    <2> QED BY <2>1, <2>2 DEF KickTarget
  <1>4. UNCHANGED <<rooms, index, sess, live, mem, open, engines, created, events, crashes,
                    logins, raced, doubled>>
    BY DEF KickTarget, redis, memory, counts, history
  <1> QED BY <1>3, <1>4 DEF IInv, TypeOK

LEMMA ReadRoomForLeaverInv ==
  ASSUME IInv, NEW t \in Threads, ReadRoomForLeaver(t)
  PROVE  IInv'
  <1> DEFINE obj == Head(todo[t]).conn
             u   == mem[obj].user
             r   == mem[obj].room
             rec == IF r = NoRoom THEN NoRecord ELSE rooms[r]
             first == <<RemoveIndex(r, u)>>
             last  == <<Forget(obj), DeleteSession(u)>>
  <1>1. ~Idle(t) /\ Head(todo[t]).call = "readForLeaver"
    BY DEF ReadRoomForLeaver, Calls
  <1>2. obj \in Conns
    BY <1>1, NextOp, OpCarries
  <1>3. u \in Someone /\ r \in Somewhere
    BY <1>2 DEF IInv, TypeOK, Someone, Somewhere
  <1>4. ASSUME rec # NoRecord PROVE r \in Rooms /\ rec \in SoundRecord
    BY <1>3, <1>4, ReadSound DEF Somewhere
  <1>5. /\ \/ Goes(t, <<DeleteSession(u)>>)
           \/ Goes(t, <<SaveObject(obj)>>)
           \/ /\ rec # NoRecord
              /\ \E left \in Lefts(rec, u) :
                   Goes(t, first \o StoreLeft(r, rec, u, left) \o last)
        /\ mem' = mem \/ mem' = [mem EXCEPT ![obj].status = "disconnected"]
    BY DEF ReadRoomForLeaver
  <1>6. UNCHANGED <<rooms, index, sess, live, open, engines, created, events, crashes,
                    logins, raced, doubled>>
    BY DEF ReadRoomForLeaver, redis, counts, history
  <1> HIDE DEF obj, u, r, rec
  <1>7. todo' \in [Threads -> Seq(Ops)]
    <2>1. <<DeleteSession(u)>> \in Seq(Ops) /\ <<SaveObject(obj)>> \in Seq(Ops)
          /\ last \in Seq(Ops)
      BY <1>2, <1>3, ObjectOps, OpSeqs
    <2>2. ASSUME rec # NoRecord, NEW left \in Lefts(rec, u)
          PROVE  first \o StoreLeft(r, rec, u, left) \o last \in Seq(Ops)
      <3>1. first \in Seq(Ops)
        BY <1>3, <1>4, <2>2, RoomOps, OpSeqs
      <3>2. StoreLeft(r, rec, u, left) \in Seq(Ops)
        BY <1>3, <1>4, <2>2, StoreLeftOps
      <3> HIDE DEF first, last
      <3> QED BY <2>1, <3>1, <3>2, OpSeqs
    <2> HIDE DEF first, last
    <2>3. PICK more \in Seq(Ops) : Goes(t, more)
      BY <1>5, <2>1, <2>2
    <2> QED BY <1>1, <2>3, GoesOps
  <1>8. mem' \in [Conns -> [user : Users \cup {NoUser}, room : Rooms \cup {NoRoom},
                            status : Statuses]]
    <2>1. CASE mem' = mem
      BY <2>1 DEF IInv, TypeOK
    <2>2. CASE mem' = [mem EXCEPT ![obj].status = "disconnected"]
      BY <1>2, <2>2 DEF IInv, TypeOK, Statuses
    <2> QED BY <1>5, <2>1, <2>2
  <1> QED BY <1>6, <1>7, <1>8 DEF IInv, TypeOK

LEMMA EndOfMoveInv ==
  ASSUME IInv, NEW t \in Threads, EndOfMove(t)
  PROVE  IInv'
  <1> DEFINE r == Head(todo[t]).room
             ending == <<RemoveEngine(r), SaveRoom(r, Playing(rooms[r], FALSE))>>
  <1>1. ~Idle(t) /\ Head(todo[t]).call = "move"
    BY DEF EndOfMove, Calls
  <1>2. r \in Rooms
    BY <1>1, NextOp, OpCarries
  <1>3. Goes(t, <<>>) \/ (rooms[r] # NoRecord /\ Goes(t, ending))
    BY DEF EndOfMove
  <1> HIDE DEF r
  <1>4. ASSUME rooms[r] # NoRecord PROVE ending \in Seq(Ops)
    <2>1. Playing(rooms[r], FALSE) \in SoundRecord
      BY <1>2, <1>4, ReadSound, PlayingSound
    <2> QED BY <1>2, <2>1, RoomOps, OpSeqs
  <1> HIDE DEF ending
  <1>5. todo' \in [Threads -> Seq(Ops)]
    BY <1>1, <1>3, <1>4, GoesOps, OpSeqs
  <1>6. UNCHANGED <<rooms, index, sess, live, mem, open, engines, created, events, crashes,
                    logins, raced, doubled>>
    BY DEF EndOfMove, redis, memory, counts, history
  <1> QED BY <1>5, <1>6 DEF IInv, TypeOK

LEMMA CallEnginesInv ==
  ASSUME IInv, NEW t \in Threads, CallEngines(t)
  PROVE  IInv'
  <1> DEFINE op == Head(todo[t])
  <1>1. ~Idle(t) /\ op.call \in {"addEngine", "removeEngine"}
    BY DEF CallEngines, Calls
  <1>2. op.room \in Rooms
    BY <1>1, NextOp, OpCarries
  <1>3. todo' \in [Threads -> Seq(Ops)]
    BY <1>1, GoesOps, OpSeqs DEF CallEngines
  <1>4. engines' \subseteq Rooms
    BY <1>2 DEF CallEngines, IInv, TypeOK
  <1>5. UNCHANGED <<rooms, index, sess, live, mem, open, created, events, crashes, logins,
                    raced, doubled>>
    BY DEF CallEngines, redis, counts, history
  <1> QED BY <1>3, <1>4, <1>5 DEF IInv, TypeOK

LEMMA NextInv == IInv /\ [Next]_vars => IInv'
  <1> SUFFICES ASSUME IInv, [Next]_vars PROVE IInv'
    OBVIOUS
  <1>1. ASSUME NEW c \in Conns,
               Disconnect(c) \/ AskToDisconnect(c) \/ \E s \in Statuses : HandleUserUpdate(c, s)
        PROVE  IInv'
    BY <1>1, DisconnectInv, AskToDisconnectInv, UserUpdateInv
  <1>2. ASSUME NEW c \in Conns, NEW u \in Users, HandleUserIdentify(c, u) PROVE IInv'
    BY <1>2, IdentifyInv
  <1>3. ASSUME NEW c \in Conns, NEW r \in Rooms,
               \/ JoinRoom(c, r) \/ LeaveRoom(c, r) \/ SetPlayerReady(c, r)
               \/ StartGame(c, r) \/ EndGame(c, r) \/ ProcessAction(c, r)
        PROVE  IInv'
    BY <1>3, JoinRoomInv, LeaveRoomInv, ReadyInv, GameInv, MoveInv
  <1>4. ASSUME NEW c \in Conns, NEW r \in Rooms, NEW n \in Sizes,
               CreateRoom(c, r, n) \/ \E m \in Modes : UpdateRoom(c, r, n, m)
        PROVE  IInv'
    BY <1>4, CreateRoomInv, UpdateRoomInv
  <1>5. ASSUME NEW c \in Conns, NEW r \in Rooms, NEW u \in Users, KickUser(c, r, u)
        PROVE  IInv'
    BY <1>5, KickUserInv
  <1>6. ASSUME NEW r \in Rooms, TimerExpired(r) PROVE IInv'
    BY <1>6, MoveInv
  <1>10. ASSUME NEW u \in Users, SessionExpires(u) PROVE IInv'
    BY <1>10, SessionExpiresInv
  <1>7. ASSUME NEW t \in Threads, Step(t) PROVE IInv'
    BY <1>7, CallRoomsInv, CallIndexInv, CallSessionInv, ReadSessionInv, CallObjectInv,
       KickTargetInv, ReadRoomForLeaverInv, EndOfMoveInv, CallEnginesInv DEF Step
  <1>8. CASE Crash
    BY <1>8, CrashInv
  <1>9. CASE UNCHANGED vars
    BY <1>9 DEF vars, redis, memory, counts, history, IInv, TypeOK
  <1> QED BY <1>1, <1>2, <1>3, <1>4, <1>5, <1>6, <1>7, <1>8, <1>9, <1>10 DEF Next

LEMMA Invariance == Spec => []IInv
  BY InitInv, NextInv, PTL DEF Spec

-----------------------------------------------------------------------------
\* Rooms, index, sessions and objects are of their types.
THEOREM TypeCorrect == Spec => []TypeOK
  <1>1. IInv => TypeOK
    BY DEF IInv
  <1> QED BY <1>1, Invariance, PTL

\* Every saved room has its host among its players, only players ready, and no
\* more players than it has room for, however handlers overlap and wherever the
\* process dies (room.go:91).
THEOREM SoundRecords == Spec => []RecordsAreSound
  <1>1. IInv => RecordsAreSound
    BY DEF IInv, RecordsAreSound, SoundRecord
  <1> QED BY <1>1, Invariance, PTL

-----------------------------------------------------------------------------
(* Handlers that do not overlap.  At every moment there is a state v that  *)
(* the running handler is on its way to: the four places agree in v, each  *)
(* call that is still to be made writes what v has, and what differs from  *)
(* v is still to be written.  A state is written down as a record.         *)

Objects == [user : Someone, room : Somewhere, status : Statuses]

States == [rooms : [Rooms -> Record \cup {NoRecord}], index : [Rooms -> SUBSET Users],
           sess : [Users -> Session \cup {NoSession}],
           live : [Users -> Conns \cup {NoConn}], mem : [Conns -> Objects],
           engines : SUBSET Rooms]

Now == [rooms |-> rooms, index |-> index, sess |-> sess, live |-> live, mem |-> mem,
        engines |-> engines]

\* What agrees when no handler is running; `opened' and `given' are the values
\* of open and created.
Placed(v, u, r) ==
  r # NoRoom /\ v.rooms[r] # NoRecord => u \in v.rooms[r].players /\ u \in v.index[r]

MembersAgree(v) ==
  \A u \in Users : v.sess[u] # NoSession => Placed(v, u, v.sess[u].room)

ObjectsAgree(v) ==
  \A u \in Users : v.live[u] # NoConn =>
    /\ v.mem[v.live[u]].user = u
    /\ Placed(v, u, v.mem[v.live[u]].room)
    /\ v.sess[u] # NoSession => v.sess[u].room = v.mem[v.live[u]].room

RecordsAgree(v) ==
  \A r \in Rooms : v.rooms[r] # NoRecord =>
    v.index[r] \subseteq v.rooms[r].players /\ (v.rooms[r].started <=> r \in v.engines)

LoopsOwn(v, opened) ==
  /\ \A c \in Conns : opened[c] /\ v.mem[c].user # NoUser =>
       v.live[v.mem[c].user] \in {c, NoConn}
  /\ \A c, d \in Conns : opened[c] /\ opened[d] /\ v.mem[c].user # NoUser
                         /\ v.mem[c].user = v.mem[d].user => c = d

OthersBlank(v, given) ==
  \A r \in Rooms \ given :
    /\ v.rooms[r] = NoRecord /\ v.index[r] = {} /\ r \notin v.engines
    /\ \A u \in Users : v.sess[u] # NoSession => v.sess[u].room # r
    /\ \A c \in Conns : v.mem[c].room # r

Agree(v, opened, given) ==
  /\ MembersAgree(v) /\ ObjectsAgree(v) /\ RecordsAgree(v)
  /\ LoopsOwn(v, opened) /\ OthersBlank(v, given)

\* In state x, the call op brings what it writes to its value in v.
KeepsRoom(op, x, v) ==
  /\ op.call = "saveRoom" => v.rooms[op.room] = op.rec
  /\ op.call = "deleteRoom" => v.rooms[op.room] = NoRecord

KeepsIndex(op, x, v) ==
  /\ op.call = "addIndex" => op.user \in v.index[op.room]
  /\ op.call = "removeIndex" => op.user \notin v.index[op.room]
  /\ op.call = "deleteIndex" => v.index[op.room] = {}
  /\ /\ op.call = "sessionMove" /\ x.sess[op.user] # NoSession
     /\ x.sess[op.user].room \notin {NoRoom, op.room}
     => op.user \notin v.index[x.sess[op.user].room]

KeepsSession(op, x, v) ==
  /\ op.call \in {"sessionRoom", "sessionMove"} =>
       v.sess[op.user] = IF x.sess[op.user] = NoSession THEN NoSession
                         ELSE [x.sess[op.user] EXCEPT !.room = op.room]
  /\ op.call = "saveSession" => v.sess[op.user] = op.rec
  /\ op.call = "saveObject" =>
       /\ v.mem[op.conn].user \in Users
       /\ v.sess[v.mem[op.conn].user] =
            [room |-> v.mem[op.conn].room, status |-> v.mem[op.conn].status]
  /\ op.call = "deleteSession" => op.user \in Users /\ v.sess[op.user] = NoSession

KeepsObject(op, x, v) ==
  /\ op.call = "claim" =>
       /\ v.mem[op.conn] = [user |-> op.user, room |-> op.room, status |-> "connected"]
       /\ v.live[op.user] = op.conn
  /\ op.call = "setLiveRoom" =>
       /\ v.mem[op.conn] = [x.mem[op.conn] EXCEPT !.room = op.room]
       /\ x.mem[op.conn].user \in Users /\ v.live[x.mem[op.conn].user] = op.conn
  /\ op.call = "setLiveRoomByID" =>
       /\ v.live[op.user] = x.live[op.user]
       /\ \A c \in Conns : x.live[op.user] = c => v.mem[c] = [x.mem[c] EXCEPT !.room = NoRoom]
  /\ op.call = "forget" =>
       v.mem[op.conn] = [x.mem[op.conn] EXCEPT !.room = NoRoom, !.status = "disconnected"]
  /\ op.call = "setStatus" =>
       v.mem[op.conn] = [x.mem[op.conn] EXCEPT !.status = op.status]

KeepsEngine(op, x, v) ==
  /\ op.call = "addEngine" => op.room \in v.engines
  /\ op.call = "removeEngine" => op.room \notin v.engines

\* What a call that only reads was given, or will find.
KeepsRead(op, x, v) ==
  /\ op.call = "checkTarget" => op.rec = x.rooms[op.room] /\ x.rooms[op.room] # NoRecord
  /\ op.call = "readForLeaver" =>
       /\ x.mem[op.conn].user \in Users /\ x.mem[op.conn].room \in Rooms
       /\ x.live[x.mem[op.conn].user] = NoConn
       /\ x.sess[x.mem[op.conn].user] # NoSession =>
            x.sess[x.mem[op.conn].user].room = x.mem[op.conn].room
       /\ Placed(x, x.mem[op.conn].user, x.mem[op.conn].room)

Keeps(op, x, v) ==
  /\ KeepsRoom(op, x, v) /\ KeepsIndex(op, x, v) /\ KeepsSession(op, x, v)
  /\ KeepsObject(op, x, v) /\ KeepsEngine(op, x, v) /\ KeepsRead(op, x, v)

WritesRoom(op, r) == op.call \in {"saveRoom", "deleteRoom"} /\ op.room = r
WritesIndex(op, r, u, x) ==
  \/ op.call \in {"addIndex", "removeIndex"} /\ op.room = r /\ op.user = u
  \/ op.call = "deleteIndex" /\ op.room = r
  \/ /\ op.call = "sessionMove" /\ op.user = u /\ op.room # r
     /\ x.sess[u] # NoSession /\ x.sess[u].room = r
WritesSession(op, u, v) ==
  \/ op.call \in {"sessionRoom", "sessionMove", "saveSession", "deleteSession"} /\ op.user = u
  \/ op.call = "saveObject" /\ v.mem[op.conn].user = u
WritesObject(op, c, v) ==
  \/ op.call \in {"claim", "setLiveRoom", "setStatus", "forget"} /\ op.conn = c
  \/ op.call = "setLiveRoomByID" /\ v.live[op.user] = c
WritesLive(op, u)   == op.call = "claim" /\ op.user = u
WritesEngine(op, r) == op.call \in {"addEngine", "removeEngine"} /\ op.room = r

\* Of x, only what the calls P write differs from v.
Reached(P, x, v) ==
  /\ \A r \in Rooms : (\E op \in P : WritesRoom(op, r)) \/ x.rooms[r] = v.rooms[r]
  /\ \A r \in Rooms, u \in Users :
       (\E op \in P : WritesIndex(op, r, u, x)) \/ (u \in x.index[r] <=> u \in v.index[r])
  /\ \A u \in Users : (\E op \in P : WritesSession(op, u, v)) \/ x.sess[u] = v.sess[u]
  /\ \A c \in Conns : (\E op \in P : WritesObject(op, c, v)) \/ x.mem[c] = v.mem[c]
  /\ \A u \in Users : (\E op \in P : WritesLive(op, u)) \/ x.live[u] = v.live[u]
  /\ \A r \in Rooms :
       (\E op \in P : WritesEngine(op, r)) \/ (r \in x.engines <=> r \in v.engines)

Leads(P, x, v) == (\A op \in P : Keeps(op, x, v)) /\ Reached(P, x, v)

\* What the order of a handler's calls must respect: a is made before b.
Reads == {"checkTarget", "readForLeaver", "move"}
InOrder(a, b) ==
  /\ a.call \notin Reads /\ b.call \notin Reads \cup {"claim"}
  /\ b.call = "sessionMove" => a.call = "saveRoom"
  /\ a.call = "saveObject" => b.call = "addIndex"

Ordered(s) == \A i, j \in 1 .. Len(s) : i < j => InOrder(s[i], s[j])
Elems(s)   == { s[i] : i \in 1 .. Len(s) }

Calm == ~raced /\ ~doubled /\ crashes = 0

Alone(t) == \A s \in Threads : s # t => Idle(s)

SInv ==
  Calm => \E t \in Threads, v \in States :
            /\ Alone(t) /\ Ordered(todo[t])
            /\ Agree(v, open, created) /\ Leads(Elems(todo[t]), Now, v)

-----------------------------------------------------------------------------
(* The calls of a sequence, and their order. *)

LEMMA ElemsOfTuples ==
  /\ Elems(<<>>) = {} /\ Ordered(<<>>)
  /\ \A a : Elems(<<a>>) = {a} /\ Ordered(<<a>>)
  /\ \A a, b : Elems(<<a, b>>) = {a, b}
  /\ \A a, b, c : Elems(<<a, b, c>>) = {a, b, c}
  /\ \A a, b, c, d : Elems(<<a, b, c, d>>) = {a, b, c, d}
  BY DEF Elems, Ordered

LEMMA ElemsOfConcat ==
  ASSUME NEW p \in Seq(Ops), NEW q \in Seq(Ops)
  PROVE  Elems(p \o q) = Elems(p) \cup Elems(q)
  <1> DEFINE n == Len(p)
             m == Len(q)
  <1>1. /\ n \in Nat /\ m \in Nat /\ Len(p \o q) = n + m
        /\ \A i \in 1 .. n + m : (p \o q)[i] = IF i <= n THEN p[i] ELSE q[i - n]
    BY ConcatProperties, LenProperties
  <1>2. ASSUME NEW a \in Elems(p) PROVE a \in Elems(p \o q)
    <2>1. PICK i \in 1 .. n : a = p[i]
      BY DEF Elems
    <2>2. i \in 1 .. n + m /\ (p \o q)[i] = a
      BY <1>1, <2>1
    <2> QED BY <1>1, <2>2 DEF Elems
  <1>3. ASSUME NEW a \in Elems(q) PROVE a \in Elems(p \o q)
    <2>1. PICK i \in 1 .. m : a = q[i]
      BY DEF Elems
    <2>2. n + i \in 1 .. n + m /\ (p \o q)[n + i] = a
      BY <1>1, <2>1
    <2> QED BY <1>1, <2>2 DEF Elems
  <1>4. ASSUME NEW a \in Elems(p \o q) PROVE a \in Elems(p) \cup Elems(q)
    <2>1. PICK i \in 1 .. n + m : a = (p \o q)[i]
      BY <1>1 DEF Elems
    <2>2. CASE i <= n
      BY <1>1, <2>1, <2>2 DEF Elems
    <2>3. CASE i > n
      <3>1. i - n \in 1 .. m /\ a = q[i - n]
        BY <1>1, <2>1, <2>3
      <3> QED BY <3>1 DEF Elems
    <2> QED BY <1>1, <2>1, <2>2, <2>3
  <1> QED BY <1>2, <1>3, <1>4

LEMMA ElemsOfNonempty ==
  ASSUME NEW s \in Seq(Ops), s # <<>>
  PROVE  /\ Head(s) \in Ops /\ Tail(s) \in Seq(Ops)
         /\ Elems(s) = {Head(s)} \cup Elems(Tail(s))
         /\ Elems(Tail(s)) \subseteq Ops
  <1> DEFINE q == Tail(s)
             n == Len(s)
  <1>1. /\ n \in Nat /\ n > 0 /\ Len(q) = n - 1 /\ q \in Seq(Ops)
        /\ \A i \in 1 .. Len(q) : q[i] = s[i + 1]
        /\ Head(s) = s[1] /\ \A i \in 1 .. n : s[i] \in Ops
    BY EmptySeq, LenProperties
  <1> HIDE DEF q
  <1>2. ASSUME NEW a \in Elems(s) PROVE a \in {s[1]} \cup Elems(q)
    <2>1. PICK i \in 1 .. n : a = s[i]
      BY DEF Elems
    <2>2. CASE i # 1
      <3>1. i - 1 \in 1 .. Len(q) /\ a = q[i - 1]
        BY <1>1, <2>1, <2>2
      <3> QED BY <3>1 DEF Elems
    <2> QED BY <2>1, <2>2
  <1>3. ASSUME NEW a \in Elems(q) PROVE a \in Elems(s) /\ a \in Ops
    <2>1. PICK i \in 1 .. Len(q) : a = q[i]
      BY DEF Elems
    <2>2. i + 1 \in 1 .. n /\ a = s[i + 1]
      BY <1>1, <2>1
    <2> QED BY <1>1, <2>2 DEF Elems
  <1>4. s[1] \in Elems(s) /\ s[1] \in Ops
    BY <1>1 DEF Elems
  <1> QED BY <1>1, <1>2, <1>3, <1>4 DEF q

LEMMA OrderOfConcat ==
  ASSUME NEW p \in Seq(Ops), NEW q \in Seq(Ops), Ordered(p), Ordered(q),
         \A a \in Elems(p), b \in Elems(q) : InOrder(a, b)
  PROVE  Ordered(p \o q)
  <1> DEFINE n == Len(p)
             m == Len(q)
             w == p \o q
  <1>1. /\ n \in Nat /\ m \in Nat /\ Len(w) = n + m
        /\ \A i \in 1 .. n + m : w[i] = IF i <= n THEN p[i] ELSE q[i - n]
    BY ConcatProperties, LenProperties
  <1> HIDE DEF w
  <1>2. ASSUME NEW i \in 1 .. n + m, NEW j \in 1 .. n + m, i < j PROVE InOrder(w[i], w[j])
    <2>1. CASE j <= n
      <3>1. i \in 1 .. n /\ j \in 1 .. n /\ w[i] = p[i] /\ w[j] = p[j]
        BY <1>1, <1>2, <2>1
      <3> QED BY <1>2, <3>1 DEF Ordered
    <2>2. CASE i > n
      <3>1. i - n \in 1 .. m /\ j - n \in 1 .. m /\ i - n < j - n
            /\ w[i] = q[i - n] /\ w[j] = q[j - n]
        BY <1>1, <1>2, <2>2
      <3> QED BY <3>1 DEF Ordered
    <2>3. CASE i <= n /\ j > n
      <3>1. i \in 1 .. n /\ j - n \in 1 .. m /\ w[i] = p[i] /\ w[j] = q[j - n]
        BY <1>1, <1>2, <2>3
      <3>2. w[i] \in Elems(p) /\ w[j] \in Elems(q)
        BY <3>1 DEF Elems
      <3> QED BY <3>2
    <2> QED BY <1>1, <2>1, <2>2, <2>3
  <1> QED BY <1>1, <1>2 DEF Ordered, w

LEMMA OrderOfNonempty ==
  ASSUME NEW s \in Seq(Ops), s # <<>>, Ordered(s)
  PROVE  Ordered(Tail(s)) /\ \A b \in Elems(Tail(s)) : InOrder(Head(s), b)
  <1> DEFINE q == Tail(s)
  <1>1. /\ Len(s) \in Nat /\ Len(s) > 0 /\ Len(q) = Len(s) - 1
        /\ \A i \in 1 .. Len(q) : q[i] = s[i + 1]
        /\ Head(s) = s[1]
    BY HeadTailProperties, EmptySeq, LenProperties
  <1> HIDE DEF q
  <1>2. ASSUME NEW i \in 1 .. Len(q), NEW j \in 1 .. Len(q), i < j PROVE InOrder(q[i], q[j])
    <2>1. i + 1 \in 1 .. Len(s) /\ j + 1 \in 1 .. Len(s) /\ i + 1 < j + 1
      BY <1>1, <1>2
    <2> QED BY <1>1, <2>1 DEF Ordered
  <1>3. ASSUME NEW i \in 1 .. Len(q) PROVE InOrder(s[1], q[i])
    <2>1. 1 \in 1 .. Len(s) /\ i + 1 \in 1 .. Len(s) /\ 1 < i + 1
      BY <1>1
    <2> QED BY <1>1, <2>1 DEF Ordered
  <1>4. Ordered(q) /\ \A b \in Elems(q) : InOrder(s[1], b)
    BY <1>2, <1>3 DEF Ordered, Elems
  <1> QED BY <1>1, <1>4 DEF q

\* Calls with no read, object save or move among them may come in any order.
LEMMA OrderOfPlain ==
  ASSUME NEW s,
         \A op \in Elems(s) :
           op.call \notin Reads \cup {"claim", "sessionMove", "saveObject"}
  PROVE  Ordered(s)
  BY DEF Elems, Ordered, InOrder

-----------------------------------------------------------------------------
(* What the calls of one handler do to each other. *)

LEMMA StateTypes ==
  ASSUME NEW x \in States
  PROVE  /\ x.rooms \in [Rooms -> Record \cup {NoRecord}]
         /\ x.index \in [Rooms -> SUBSET Users]
         /\ x.sess \in [Users -> Session \cup {NoSession}]
         /\ x.live \in [Users -> Conns \cup {NoConn}]
         /\ x.mem \in [Conns -> Objects]
         /\ x.engines \in SUBSET Rooms
         /\ x = [rooms |-> x.rooms, index |-> x.index, sess |-> x.sess, live |-> x.live,
                  mem |-> x.mem, engines |-> x.engines]
  BY DEF States

\* A handler that has no write left has reached v.
LEMMA Settled ==
  ASSUME NEW x \in States, NEW v \in States, NEW P \in SUBSET Ops, Reached(P, x, v),
         \A op \in P : op.call \in Reads
  PROVE  x = v
  <1>1. \A op \in P : op.call \notin
          {"saveRoom", "deleteRoom", "addIndex", "removeIndex", "deleteIndex", "sessionRoom",
           "sessionMove", "saveSession", "saveObject", "deleteSession", "claim",
           "setLiveRoom", "setLiveRoomByID", "setStatus", "forget", "addEngine", "removeEngine"}
    BY DEF Reads
  <1>2. /\ \A r \in Rooms : x.rooms[r] = v.rooms[r]
        /\ \A u \in Users : x.sess[u] = v.sess[u] /\ x.live[u] = v.live[u]
        /\ \A c \in Conns : x.mem[c] = v.mem[c]
    BY <1>1 DEF Reached, WritesRoom, WritesSession, WritesLive, WritesObject
  <1>3. \A r \in Rooms, u \in Users : u \in x.index[r] <=> u \in v.index[r]
    BY <1>1 DEF Reached, WritesIndex
  <1>4. \A r \in Rooms : r \in x.engines <=> r \in v.engines
    BY <1>1 DEF Reached, WritesEngine
  <1>5. x.rooms = v.rooms /\ x.sess = v.sess /\ x.live = v.live /\ x.mem = v.mem
    BY <1>2, StateTypes
  <1>6. x.index = v.index
    <2>1. ASSUME NEW r \in Rooms PROVE x.index[r] = v.index[r]
      <3>1. x.index[r] \in SUBSET Users /\ v.index[r] \in SUBSET Users
        BY StateTypes
      <3> QED BY <1>3, <3>1
    <2> QED BY <2>1, StateTypes
  <1>7. x.engines = v.engines
    BY <1>4, StateTypes
  <1> QED BY <1>5, <1>6, <1>7, StateTypes

\* A state that is what it leads to needs nothing written.
LEMMA ReachedItself ==
  ASSUME NEW x, NEW P
  PROVE  Reached(P, x, x)
  BY DEF Reached

\* From x to y the call op, and nothing else, is made; v is where that leads.
Makes(op, x, y, v) ==
  /\ \A r \in Rooms : y.rooms[r] = x.rooms[r] \/ y.rooms[r] = v.rooms[r]
  /\ \A r \in Rooms : WritesRoom(op, r) => y.rooms[r] = v.rooms[r]
  /\ \A r \in Rooms, u \in Users :
       (u \in y.index[r] <=> u \in x.index[r]) \/ (u \in y.index[r] <=> u \in v.index[r])
  /\ \A r \in Rooms, u \in Users :
       WritesIndex(op, r, u, x) => (u \in y.index[r] <=> u \in v.index[r])
  /\ \A u \in Users : y.sess[u] = x.sess[u] \/ y.sess[u] = v.sess[u]
  /\ \A u \in Users : WritesSession(op, u, v) => y.sess[u] = v.sess[u]
  /\ op.call = "saveRoom" => y.sess = x.sess
  /\ \A c \in Conns : y.mem[c] = x.mem[c] \/ y.mem[c] = v.mem[c]
  /\ \A c \in Conns : WritesObject(op, c, v) => y.mem[c] = v.mem[c]
  /\ \A u \in Users : y.live[u] = x.live[u] \/ y.live[u] = v.live[u]
  /\ \A u \in Users : WritesLive(op, u) => y.live[u] = v.live[u]
  /\ \A r \in Rooms :
       (r \in y.engines <=> r \in x.engines) \/ (r \in y.engines <=> r \in v.engines)
  /\ \A r \in Rooms : WritesEngine(op, r) => (r \in y.engines <=> r \in v.engines)

\* What a pending call promises stays promised while calls before it are made.
LEMMA KeepsAfter ==
  ASSUME NEW x \in States, NEW y \in States, NEW v \in States,
         NEW op \in Ops, NEW b \in Ops, InOrder(op, b), Makes(op, x, y, v), Keeps(b, x, v)
  PROVE  Keeps(b, y, v)
  <1> USE DEF Keeps
  <1>1. b.call \notin {"checkTarget", "readForLeaver", "move", "claim"}
    BY DEF InOrder, Reads
  <1>2. KeepsRoom(b, y, v) /\ KeepsEngine(b, y, v)
    BY DEF KeepsRoom, KeepsEngine
  <1>3. KeepsIndex(b, y, v)
    <2>1. b.call = "sessionMove" => y.sess = x.sess
      BY DEF InOrder, Makes
    <2> QED BY <2>1 DEF KeepsIndex
  <1>4. KeepsSession(b, y, v)
    <2>1. ASSUME b.call \in {"sessionRoom", "sessionMove"}
          PROVE  v.sess[b.user] = IF y.sess[b.user] = NoSession THEN NoSession
                                  ELSE [y.sess[b.user] EXCEPT !.room = b.room]
      <3>1. b.user \in Users /\ b.room \in Somewhere
        BY <2>1, OpCarries
      <3>2. x.sess[b.user] \in Session \cup {NoSession}
            /\ v.sess[b.user] = IF x.sess[b.user] = NoSession THEN NoSession
                                ELSE [x.sess[b.user] EXCEPT !.room = b.room]
        BY <2>1, <3>1, StateTypes DEF KeepsSession
      <3>3. y.sess[b.user] = x.sess[b.user] \/ y.sess[b.user] = v.sess[b.user]
        BY <3>1 DEF Makes
      <3>4. CASE x.sess[b.user] = NoSession
        BY <3>2, <3>3, <3>4
      <3>5. CASE x.sess[b.user] \in Session
        <4>1. x.sess[b.user] # NoSession
          BY <3>5, SessionAssumption
        <4>2. v.sess[b.user] \in Session
              /\ v.sess[b.user] = [v.sess[b.user] EXCEPT !.room = b.room]
          BY <3>1, <3>2, <3>5, <4>1 DEF Session, Somewhere
        <4> QED BY <3>2, <3>3, <4>1, <4>2, SessionAssumption
      <3> QED BY <3>2, <3>4, <3>5
    <2> QED BY <2>1 DEF KeepsSession
  <1>5. KeepsObject(b, y, v)
    <2>1. ASSUME b.call = "setLiveRoom"
          PROVE  /\ v.mem[b.conn] = [y.mem[b.conn] EXCEPT !.room = b.room]
                 /\ y.mem[b.conn].user \in Users /\ v.live[y.mem[b.conn].user] = b.conn
      <3>1. b.conn \in Conns /\ b.room \in Somewhere
        BY <2>1, OpCarries
      <3>2. x.mem[b.conn] \in Objects
            /\ v.mem[b.conn] = [x.mem[b.conn] EXCEPT !.room = b.room]
            /\ x.mem[b.conn].user \in Users /\ v.live[x.mem[b.conn].user] = b.conn
        BY <2>1, <3>1, StateTypes DEF KeepsObject
      <3>3. v.mem[b.conn] = [v.mem[b.conn] EXCEPT !.room = b.room]
            /\ v.mem[b.conn].user = x.mem[b.conn].user
        BY <3>2 DEF Objects
      <3>4. y.mem[b.conn] = x.mem[b.conn] \/ y.mem[b.conn] = v.mem[b.conn]
        BY <3>1 DEF Makes
      <3> QED BY <3>2, <3>3, <3>4
    <2>2. ASSUME b.call = "setLiveRoomByID"
          PROVE  /\ v.live[b.user] = y.live[b.user]
                 /\ \A c \in Conns : y.live[b.user] = c =>
                      v.mem[c] = [y.mem[c] EXCEPT !.room = NoRoom]
      <3>1. b.user \in Users
        BY <2>2, OpCarries
      <3>2. v.live[b.user] = x.live[b.user] /\ y.live[b.user] = x.live[b.user]
        BY <2>2, <3>1 DEF KeepsObject, Makes
      <3>3. ASSUME NEW c \in Conns, y.live[b.user] = c
            PROVE  v.mem[c] = [y.mem[c] EXCEPT !.room = NoRoom]
        <4>1. x.mem[c] \in Objects /\ v.mem[c] = [x.mem[c] EXCEPT !.room = NoRoom]
          BY <2>2, <3>2, <3>3, StateTypes DEF KeepsObject
        <4>2. v.mem[c] = [v.mem[c] EXCEPT !.room = NoRoom]
          BY <4>1 DEF Objects
        <4>3. y.mem[c] = x.mem[c] \/ y.mem[c] = v.mem[c]
          BY DEF Makes
        <4> QED BY <4>1, <4>2, <4>3
      <3> QED BY <3>2, <3>3
    <2>3. ASSUME b.call = "forget"
          PROVE  v.mem[b.conn] =
                   [y.mem[b.conn] EXCEPT !.room = NoRoom, !.status = "disconnected"]
      <3>1. b.conn \in Conns
        BY <2>3, OpCarries
      <3>2. x.mem[b.conn] \in Objects
            /\ v.mem[b.conn] =
                 [x.mem[b.conn] EXCEPT !.room = NoRoom, !.status = "disconnected"]
        BY <2>3, <3>1, StateTypes DEF KeepsObject
      <3>3. v.mem[b.conn] =
              [v.mem[b.conn] EXCEPT !.room = NoRoom, !.status = "disconnected"]
        BY <3>2 DEF Objects
      <3>4. y.mem[b.conn] = x.mem[b.conn] \/ y.mem[b.conn] = v.mem[b.conn]
        BY <3>1 DEF Makes
      <3> QED BY <3>2, <3>3, <3>4
    <2>4. ASSUME b.call = "setStatus"
          PROVE  v.mem[b.conn] = [y.mem[b.conn] EXCEPT !.status = b.status]
      <3>1. b.conn \in Conns
        BY <2>4, OpCarries
      <3>2. x.mem[b.conn] \in Objects
            /\ v.mem[b.conn] = [x.mem[b.conn] EXCEPT !.status = b.status]
        BY <2>4, <3>1, StateTypes DEF KeepsObject
      <3>3. v.mem[b.conn] = [v.mem[b.conn] EXCEPT !.status = b.status]
        BY <3>2 DEF Objects
      <3>4. y.mem[b.conn] = x.mem[b.conn] \/ y.mem[b.conn] = v.mem[b.conn]
        BY <3>1 DEF Makes
      <3> QED BY <3>2, <3>3, <3>4
    <2> QED BY <1>1, <2>1, <2>2, <2>3, <2>4 DEF KeepsObject
  <1>6. KeepsRead(b, y, v)
    BY <1>1 DEF KeepsRead
  <1> QED BY <1>2, <1>3, <1>4, <1>5, <1>6

LEMMA MakesOne ==
  ASSUME NEW x \in States, NEW y \in States, NEW v \in States,
         NEW op \in Ops, NEW Q \in SUBSET Ops, \A b \in Q : InOrder(op, b),
         Makes(op, x, y, v), Leads({op} \cup Q, x, v)
  PROVE  Leads(Q, y, v)
  <1> DEFINE P == {op} \cup Q
  <1>1. \A b \in Q : Keeps(b, y, v)
    BY KeepsAfter DEF Leads
  <1>2. Reached(P, x, v)
    BY DEF Leads
  <1>3. ASSUME NEW r \in Rooms
        PROVE  (\E b \in Q : WritesRoom(b, r)) \/ y.rooms[r] = v.rooms[r]
    <2>1. (\E b \in P : WritesRoom(b, r)) \/ x.rooms[r] = v.rooms[r]
      BY <1>2 DEF Reached
    <2> QED BY <2>1 DEF Makes
  <1>4. ASSUME NEW r \in Rooms, NEW u \in Users
        PROVE  (\E b \in Q : WritesIndex(b, r, u, y)) \/ (u \in y.index[r] <=> u \in v.index[r])
    <2>1. (\E b \in P : WritesIndex(b, r, u, x)) \/ (u \in x.index[r] <=> u \in v.index[r])
      BY <1>2 DEF Reached
    <2>2. ASSUME NEW b \in Q, WritesIndex(b, r, u, x) PROVE WritesIndex(b, r, u, y)
      <3>1. b.call = "sessionMove" => y.sess = x.sess
        BY DEF Makes, InOrder
      <3> QED BY <2>2, <3>1 DEF WritesIndex
    <2> QED BY <2>1, <2>2 DEF Makes
  <1>5. ASSUME NEW u \in Users
        PROVE  (\E b \in Q : WritesSession(b, u, v)) \/ y.sess[u] = v.sess[u]
    <2>1. (\E b \in P : WritesSession(b, u, v)) \/ x.sess[u] = v.sess[u]
      BY <1>2 DEF Reached
    <2> QED BY <2>1 DEF Makes
  <1>6. ASSUME NEW c \in Conns
        PROVE  (\E b \in Q : WritesObject(b, c, v)) \/ y.mem[c] = v.mem[c]
    <2>1. (\E b \in P : WritesObject(b, c, v)) \/ x.mem[c] = v.mem[c]
      BY <1>2 DEF Reached
    <2> QED BY <2>1 DEF Makes
  <1>7. ASSUME NEW u \in Users
        PROVE  (\E b \in Q : WritesLive(b, u)) \/ y.live[u] = v.live[u]
    <2>1. (\E b \in P : WritesLive(b, u)) \/ x.live[u] = v.live[u]
      BY <1>2 DEF Reached
    <2> QED BY <2>1 DEF Makes
  <1>8. ASSUME NEW r \in Rooms
        PROVE  (\E b \in Q : WritesEngine(b, r)) \/ (r \in y.engines <=> r \in v.engines)
    <2>1. (\E b \in P : WritesEngine(b, r)) \/ (r \in x.engines <=> r \in v.engines)
      BY <1>2 DEF Reached
    <2> QED BY <2>1 DEF Makes
  <1>9. Reached(Q, y, v)
    BY <1>3, <1>4, <1>5, <1>6, <1>7, <1>8 DEF Reached
  <1> QED BY <1>1, <1>9 DEF Leads

-----------------------------------------------------------------------------
(* The calls as steps. *)

LEMMA NowIsState == IInv => Now \in States
  <1> SUFFICES ASSUME IInv PROVE Now \in States
    OBVIOUS
  <1>1. rooms \in [Rooms -> Record \cup {NoRecord}]
    BY DEF IInv, TypeOK
  <1>2. mem \in [Conns -> Objects]
    BY DEF IInv, TypeOK, Objects, Someone, Somewhere
  <1>3. /\ index \in [Rooms -> SUBSET Users] /\ sess \in [Users -> Session \cup {NoSession}]
        /\ live \in [Users -> Conns \cup {NoConn}] /\ engines \in SUBSET Rooms
    BY DEF IInv, TypeOK
  <1> QED BY <1>1, <1>2, <1>3 DEF Now, States

LEMMA NextIsState == IInv' => Now' \in States
  <1>1. (IInv => Now \in States)'
    BY NowIsState, PTL
  <1> QED BY <1>1 DEF States

\* The thread that has calls to make is the one SInv speaks of.
LEMMA Running ==
  ASSUME IInv, SInv, Calm, NEW t \in Threads, ~Idle(t)
  PROVE  /\ todo[t] \in Seq(Ops) /\ todo[t] # <<>> /\ Alone(t) /\ Ordered(todo[t])
         /\ \E v \in States : Agree(v, open, created) /\ Leads(Elems(todo[t]), Now, v)
  <1>1. PICK s \in Threads : \E v \in States :
          /\ Alone(s) /\ Ordered(todo[s])
          /\ Agree(v, open, created) /\ Leads(Elems(todo[s]), Now, v)
    BY DEF SInv
  <1>2. s = t
    BY <1>1 DEF Alone
  <1>3. todo[t] \in Seq(Ops) /\ todo[t] # <<>>
    BY DEF IInv, Idle
  <1> QED BY <1>1, <1>2, <1>3

\* When none has, the four places agree as they are.
LEMMA Resting ==
  ASSUME IInv, SInv, Calm, Quiet
  PROVE  Agree(Now, open, created)
  <1>1. PICK s \in Threads, v \in States :
          Agree(v, open, created) /\ Leads(Elems(todo[s]), Now, v)
    BY DEF SInv
  <1>2. Elems(todo[s]) = {}
    BY ElemsOfTuples DEF Quiet, Idle
  <1>3. Now = v
    BY <1>1, <1>2, NowIsState, Settled DEF Leads
  <1> QED BY <1>1, <1>3

\* The same when the one handler has a read before it.
LEMMA BeforeRead ==
  ASSUME IInv, SInv, Calm, NEW t \in Threads, ~Idle(t), Head(todo[t]).call \in Reads
  PROVE  /\ Tail(todo[t]) = <<>> /\ Alone(t) /\ Head(todo[t]) \in Ops
         /\ Agree(Now, open, created) /\ Keeps(Head(todo[t]), Now, Now)
  <1> DEFINE op == Head(todo[t])
             Q == Elems(Tail(todo[t]))
  <1>1. /\ todo[t] \in Seq(Ops) /\ todo[t] # <<>> /\ Alone(t) /\ Ordered(todo[t])
    BY Running
  <1>2. PICK v \in States : Agree(v, open, created) /\ Leads(Elems(todo[t]), Now, v)
    BY Running
  <1>3. /\ op \in Ops /\ Elems(todo[t]) = {op} \cup Q /\ Q \subseteq Ops
        /\ Tail(todo[t]) \in Seq(Ops)
    BY <1>1, ElemsOfNonempty
  <1>4. Q = {}
    <2>1. \A b \in Q : InOrder(op, b)
      BY <1>1, OrderOfNonempty
    <2> QED BY <2>1 DEF InOrder
  <1>5. Tail(todo[t]) = <<>>
    <2> DEFINE q == Tail(todo[t])
    <2>1. Len(q) \in Nat
      BY <1>3, LenProperties
    <2> HIDE DEF q
    <2>2. Elems(q) = {}
      BY <1>4 DEF q
    <2>3. 1 \notin 1 .. Len(q)
      BY <2>2 DEF Elems
    <2>4. Len(q) = 0
      BY <2>1, <2>3
    <2> QED BY <1>3, <2>4, EmptySeq DEF q
  <1>6. Now = v
    <2>1. Reached({op}, Now, v)
      BY <1>2, <1>3, <1>4 DEF Leads
    <2> HIDE DEF op
    <2> QED BY <1>3, <2>1, NowIsState, Settled DEF op
  <1>7. Keeps(op, Now, v)
    BY <1>2, <1>3 DEF Leads
  <1> QED BY <1>1, <1>2, <1>3, <1>5, <1>6, <1>7

\* A call is made; the state the handler leads to stays.
LEMMA CallMade ==
  ASSUME IInv, IInv', SInv, NEW t \in Threads, ~Idle(t), Goes(t, <<>>),
         UNCHANGED <<open, created, crashes, raced, doubled>>,
         Calm => \A v \in States : Leads(Elems(todo[t]), Now, v) =>
                   Makes(Head(todo[t]), Now, Now', v)
  PROVE  SInv'
  <1> SUFFICES ASSUME Calm PROVE SInv'
    BY DEF SInv, Calm
  <1> DEFINE op == Head(todo[t])
             q == Tail(todo[t])
  <1>1. /\ todo[t] \in Seq(Ops) /\ todo[t] # <<>> /\ Alone(t) /\ Ordered(todo[t])
    BY Running
  <1>2. PICK v \in States : Agree(v, open, created) /\ Leads(Elems(todo[t]), Now, v)
    BY Running
  <1>3. /\ op \in Ops /\ q \in Seq(Ops) /\ Elems(todo[t]) = {op} \cup Elems(q)
        /\ Elems(q) \in SUBSET Ops
    BY <1>1, ElemsOfNonempty
  <1>4. Ordered(q) /\ \A b \in Elems(q) : InOrder(op, b)
    BY <1>1, OrderOfNonempty
  <1>5. todo' = [todo EXCEPT ![t] = q] /\ todo'[t] = q
    <2>1. <<>> \o q = q
      BY <1>3, ConcatEmptySeq
    <2> QED BY <2>1 DEF Goes, IInv
  <1>6. Alone(t)'
    BY <1>1, <1>5 DEF Alone, Idle, IInv
  <1>7. Leads(Elems(q), Now', v)
    <2>1. Now \in States /\ Now' \in States
      BY NowIsState, NextIsState
    <2>2. Makes(op, Now, Now', v) /\ Leads({op} \cup Elems(q), Now, v)
      BY <1>2, <1>3
    <2> QED BY <1>3, <1>4, <2>1, <2>2, MakesOne
  <1> HIDE DEF q
  <1>8. Agree(v, open', created')
    BY <1>2
  <1>9. /\ Alone(t)' /\ Ordered(todo'[t])
        /\ Agree(v, open', created') /\ Leads(Elems(todo'[t]), Now', v)
    BY <1>4, <1>5, <1>6, <1>7, <1>8
  <1> QED BY <1>9 DEF SInv

\* The call at the head, with what it has promised.
LEMMA CallAtHead ==
  ASSUME IInv, SInv, Calm, NEW t \in Threads, ~Idle(t),
         NEW v \in States, Leads(Elems(todo[t]), Now, v)
  PROVE  /\ Head(todo[t]) \in Ops /\ Keeps(Head(todo[t]), Now, v)
         /\ \A b \in Elems(Tail(todo[t])) : InOrder(Head(todo[t]), b)
         /\ Elems(todo[t]) = {Head(todo[t])} \cup Elems(Tail(todo[t]))
  <1>1. /\ todo[t] \in Seq(Ops) /\ todo[t] # <<>> /\ Ordered(todo[t])
    BY Running
  <1>2. /\ Head(todo[t]) \in Ops
        /\ Elems(todo[t]) = {Head(todo[t])} \cup Elems(Tail(todo[t]))
    BY <1>1, ElemsOfNonempty
  <1> QED BY <1>1, <1>2, OrderOfNonempty DEF Leads

LEMMA CallRoomsAgrees ==
  ASSUME IInv, IInv', SInv, NEW t \in Threads, CallRooms(t)
  PROVE  SInv'
  <1> DEFINE op == Head(todo[t])
  <1>1. /\ ~Idle(t) /\ op.call \in {"saveRoom", "deleteRoom"} /\ Goes(t, <<>>)
        /\ UNCHANGED <<index, sess, live, mem, open, engines, created, crashes, raced, doubled>>
    BY DEF CallRooms, Calls, memory, counts, history
  <1>2. ASSUME Calm, NEW v \in States, Leads(Elems(todo[t]), Now, v)
        PROVE  Makes(op, Now, Now', v)
    <2>1. op \in Ops /\ Keeps(op, Now, v)
      BY <1>1, <1>2, CallAtHead
    <2>2. op.room \in Rooms
      BY <1>1, <2>1, OpCarries
    <2>3. rooms' = [rooms EXCEPT ![op.room] = v.rooms[op.room]]
      BY <1>1, <2>1 DEF CallRooms, Calls, Keeps, KeepsRoom
    <2>4. rooms \in [Rooms -> Record \cup {NoRecord}]
      BY DEF IInv, TypeOK
    <2> HIDE DEF op
    <2>5. \A r \in Rooms : /\ rooms'[r] = rooms[r] \/ rooms'[r] = v.rooms[r]
                           /\ WritesRoom(op, r) => rooms'[r] = v.rooms[r]
      BY <2>2, <2>3, <2>4 DEF WritesRoom
    <2> QED BY <1>1, <2>5
       DEF Makes, Now, WritesIndex, WritesSession, WritesObject, WritesLive, WritesEngine
  <1> QED BY <1>1, <1>2, CallMade

LEMMA CallIndexAgrees ==
  ASSUME IInv, IInv', SInv, NEW t \in Threads, CallIndex(t)
  PROVE  SInv'
  <1> DEFINE op == Head(todo[t])
  <1>1. /\ ~Idle(t) /\ op.call \in {"addIndex", "removeIndex", "deleteIndex"} /\ Goes(t, <<>>)
        /\ UNCHANGED <<rooms, sess, live, mem, open, engines, created, crashes, raced, doubled>>
    BY DEF CallIndex, Calls, memory, counts, history
  <1>2. ASSUME Calm, NEW v \in States, Leads(Elems(todo[t]), Now, v)
        PROVE  Makes(op, Now, Now', v)
    <2>1. op \in Ops /\ Keeps(op, Now, v)
      BY <1>1, <1>2, CallAtHead
    <2>2. op.room \in Rooms
      BY <1>1, <2>1, OpCarries
    <2>3. index \in [Rooms -> SUBSET Users]
      BY DEF IInv, TypeOK
    <2>4. \/ /\ op.call = "addIndex" /\ op.user \in v.index[op.room]
             /\ index' = [index EXCEPT ![op.room] = @ \cup {op.user}]
          \/ /\ op.call = "removeIndex" /\ op.user \notin v.index[op.room]
             /\ index' = [index EXCEPT ![op.room] = @ \ {op.user}]
          \/ /\ op.call = "deleteIndex" /\ v.index[op.room] = {}
             /\ index' = [index EXCEPT ![op.room] = {}]
      BY <1>1, <2>1 DEF CallIndex, Calls, Keeps, KeepsIndex
    <2> HIDE DEF op
    <2>5. ASSUME NEW r \in Rooms, NEW u \in Users
          PROVE  /\ \/ u \in index'[r] <=> u \in index[r]
                    \/ u \in index'[r] <=> u \in v.index[r]
                 /\ WritesIndex(op, r, u, Now) => (u \in index'[r] <=> u \in v.index[r])
      BY <2>2, <2>3, <2>4 DEF WritesIndex
    <2> QED BY <1>1, <2>5
       DEF Makes, Now, WritesRoom, WritesSession, WritesObject, WritesLive, WritesEngine
  <1> QED BY <1>1, <1>2, CallMade

LEMMA CallSessionAgrees ==
  ASSUME IInv, IInv', SInv, NEW t \in Threads, CallSession(t)
  PROVE  SInv'
  <1> DEFINE op == Head(todo[t])
  <1>1. /\ ~Idle(t) /\ op.call \in {"saveSession", "saveObject", "deleteSession"}
        /\ Goes(t, <<>>)
        /\ UNCHANGED <<rooms, index, live, mem, open, engines, created, crashes, raced, doubled>>
    BY DEF CallSession, Calls, memory, counts, history
  <1>2. ASSUME Calm, NEW v \in States, Leads(Elems(todo[t]), Now, v)
        PROVE  Makes(op, Now, Now', v)
    <2>1. /\ op \in Ops /\ Keeps(op, Now, v)
          /\ \A b \in Elems(Tail(todo[t])) : InOrder(op, b)
          /\ Elems(todo[t]) = {op} \cup Elems(Tail(todo[t]))
      BY <1>1, <1>2, CallAtHead
    <2>2. sess \in [Users -> Session \cup {NoSession}]
      BY DEF IInv, TypeOK
    <2>3. ASSUME op.call = "saveObject" PROVE mem[op.conn] = v.mem[op.conn]
      <3>1. op.conn \in Conns
        BY <2>1, <2>3, OpCarries
      <3>2. \A b \in Elems(Tail(todo[t])) : b.call = "addIndex"
        BY <2>1, <2>3 DEF InOrder
      <3>3. \A b \in Elems(todo[t]) : ~WritesObject(b, op.conn, v)
        BY <2>1, <2>3, <3>2 DEF WritesObject
      <3> HIDE DEF op
      <3> QED BY <1>2, <3>1, <3>3 DEF Leads, Reached, Now
    <2>4. PICK w \in Users :
            /\ \A u \in Users : WritesSession(op, u, v) => u = w
            /\ sess' = [sess EXCEPT ![w] = v.sess[w]]
      <3>1. CASE op.call = "saveSession"
        <4>1. op.user \in Users /\ sess' = [sess EXCEPT ![op.user] = v.sess[op.user]]
          BY <2>1, <3>1, OpCarries DEF CallSession, Calls, Keeps, KeepsSession
        <4> HIDE DEF op
        <4> QED BY <3>1, <4>1 DEF WritesSession
      <3>2. CASE op.call = "deleteSession"
        <4>1. op.user \in Users /\ sess' = [sess EXCEPT ![op.user] = v.sess[op.user]]
          BY <2>1, <3>2 DEF CallSession, Calls, Keeps, KeepsSession
        <4> HIDE DEF op
        <4> QED BY <3>2, <4>1 DEF WritesSession
      <3>3. CASE op.call = "saveObject"
        <4> DEFINE w == v.mem[op.conn].user
        <4>1. w \in Users /\ sess' = [sess EXCEPT ![w] = v.sess[w]]
          BY <2>1, <2>3, <3>3 DEF CallSession, Calls, Keeps, KeepsSession
        <4> HIDE DEF op
        <4> QED BY <3>3, <4>1 DEF WritesSession
      <3> QED BY <1>1, <3>1, <3>2, <3>3
    <2> HIDE DEF op
    <2>5. \A u \in Users : /\ sess'[u] = sess[u] \/ sess'[u] = v.sess[u]
                           /\ WritesSession(op, u, v) => sess'[u] = v.sess[u]
      BY <2>2, <2>4
    <2> QED BY <1>1, <2>5
       DEF Makes, Now, WritesRoom, WritesIndex, WritesObject, WritesLive, WritesEngine
  <1> QED BY <1>1, <1>2, CallMade

LEMMA CallObjectAgrees ==
  ASSUME IInv, IInv', SInv, NEW t \in Threads, CallObject(t)
  PROVE  SInv'
  <1> DEFINE op == Head(todo[t])
  <1>1. /\ ~Idle(t)
        /\ op.call \in {"claim", "setLiveRoom", "setStatus", "setLiveRoomByID", "forget"}
        /\ Goes(t, <<>>)
        /\ UNCHANGED <<rooms, index, sess, open, engines, created, crashes, raced, doubled>>
    BY DEF CallObject, Calls, redis, counts, history
  <1>2. ASSUME Calm, NEW v \in States, Leads(Elems(todo[t]), Now, v)
        PROVE  Makes(op, Now, Now', v)
    <2>1. op \in Ops /\ Keeps(op, Now, v)
      BY <1>1, <1>2, CallAtHead
    <2>2. mem \in [Conns -> Objects] /\ live \in [Users -> Conns \cup {NoConn}]
          /\ v.mem \in [Conns -> Objects] /\ v.live \in [Users -> Conns \cup {NoConn}]
      BY StateTypes DEF IInv, TypeOK, Objects, Someone, Somewhere
    <2>3. /\ \A c \in Conns : mem'[c] = mem[c] \/ mem'[c] = v.mem[c]
          /\ \A c \in Conns : WritesObject(op, c, v) => mem'[c] = v.mem[c]
          /\ \A u \in Users : live'[u] = live[u] \/ live'[u] = v.live[u]
          /\ \A u \in Users : WritesLive(op, u) => live'[u] = v.live[u]
      <3>1. CASE op.call = "claim"
        <4>1. /\ mem' = [mem EXCEPT ![op.conn] = v.mem[op.conn]]
              /\ live' = [live EXCEPT ![op.user] = v.live[op.user]]
          BY <2>1, <3>1 DEF CallObject, Calls, Keeps, KeepsObject
        <4>2. op.conn \in Conns /\ op.user \in Users
          BY <2>1, <3>1, OpCarries
        <4> HIDE DEF op
        <4> QED BY <2>2, <3>1, <4>1, <4>2 DEF WritesObject, WritesLive
      <3>2. CASE op.call = "setLiveRoom"
        <4> DEFINE w == mem[op.conn].user
        <4>1. /\ mem' = [mem EXCEPT ![op.conn].room = op.room]
              /\ live' = [live EXCEPT ![w] = op.conn]
              /\ v.mem[op.conn] = [mem[op.conn] EXCEPT !.room = op.room]
              /\ w \in Users /\ v.live[w] = op.conn
          BY <2>1, <3>2 DEF CallObject, Calls, Keeps, KeepsObject, Now
        <4>2. op.conn \in Conns
          BY <2>1, <3>2, OpCarries
        <4> HIDE DEF op, w
        <4>3. mem' = [mem EXCEPT ![op.conn] = v.mem[op.conn]]
          BY <4>1
        <4> QED BY <2>2, <3>2, <4>1, <4>2, <4>3 DEF WritesObject, WritesLive
      <3>3. CASE op.call = "setLiveRoomByID"
        <4>1. /\ mem' = [c \in Conns |-> IF live[op.user] = c
                                        THEN [mem[c] EXCEPT !.room = NoRoom] ELSE mem[c]]
              /\ live' = live
              /\ v.live[op.user] = live[op.user]
              /\ \A c \in Conns : live[op.user] = c => v.mem[c] = [mem[c] EXCEPT !.room = NoRoom]
          BY <2>1, <3>3 DEF CallObject, Calls, Keeps, KeepsObject, Now
        <4> HIDE DEF op
        <4> QED BY <2>2, <3>3, <4>1 DEF WritesObject, WritesLive
      <3>4. CASE op.call = "forget"
        <4>1. /\ mem' = [mem EXCEPT ![op.conn].room = NoRoom,
                                    ![op.conn].status = "disconnected"]
              /\ live' = live
              /\ v.mem[op.conn] =
                   [mem[op.conn] EXCEPT !.room = NoRoom, !.status = "disconnected"]
          BY <2>1, <3>4 DEF CallObject, Calls, Keeps, KeepsObject, Now
        <4>2. op.conn \in Conns
          BY <2>1, <3>4, OpCarries
        <4> HIDE DEF op
        <4>3. mem' = [mem EXCEPT ![op.conn] = v.mem[op.conn]]
          BY <2>2, <4>1, <4>2
        <4> QED BY <2>2, <3>4, <4>1, <4>2, <4>3 DEF WritesObject, WritesLive
      <3>5. CASE op.call = "setStatus"
        <4>1. /\ mem' = [mem EXCEPT ![op.conn].status = op.status]
              /\ live' = live
              /\ v.mem[op.conn] = [mem[op.conn] EXCEPT !.status = op.status]
          BY <2>1, <3>5 DEF CallObject, Calls, Keeps, KeepsObject, Now
        <4>2. op.conn \in Conns
          BY <2>1, <3>5, OpCarries
        <4> HIDE DEF op
        <4>3. mem' = [mem EXCEPT ![op.conn] = v.mem[op.conn]]
          BY <4>1
        <4> QED BY <2>2, <3>5, <4>1, <4>2, <4>3 DEF WritesObject, WritesLive
      <3> QED BY <1>1, <3>1, <3>2, <3>3, <3>4, <3>5
    <2> HIDE DEF op
    <2> QED BY <1>1, <2>3
       DEF Makes, Now, WritesRoom, WritesIndex, WritesSession, WritesEngine
  <1> QED BY <1>1, <1>2, CallMade

LEMMA CallEnginesAgrees ==
  ASSUME IInv, IInv', SInv, NEW t \in Threads, CallEngines(t)
  PROVE  SInv'
  <1> DEFINE op == Head(todo[t])
  <1>1. /\ ~Idle(t) /\ op.call \in {"addEngine", "removeEngine"} /\ Goes(t, <<>>)
        /\ UNCHANGED <<rooms, index, sess, live, mem, open, created, crashes, raced, doubled>>
    BY DEF CallEngines, Calls, redis, counts, history
  <1>2. ASSUME Calm, NEW v \in States, Leads(Elems(todo[t]), Now, v)
        PROVE  Makes(op, Now, Now', v)
    <2>1. op \in Ops /\ Keeps(op, Now, v)
      BY <1>1, <1>2, CallAtHead
    <2>2. \/ op.room \in v.engines /\ engines' = engines \cup {op.room}
          \/ op.room \notin v.engines /\ engines' = engines \ {op.room}
      BY <1>1, <2>1 DEF CallEngines, Calls, Keeps, KeepsEngine
    <2> HIDE DEF op
    <2>3. \A r \in Rooms : /\ \/ r \in engines' <=> r \in engines
                              \/ r \in engines' <=> r \in v.engines
                           /\ WritesEngine(op, r) => (r \in engines' <=> r \in v.engines)
      BY <2>2 DEF WritesEngine
    <2> QED BY <1>1, <2>3
       DEF Makes, Now, WritesRoom, WritesIndex, WritesSession, WritesObject, WritesLive
  <1> QED BY <1>1, <1>2, CallMade

-----------------------------------------------------------------------------
(* What changes for one user leaves the others where they are. *)

LEMMA OthersStay ==
  ASSUME NEW x \in States, NEW v \in States, NEW u \in Users,
         MembersAgree(x), ObjectsAgree(x),
         \A w \in Users, q \in Somewhere : w # u /\ Placed(x, w, q) => Placed(v, w, q),
         \A w \in Users : w # u => v.sess[w] = x.sess[w] /\ v.live[w] = x.live[w],
         \A w \in Users : w # u /\ x.live[w] # NoConn =>
           /\ v.mem[x.live[w]].user = x.mem[x.live[w]].user
           /\ v.mem[x.live[w]].room = x.mem[x.live[w]].room,
         v.sess[u] # NoSession => Placed(v, u, v.sess[u].room),
         v.live[u] # NoConn =>
           /\ v.mem[v.live[u]].user = u
           /\ Placed(v, u, v.mem[v.live[u]].room)
           /\ v.sess[u] # NoSession => v.sess[u].room = v.mem[v.live[u]].room
  PROVE  MembersAgree(v) /\ ObjectsAgree(v)
  <1>1. \A w \in Users : x.sess[w] # NoSession => x.sess[w].room \in Somewhere
    BY StateTypes DEF Session, Somewhere
  <1>2. \A w \in Users : x.live[w] # NoConn => x.mem[x.live[w]].room \in Somewhere
    BY StateTypes DEF Objects
  <1>3. MembersAgree(v)
    BY <1>1 DEF MembersAgree
  <1>4. ObjectsAgree(v)
    BY <1>2 DEF ObjectsAgree
  <1> QED BY <1>3, <1>4

LEMMA SamePlaces ==
  ASSUME NEW x, NEW v, v.rooms = x.rooms, v.index = x.index
  PROVE  \A w \in Users, q \in Somewhere : Placed(v, w, q) <=> Placed(x, w, q)
  BY DEF Placed

\* The objects of other users that live are other objects.
LEMMA OtherObjects ==
  ASSUME NEW x \in States, ObjectsAgree(x), NEW c, NEW u \in Users, x.mem[c].user = u,
         NEW w \in Users, w # u, x.live[w] # NoConn
  PROVE  x.live[w] \in Conns /\ x.mem[x.live[w]].user = w /\ x.live[w] # c
  BY StateTypes DEF ObjectsAgree

\* The session of a user that no object of the map stands for is deleted.
WithoutSession(x, u) ==
  [rooms |-> x.rooms, index |-> x.index, sess |-> [x.sess EXCEPT ![u] = NoSession],
   live |-> x.live, mem |-> x.mem, engines |-> x.engines]

LEMMA WithoutSessionAgrees ==
  ASSUME NEW x \in States, NEW u \in Users, NEW o, NEW g, Agree(x, o, g)
  PROVE  /\ WithoutSession(x, u) \in States /\ Agree(WithoutSession(x, u), o, g)
         /\ Leads({DeleteSession(u)}, x, WithoutSession(x, u))
  <1> DEFINE v == WithoutSession(x, u)
  <1>1. v \in States
    BY StateTypes DEF States, WithoutSession
  <1>2. /\ v.rooms = x.rooms /\ v.index = x.index /\ v.live = x.live /\ v.mem = x.mem
        /\ v.engines = x.engines
        /\ \A w \in Users : v.sess[w] = IF w = u THEN NoSession ELSE x.sess[w]
    BY StateTypes DEF WithoutSession
  <1> HIDE DEF v
  <1>3. MembersAgree(v) /\ ObjectsAgree(v)
    BY <1>2, SamePlaces DEF Agree, MembersAgree, ObjectsAgree, Placed
  <1>4. RecordsAgree(v) /\ LoopsOwn(v, o) /\ OthersBlank(v, g)
    BY <1>2 DEF Agree, RecordsAgree, LoopsOwn, OthersBlank
  <1>5. Keeps(DeleteSession(u), x, v)
    BY <1>2 DEF DeleteSession, Keeps, KeepsRoom, KeepsIndex, KeepsSession, KeepsObject,
                KeepsEngine, KeepsRead
  <1>6. Reached({DeleteSession(u)}, x, v)
    <2>1. WritesSession(DeleteSession(u), u, v)
      BY DEF WritesSession, DeleteSession
    <2> QED BY <1>2, <2>1 DEF Reached
  <1> QED BY <1>1, <1>3, <1>4, <1>5, <1>6 DEF Agree, Leads, v

-----------------------------------------------------------------------------
(* Handlers as they start. *)

LEMMA Arrives ==
  ASSUME NEW t \in Threads, NEW v \in States, Alone(t)', Ordered(todo'[t]),
         Agree(v, open', created'), Leads(Elems(todo'[t]), Now', v)
  PROVE  SInv'
  BY DEF SInv

LEMMA Started ==
  ASSUME IInv, Quiet, NEW t \in Threads, NEW calls, Ordered(calls),
         todo' = [todo EXCEPT ![t] = calls],
         NEW v \in States, Agree(v, open', created'), Leads(Elems(calls), Now', v)
  PROVE  SInv'
  <1>1. todo'[t] = calls /\ Alone(t)'
    BY DEF IInv, Quiet, Alone, Idle
  <1> QED BY <1>1, Arrives

\* Where a request's user is: a user whose object the map has dropped is where
\* the saved session says, or the object is stale.
LEMMA Known ==
  ASSUME IInv, SInv, Calm, Quiet, NEW c \in Conns, open[c], mem[c].user \in Users, ~Stale(c)
  PROVE  /\ live[mem[c].user] \in {c, NoConn}
         /\ sess[mem[c].user] # NoSession => sess[mem[c].user].room = mem[c].room
         /\ Placed(Now, mem[c].user, mem[c].room)
  <1> DEFINE u == mem[c].user
  <1>1. Agree(Now, open, created)
    BY Resting
  <1>2. c # NoConn /\ u # NoUser
    BY ConnsAssumption, UsersAssumption
  <1>3. Now.mem = mem /\ Now.live = live /\ Now.sess = sess
    BY DEF Now
  <1>4. live[u] \in {c, NoConn}
    BY <1>1, <1>2, <1>3 DEF Agree, LoopsOwn
  <1>5. CASE live[u] = c
    <2>1. /\ Placed(Now, u, Now.mem[Now.live[u]].room)
          /\ Now.sess[u] # NoSession => Now.sess[u].room = Now.mem[Now.live[u]].room
      BY <1>1, <1>2, <1>3, <1>5 DEF Agree, ObjectsAgree
    <2> QED BY <1>3, <1>5, <2>1
  <1>6. CASE live[u] # c
    <2>1. mem[c].room = SavedRoom(u)
      BY <1>6 DEF Stale
    <2>2. CASE sess[u] = NoSession
      BY <1>4, <2>1, <2>2 DEF SavedRoom, Placed
    <2>3. CASE sess[u] # NoSession
      <3>1. Placed(Now, u, Now.sess[u].room)
        BY <1>1, <1>3, <2>3 DEF Agree, MembersAgree
      <3> QED BY <1>3, <1>4, <2>1, <2>3, <3>1 DEF SavedRoom
    <2> QED BY <2>2, <2>3
  <1> QED BY <1>4, <1>5, <1>6

\* The user's entry of the map changes to its own object or to none.
WithEntry(x, u, c) ==
  [rooms |-> x.rooms, index |-> x.index, sess |-> x.sess,
   live |-> [x.live EXCEPT ![u] = c], mem |-> x.mem, engines |-> x.engines]

LEMMA WithEntryAgrees ==
  ASSUME NEW x \in States, NEW o, NEW g, Agree(x, o, g), NEW c \in Conns, NEW u \in Users,
         o[c], x.mem[c].user = u, NEW d \in {c, NoConn},
         x.sess[u] # NoSession => x.sess[u].room = x.mem[c].room,
         Placed(x, u, x.mem[c].room)
  PROVE  WithEntry(x, u, d) \in States /\ Agree(WithEntry(x, u, d), o, g)
  <1> DEFINE v == WithEntry(x, u, d)
  <1>1. v \in States
    BY StateTypes DEF States, WithEntry
  <1>2. /\ v.rooms = x.rooms /\ v.index = x.index /\ v.sess = x.sess /\ v.mem = x.mem
        /\ v.engines = x.engines
        /\ \A w \in Users : v.live[w] = IF w = u THEN d ELSE x.live[w]
    BY StateTypes DEF WithEntry
  <1>3. c # NoConn /\ u # NoUser
    BY ConnsAssumption, UsersAssumption
  <1> HIDE DEF v
  <1>4. MembersAgree(v) /\ ObjectsAgree(v)
    <2>1. \A w \in Users, q \in Somewhere : Placed(v, w, q) <=> Placed(x, w, q)
      BY <1>2, SamePlaces
    <2>2. x.mem[c].room \in Somewhere
      BY StateTypes DEF Objects
    <2>3. MembersAgree(x) /\ ObjectsAgree(x)
      BY DEF Agree
    <2>4. x.sess[u] # NoSession => Placed(v, u, x.sess[u].room)
      BY <2>1, <2>2
    <2>5. v.live[u] # NoConn =>
            /\ v.mem[v.live[u]].user = u /\ Placed(v, u, v.mem[v.live[u]].room)
            /\ v.sess[u] # NoSession => v.sess[u].room = v.mem[v.live[u]].room
      BY <1>2, <2>1, <2>2
    <2> QED BY <1>1, <1>2, <2>1, <2>3, <2>4, <2>5, OthersStay
  <1>5. RecordsAgree(v) /\ OthersBlank(v, g)
    BY <1>2 DEF Agree, RecordsAgree, OthersBlank
  <1>6. LoopsOwn(v, o)
    <2>1. ASSUME NEW e \in Conns, o[e], v.mem[e].user # NoUser
          PROVE  v.live[v.mem[e].user] \in {e, NoConn}
      <3>1. x.mem[e].user \in Users
        BY <1>2, <2>1, StateTypes DEF Objects, Someone
      <3>2. CASE x.mem[e].user = u
        <4>1. e = c
          BY <1>3, <2>1, <3>2 DEF Agree, LoopsOwn
        <4> QED BY <1>2, <3>2, <4>1
      <3>3. CASE x.mem[e].user # u
        BY <1>2, <2>1, <3>1, <3>3 DEF Agree, LoopsOwn
      <3> QED BY <3>2, <3>3
    <2>2. \A e, f \in Conns : o[e] /\ o[f] /\ v.mem[e].user # NoUser
                              /\ v.mem[e].user = v.mem[f].user => e = f
      BY <1>2 DEF Agree, LoopsOwn
    <2> QED BY <2>1, <2>2 DEF LoopsOwn
  <1> QED BY <1>1, <1>4, <1>5, <1>6 DEF Agree, v

\* A request is made by a user of whom the four places agree.
Requests(c, x) ==
  LET u == x.mem[c].user
  IN  /\ u \in Users /\ x.live[u] = c
      /\ x.sess[u] # NoSession => x.sess[u].room = x.mem[c].room
      /\ Placed(x, u, x.mem[c].room)

LEMMA Received ==
  ASSUME IInv, SInv, NEW c \in Conns, NEW calls, Receive(c, calls), Ordered(calls),
         Now' \in States /\ Agree(Now', open, created) /\ Requests(c, Now') =>
           \E v \in States : Agree(v, open, created') /\ Leads(Elems(calls), Now', v)
  PROVE  SInv'
  <1> SUFFICES ASSUME Calm' PROVE SInv'
    BY DEF SInv
  <1>1. Calm /\ Quiet /\ ~Stale(c)
    BY DEF Calm, Receive, Remember
  <1>2. Now \in States /\ Agree(Now, open, created)
    BY <1>1, Resting, NowIsState
  <1>3. open[c] /\ mem[c].user \in Users
    BY Requester DEF Receive
  <1>4. /\ sess[mem[c].user] # NoSession => sess[mem[c].user].room = mem[c].room
        /\ Placed(Now, mem[c].user, mem[c].room)
    BY <1>1, <1>3, Known
  <1>5. /\ live' = [live EXCEPT ![mem[c].user] = c]
        /\ todo' = [todo EXCEPT ![c] = calls]
        /\ UNCHANGED <<rooms, index, sess, mem, open, engines>>
    BY DEF Receive, Starts, redis
  <1>6. Now' = WithEntry(Now, mem[c].user, c)
    BY <1>5 DEF Now, WithEntry
  <1>7. Now.mem = mem /\ Now.sess = sess
    BY DEF Now
  <1>8. Now' \in States /\ Agree(Now', open, created)
    BY <1>2, <1>3, <1>4, <1>6, <1>7, WithEntryAgrees
  <1>9. Requests(c, Now')
    <2>1. /\ Now'.mem = mem /\ Now'.sess = sess /\ Now'.live[mem[c].user] = c
          /\ Now'.rooms = Now.rooms /\ Now'.index = Now.index
      BY <1>3, <1>5 DEF Now, IInv, TypeOK
    <2>2. Placed(Now', mem[c].user, mem[c].room)
      BY <1>4, <2>1 DEF Placed
    <2> QED BY <1>3, <1>4, <2>1, <2>2 DEF Requests
  <1>10. PICK v \in States : Agree(v, open, created') /\ Leads(Elems(calls), Now', v)
    BY <1>8, <1>9
  <1>11. c \in Threads /\ Agree(v, open', created')
    BY <1>5, <1>10 DEF Threads
  <1> QED BY <1>1, <1>5, <1>10, <1>11, Started

\* A read that does nothing but replace itself by calls.
LEMMA ReadMade ==
  ASSUME IInv, IInv', SInv, NEW t \in Threads, ~Idle(t), Head(todo[t]).call \in Reads,
         NEW more \in Seq(Ops), Goes(t, more) \/ (more = <<>> /\ Aborts(t)),
         UNCHANGED <<open, created, crashes, raced, doubled>>, Ordered(more),
         Agree(Now, open, created) /\ Keeps(Head(todo[t]), Now, Now) =>
           \E v \in States : Agree(v, open, created) /\ Leads(Elems(more), Now', v)
  PROVE  SInv'
  <1> SUFFICES ASSUME Calm PROVE SInv'
    BY DEF SInv, Calm
  <1>1. Tail(todo[t]) = <<>> /\ Alone(t)
    BY BeforeRead
  <1>2. todo' = [todo EXCEPT ![t] = more] /\ todo'[t] = more
    BY <1>1, ConcatEmptySeq DEF Goes, Aborts, IInv
  <1>3. Alone(t)'
    BY <1>1, <1>2 DEF Alone, Idle, IInv
  <1>4. PICK v \in States : Agree(v, open, created) /\ Leads(Elems(more), Now', v)
    BY BeforeRead
  <1>5. Agree(v, open', created') /\ Leads(Elems(todo'[t]), Now', v)
    BY <1>2, <1>4
  <1> QED BY <1>2, <1>3, <1>4, <1>5, Arrives

\* A room record is saved, and the room's engine comes or goes with the game.
WithRecord(x, r, rec, E) ==
  [rooms |-> [x.rooms EXCEPT ![r] = rec], index |-> x.index, sess |-> x.sess,
   live |-> x.live, mem |-> x.mem, engines |-> E]

LEMMA RecordSavedAgrees ==
  ASSUME NEW x \in States, NEW o, NEW g, Agree(x, o, g),
         NEW r \in Rooms, x.rooms[r] # NoRecord,
         NEW rec \in Record, rec.players = x.rooms[r].players,
         NEW E \in SUBSET Rooms, rec.started <=> r \in E,
         \A q \in Rooms : q # r => (q \in E <=> q \in x.engines)
  PROVE  WithRecord(x, r, rec, E) \in States /\ Agree(WithRecord(x, r, rec, E), o, g)
  <1> DEFINE v == WithRecord(x, r, rec, E)
  <1>1. /\ v.index = x.index /\ v.sess = x.sess /\ v.live = x.live /\ v.mem = x.mem
        /\ v.engines = E /\ v.rooms = [x.rooms EXCEPT ![r] = rec]
    BY DEF WithRecord
  <1>2. v \in States
    BY StateTypes DEF States, WithRecord
  <1>3. x.rooms \in [Rooms -> Record \cup {NoRecord}]
    BY StateTypes
  <1>4. \A q \in Rooms : v.rooms[q] = IF q = r THEN rec ELSE x.rooms[q]
    BY <1>1, <1>3
  <1> HIDE DEF v
  <1>5. \A w \in Users, q \in Somewhere : Placed(x, w, q) => Placed(v, w, q)
    BY <1>1, <1>4 DEF Placed, Somewhere
  <1>6. MembersAgree(v) /\ ObjectsAgree(v) /\ LoopsOwn(v, o)
    <2>1. \A w \in Users : x.sess[w] # NoSession => x.sess[w].room \in Somewhere
      BY StateTypes DEF Session, Somewhere
    <2>2. \A w \in Users : x.live[w] # NoConn => x.mem[x.live[w]].room \in Somewhere
      BY StateTypes DEF Objects
    <2> QED BY <1>1, <1>5, <2>1, <2>2 DEF Agree, MembersAgree, ObjectsAgree, LoopsOwn
  <1>7. RecordsAgree(v)
    BY <1>1, <1>4 DEF Agree, RecordsAgree
  <1>8. OthersBlank(v, g)
    BY <1>1, <1>4 DEF Agree, OthersBlank
  <1> QED BY <1>2, <1>6, <1>7, <1>8 DEF Agree, v

LEMMA RecordSavedLeads ==
  ASSUME NEW x \in States, NEW r \in Rooms, NEW rec \in Record, NEW E \in SUBSET Rooms,
         NEW P \in SUBSET Ops, SaveRoom(r, rec) \in P,
         \A op \in P \ {SaveRoom(r, rec)} :
           \/ op = AddEngine(r) /\ r \in E
           \/ op = RemoveEngine(r) /\ r \notin E,
         \A q \in Rooms : \/ q \in E <=> q \in x.engines
                          \/ q = r /\ (AddEngine(r) \in P \/ RemoveEngine(r) \in P)
  PROVE  Leads(P, x, WithRecord(x, r, rec, E))
  <1> DEFINE v == WithRecord(x, r, rec, E)
  <1>1. /\ v.index = x.index /\ v.sess = x.sess /\ v.live = x.live /\ v.mem = x.mem
        /\ v.engines = E /\ v.rooms = [x.rooms EXCEPT ![r] = rec]
    BY DEF WithRecord
  <1>2. \A q \in Rooms : v.rooms[q] = IF q = r THEN rec ELSE x.rooms[q]
    BY <1>1, StateTypes
  <1> HIDE DEF v
  <1>3. Keeps(SaveRoom(r, rec), x, v)
    BY <1>2 DEF SaveRoom, Keeps, KeepsRoom, KeepsIndex, KeepsSession, KeepsObject,
                KeepsEngine, KeepsRead
  <1>4. ASSUME NEW op \in P \ {SaveRoom(r, rec)} PROVE Keeps(op, x, v)
    BY <1>1 DEF AddEngine, RemoveEngine, Keeps, KeepsRoom, KeepsIndex, KeepsSession,
                KeepsObject, KeepsEngine, KeepsRead
  <1>5. Reached(P, x, v)
    <2>1. WritesRoom(SaveRoom(r, rec), r) /\ WritesEngine(AddEngine(r), r)
          /\ WritesEngine(RemoveEngine(r), r)
      BY DEF WritesRoom, WritesEngine, SaveRoom, AddEngine, RemoveEngine
    <2> QED BY <1>1, <1>2, <2>1 DEF Reached
  <1> QED BY <1>3, <1>4, <1>5 DEF Leads, v

LEMMA CrashAgrees == ASSUME IInv, Crash PROVE SInv'
  <1>1. crashes' # 0
    BY BoundsAssumption DEF Crash, IInv, TypeOK
  <1> QED BY <1>1 DEF SInv, Calm

LEMMA UserUpdateAgrees ==
  ASSUME IInv, SInv, NEW c \in Conns, NEW s \in Statuses, HandleUserUpdate(c, s)
  PROVE  SInv'
  <1> DEFINE x == Now'
             calls == <<SetStatus(c, s), SaveObject(c)>>
             P == {SetStatus(c, s), SaveObject(c)}
             u == x.mem[c].user
             m2 == [x.mem[c] EXCEPT !.status = s]
             s2 == [room |-> x.mem[c].room, status |-> s]
             v == [rooms |-> x.rooms, index |-> x.index, sess |-> [x.sess EXCEPT ![u] = s2],
                   live |-> x.live, mem |-> [x.mem EXCEPT ![c] = m2], engines |-> x.engines]
  <1>1. Receive(c, calls) /\ created' = created
    BY DEF HandleUserUpdate
  <1>2. Ordered(calls) /\ Elems(calls) = P
    <2>1. InOrder(SetStatus(c, s), SaveObject(c))
      BY DEF InOrder, Reads, SetStatus, SaveObject
    <2>2. Ordered(calls)
      BY <2>1 DEF Ordered
    <2> QED BY <2>2, ElemsOfTuples
  <1>3. ASSUME x \in States, Agree(x, open, created), Requests(c, x)
        PROVE  v \in States /\ Agree(v, open, created) /\ Leads(P, x, v)
    <2> HIDE DEF x
    <2>1. /\ u \in Users /\ x.live[u] = c /\ Placed(x, u, x.mem[c].room)
          /\ x.mem[c] \in Objects
      BY <1>3, StateTypes DEF Requests
    <2>2. /\ m2 \in Objects /\ m2.user = u /\ m2.room = x.mem[c].room /\ m2.status = s
          /\ s2 \in Session /\ s2.room = x.mem[c].room /\ s2.status = s
      BY <2>1 DEF Objects, Session, Somewhere
    <2> HIDE DEF u, m2, s2
    <2>3. v \in States
      <3>1. /\ [x.sess EXCEPT ![u] = s2] \in [Users -> Session \cup {NoSession}]
            /\ [x.mem EXCEPT ![c] = m2] \in [Conns -> Objects]
        BY <1>3, <2>2, StateTypes
      <3> QED BY <1>3, <3>1, StateTypes DEF States
    <2>4. /\ v.index = x.index /\ v.rooms = x.rooms /\ v.live = x.live
          /\ v.engines = x.engines
          /\ \A w \in Users : v.sess[w] = IF w = u THEN s2 ELSE x.sess[w]
          /\ \A d \in Conns : v.mem[d] = IF d = c THEN m2 ELSE x.mem[d]
      BY <1>3, StateTypes
    <2>5. x.mem[c].user = u
      BY DEF u
    <2> HIDE DEF v
    <2>6. /\ \A d \in Conns : v.mem[d].user = x.mem[d].user /\ v.mem[d].room = x.mem[d].room
      BY <2>2, <2>4, <2>5
    <2>7. MembersAgree(v) /\ ObjectsAgree(v)
      <3>1. MembersAgree(x) /\ ObjectsAgree(x)
        BY <1>3 DEF Agree
      <3>2. \A w \in Users, q \in Somewhere : Placed(v, w, q) <=> Placed(x, w, q)
        BY <2>4, SamePlaces
      <3>3. \A w \in Users : x.live[w] # NoConn => x.live[w] \in Conns
        BY <1>3, StateTypes
      <3>4. Placed(v, u, v.sess[u].room) /\ Placed(v, u, x.mem[c].room)
        BY <2>1, <2>2, <2>4 DEF Placed
      <3>5. v.live[u] = c /\ v.mem[c].user = u /\ v.mem[c].room = x.mem[c].room
            /\ v.sess[u].room = x.mem[c].room
        BY <2>1, <2>2, <2>4
      <3> QED BY <1>3, <2>1, <2>3, <2>4, <2>6, <3>1, <3>2, <3>3, <3>4, <3>5, OthersStay
    <2>8. RecordsAgree(v) /\ LoopsOwn(v, open)
      BY <1>3, <2>4, <2>6 DEF Agree, RecordsAgree, LoopsOwn
    <2>9. OthersBlank(v, created)
      BY <1>3, <2>1, <2>2, <2>4, <2>6 DEF Agree, OthersBlank
    <2>10. Keeps(SaveObject(c), x, v)
      BY <2>1, <2>2, <2>4 DEF SaveObject, Keeps, KeepsRoom, KeepsIndex, KeepsSession,
         KeepsObject, KeepsEngine, KeepsRead, s2
    <2>11. Keeps(SetStatus(c, s), x, v)
      BY <2>4 DEF SetStatus, Keeps, KeepsRoom, KeepsIndex, KeepsSession, KeepsObject,
         KeepsEngine, KeepsRead, m2
    <2>12. Reached(P, x, v)
      <3>1. WritesSession(SaveObject(c), u, v) /\ WritesObject(SetStatus(c, s), c, v)
        BY <2>2, <2>4 DEF WritesSession, WritesObject, SaveObject, SetStatus
      <3> QED BY <2>4, <3>1 DEF Reached
    <2> QED BY <2>3, <2>7, <2>8, <2>9, <2>10, <2>11, <2>12 DEF Leads, Agree
  <1> HIDE DEF calls, v, x, P
  <1> QED BY <1>1, <1>2, <1>3, Received DEF x

LEMMA RecordRequestAgrees ==
  ASSUME IInv, SInv, NEW c \in Conns, NEW r \in Rooms, NEW rec \in SoundRecord,
         rooms[r] # NoRecord, rec.players = rooms[r].players,
         created' = created,
         NEW calls,
         \/ /\ calls = <<SaveRoom(r, rec)>> /\ rec.started = rooms[r].started
         \/ /\ calls = <<AddEngine(r), SaveRoom(r, rec)>> /\ rec.started = TRUE
         \/ /\ calls = <<RemoveEngine(r), SaveRoom(r, rec)>> /\ rec.started = FALSE,
         Receive(c, calls)
  PROVE  SInv'
  <1> DEFINE x == Now'
             P == Elems(calls)
             E == IF AddEngine(r) \in P THEN engines \cup {r}
                  ELSE IF RemoveEngine(r) \in P THEN engines \ {r} ELSE engines
             v == WithRecord(x, r, rec, E)
  <1>1. /\ SaveRoom(r, rec) \in Ops /\ AddEngine(r) \in Ops /\ RemoveEngine(r) \in Ops
    BY RoomOps
  <1>2. /\ SaveRoom(r, rec) # AddEngine(r) /\ SaveRoom(r, rec) # RemoveEngine(r)
        /\ AddEngine(r) # RemoveEngine(r)
    BY DEF SaveRoom, AddEngine, RemoveEngine
  <1>3. \/ /\ P = {SaveRoom(r, rec)} /\ rec.started = rooms[r].started
           /\ E = engines
        \/ /\ P = {AddEngine(r), SaveRoom(r, rec)} /\ rec.started = TRUE
           /\ E = engines \cup {r}
        \/ /\ P = {RemoveEngine(r), SaveRoom(r, rec)} /\ rec.started = FALSE
           /\ E = engines \ {r}
    BY <1>2, ElemsOfTuples
  <1>4. Ordered(calls)
    <2>1. \A op \in P : op.call \in {"saveRoom", "addEngine", "removeEngine"}
      BY <1>3 DEF SaveRoom, AddEngine, RemoveEngine
    <2> HIDE DEF P
    <2>2. \A op \in P : op.call \notin Reads \cup {"claim", "sessionMove", "saveObject"}
      BY <2>1 DEF Reads
    <2> QED BY <2>2, OrderOfPlain DEF P
  <1>5. ASSUME x \in States, Agree(x, open, created)
        PROVE  v \in States /\ Agree(v, open, created) /\ Leads(P, x, v)
    <2>1. rec \in Record /\ engines \subseteq Rooms
      BY DEF SoundRecord, IInv, TypeOK
    <2>2. x.rooms = rooms /\ x.engines = engines
      BY DEF Now, Receive, redis
    <2>3. /\ E \in SUBSET Rooms
          /\ rec.started <=> r \in E
          /\ \A q \in Rooms : q # r => (q \in E <=> q \in x.engines)
      <3>1. x.rooms[r].started <=> r \in x.engines
        BY <1>5, <2>2 DEF Agree, RecordsAgree
      <3> HIDE DEF x, E, P
      <3> QED BY <1>3, <2>1, <2>2, <3>1
    <2>4. v \in States /\ Agree(v, open, created)
      <3> HIDE DEF x, E
      <3> QED BY <1>5, <2>1, <2>2, <2>3, RecordSavedAgrees
    <2>5. /\ P \in SUBSET Ops /\ SaveRoom(r, rec) \in P
          /\ \A op \in P \ {SaveRoom(r, rec)} :
               \/ op = AddEngine(r) /\ r \in E
               \/ op = RemoveEngine(r) /\ r \notin E
          /\ \A q \in Rooms : \/ q \in E <=> q \in x.engines
                              \/ q = r /\ (AddEngine(r) \in P \/ RemoveEngine(r) \in P)
      <3> HIDE DEF x, E, P
      <3> QED BY <1>1, <1>3, <2>2
    <2>6. Leads(P, x, v)
      <3> HIDE DEF x, E, P
      <3> QED BY <1>5, <2>1, <2>3, <2>5, RecordSavedLeads
    <2> QED BY <2>4, <2>6
  <1> HIDE DEF v, P, x
  <1> QED BY <1>4, <1>5, Received DEF P, x

LEMMA UpdateRoomAgrees ==
  ASSUME IInv, SInv, NEW c \in Conns, NEW r \in Rooms, NEW n \in Sizes, NEW m \in Modes,
         UpdateRoom(c, r, n, m)
  PROVE  SInv'
  <1> DEFINE rec == Updated(rooms[r], n, m)
  <1>1. rooms[r] \in SoundRecord /\ rec \in SoundRecord /\ rooms[r] # NoRecord
    BY ReadSound, UpdatedSound DEF UpdateRoom, InRoom
  <1>2. rec.players = rooms[r].players /\ rec.started = rooms[r].started
    BY <1>1 DEF Updated, SoundRecord, Record
  <1>3. Receive(c, <<SaveRoom(r, rec)>>) /\ created' = created
    BY DEF UpdateRoom
  <1> HIDE DEF rec
  <1> QED BY <1>1, <1>2, <1>3, RecordRequestAgrees

LEMMA ReadyAgrees ==
  ASSUME IInv, SInv, NEW c \in Conns, NEW r \in Rooms, SetPlayerReady(c, r)
  PROVE  SInv'
  <1> DEFINE rec == Toggled(rooms[r], mem[c].user)
  <1>1. rooms[r] \in SoundRecord /\ rec \in SoundRecord /\ rooms[r] # NoRecord
    BY ReadSound, ToggledSound DEF SetPlayerReady, InRoom
  <1>2. rec.players = rooms[r].players /\ rec.started = rooms[r].started
    BY <1>1 DEF Toggled, SoundRecord, Record
  <1>3. Receive(c, <<SaveRoom(r, rec)>>) /\ created' = created
    BY DEF SetPlayerReady
  <1> HIDE DEF rec
  <1> QED BY <1>1, <1>2, <1>3, RecordRequestAgrees

LEMMA GameAgrees ==
  ASSUME IInv, SInv, NEW c \in Conns, NEW r \in Rooms, StartGame(c, r) \/ EndGame(c, r)
  PROVE  SInv'
  <1>1. rooms[r] \in SoundRecord /\ rooms[r] # NoRecord
    BY ReadSound DEF StartGame, EndGame, InRoom
  <1>2. ASSUME NEW b \in BOOLEAN
        PROVE  /\ Playing(rooms[r], b) \in SoundRecord
               /\ Playing(rooms[r], b).players = rooms[r].players
               /\ Playing(rooms[r], b).started = b
    <2>1. Playing(rooms[r], b) \in SoundRecord
      BY <1>1, PlayingSound
    <2> QED BY <1>1, <2>1 DEF Playing, SoundRecord, Record
  <1>3. CASE StartGame(c, r)
    <2>1. Receive(c, <<AddEngine(r), SaveRoom(r, Playing(rooms[r], TRUE))>>)
          /\ created' = created
      BY <1>3 DEF StartGame
    <2> QED BY <1>1, <1>2, <2>1, RecordRequestAgrees
  <1>4. CASE EndGame(c, r)
    <2>1. Receive(c, <<RemoveEngine(r), SaveRoom(r, Playing(rooms[r], FALSE))>>)
          /\ created' = created
      BY <1>4 DEF EndGame
    <2> QED BY <1>1, <1>2, <2>1, RecordRequestAgrees
  <1> QED BY <1>3, <1>4

\* A request that reads once more before it writes.
LEMMA KickUserAgrees ==
  ASSUME IInv, SInv, NEW c \in Conns, NEW r \in Rooms, NEW u \in Users, KickUser(c, r, u)
  PROVE  SInv'
  <1> DEFINE op == CheckTarget(r, u, rooms[r])
  <1>1. Receive(c, <<op>>) /\ rooms[r] # NoRecord /\ created' = created
    BY DEF KickUser, InRoom
  <1>2. Keeps(op, Now', Now')
    <2>1. Now'.rooms = rooms
      BY <1>1 DEF Now, Receive, redis
    <2> QED BY <1>1, <2>1 DEF CheckTarget, Keeps, KeepsRoom, KeepsIndex, KeepsSession,
            KeepsObject, KeepsEngine, KeepsRead
  <1> HIDE DEF op
  <1>3. Elems(<<op>>) = {op} /\ Ordered(<<op>>)
    BY ElemsOfTuples
  <1>4. Leads({op}, Now', Now')
    BY <1>2, ReachedItself DEF Leads
  <1> QED BY <1>1, <1>3, <1>4, Received

LEMMA MoveLeads ==
  ASSUME NEW r, NEW x
  PROVE  Leads({Move(r)}, x, x)
  <1>1. Keeps(Move(r), x, x)
    BY DEF Move, Keeps, KeepsRoom, KeepsIndex, KeepsSession, KeepsObject, KeepsEngine, KeepsRead
  <1> QED BY <1>1, ReachedItself DEF Leads

LEMMA MoveAgrees ==
  ASSUME IInv, SInv, NEW r \in Rooms,
         TimerExpired(r) \/ \E c \in Conns : ProcessAction(c, r)
  PROVE  SInv'
  <1>1. Elems(<<Move(r)>>) = {Move(r)} /\ Ordered(<<Move(r)>>)
    BY ElemsOfTuples
  <1>2. CASE TimerExpired(r)
    <2> SUFFICES ASSUME Calm' PROVE SInv'
      BY DEF SInv
    <2>1. Calm /\ Quiet /\ todo' = [todo EXCEPT ![Timer] = <<Move(r)>>] /\ Timer \in Threads
      BY <1>2 DEF Calm, TimerExpired, Remember, Starts, Threads
    <2>2. Now \in States /\ Now' = Now /\ Agree(Now, open', created')
      BY <1>2, <2>1, Resting, NowIsState DEF TimerExpired, Now, redis, memory
    <2> QED BY <1>1, <2>1, <2>2, MoveLeads, Started
  <1>3. ASSUME NEW c \in Conns, ProcessAction(c, r) PROVE SInv'
    <2>1. Receive(c, <<Move(r)>>) /\ created' = created
      BY <1>3 DEF ProcessAction
    <2> QED BY <1>1, <2>1, MoveLeads, Received
  <1> QED BY <1>2, <1>3

\* A session that expires takes nothing else along.
LEMMA SessionExpiresAgrees ==
  ASSUME IInv, SInv, NEW u \in Users, SessionExpires(u)
  PROVE  SInv'
  <1> SUFFICES ASSUME Calm' PROVE SInv'
    BY DEF SInv
  <1>1. Calm /\ Quiet /\ Timer \in Threads
    BY DEF Calm, SessionExpires, Remember, Threads
  <1>2. Now \in States /\ Agree(Now, open, created)
    BY <1>1, Resting, NowIsState
  <1>3. /\ Now' = WithoutSession(Now, u) /\ todo' = todo
        /\ open' = open /\ created' = created
    BY DEF SessionExpires, memory, Now, WithoutSession
  <1>4. Now' \in States /\ Agree(Now', open', created')
    BY <1>2, <1>3, WithoutSessionAgrees
  <1>5. todo'[Timer] = <<>> /\ Alone(Timer)'
    BY <1>1, <1>3 DEF Quiet, Idle, Alone
  <1>6. Ordered(<<>>) /\ Leads(Elems(<<>>), Now', Now')
    BY ElemsOfTuples, ReachedItself DEF Leads
  <1> QED BY <1>1, <1>4, <1>5, <1>6, Arrives

LEMMA EndOfMoveAgrees ==
  ASSUME IInv, IInv', SInv, NEW t \in Threads, EndOfMove(t)
  PROVE  SInv'
  <1> DEFINE op == Head(todo[t])
             r == op.room
             rec == Playing(rooms[r], FALSE)
             ending == <<RemoveEngine(r), SaveRoom(r, rec)>>
  <1>1. ~Idle(t) /\ op.call = "move" /\ op.call \in Reads /\ r \in Rooms
    BY NextOp, OpCarries DEF EndOfMove, Calls, Reads
  <1>2. UNCHANGED <<open, created, crashes, raced, doubled>> /\ Now' = Now
    BY DEF EndOfMove, redis, memory, counts, history, Now
  <1>3. CASE Goes(t, <<>>)
    <2>1. Leads(Elems(<<>>), Now, Now)
      BY ElemsOfTuples, ReachedItself DEF Leads
    <2> QED BY <1>1, <1>2, <1>3, <2>1, ReadMade, NowIsState, ElemsOfTuples, OpSeqs
  <1>4. CASE rooms[r] # NoRecord /\ Goes(t, ending)
    <2> HIDE DEF r
    <2>1. rooms[r] \in SoundRecord /\ rec \in SoundRecord
      BY <1>1, <1>4, ReadSound, PlayingSound
    <2>2. rec.players = rooms[r].players /\ rec.started = FALSE /\ rec \in Record
      BY <2>1 DEF Playing, SoundRecord, Record
    <2> HIDE DEF rec
    <2>3. SaveRoom(r, rec) \in Ops /\ RemoveEngine(r) \in Ops
          /\ SaveRoom(r, rec) # RemoveEngine(r)
      BY <1>1, <2>1, RoomOps DEF SaveRoom, RemoveEngine
    <2>4. ending \in Seq(Ops) /\ Elems(ending) = {RemoveEngine(r), SaveRoom(r, rec)}
      BY <2>3, OpSeqs, ElemsOfTuples
    <2> HIDE DEF ending
    <2>5. Ordered(ending)
      <3>1. \A a \in Elems(ending) : a.call \in {"removeEngine", "saveRoom"}
        BY <2>4 DEF SaveRoom, RemoveEngine
      <3>2. \A a \in Elems(ending) : a.call \notin Reads \cup {"claim", "sessionMove", "saveObject"}
        BY <3>1 DEF Reads
      <3> QED BY <3>2, OrderOfPlain
    <2>6. ASSUME Agree(Now, open, created)
          PROVE  \E v \in States : Agree(v, open, created) /\ Leads(Elems(ending), Now, v)
      <3> DEFINE v == WithRecord(Now, r, rec, engines \ {r})
      <3>1. Now \in States /\ Now.rooms = rooms /\ Now.engines = engines
            /\ engines \subseteq Rooms
        BY NowIsState DEF Now, IInv, TypeOK
      <3>2. v \in States /\ Agree(v, open, created)
        BY <1>1, <1>4, <2>2, <2>6, <3>1, RecordSavedAgrees
      <3>3. Leads(Elems(ending), Now, v)
        BY <1>1, <2>2, <2>3, <2>4, <3>1, RecordSavedLeads
      <3> QED BY <3>2, <3>3
    <2> QED BY <1>1, <1>2, <1>4, <2>4, <2>5, <2>6, ReadMade
  <1> QED BY <1>3, <1>4 DEF EndOfMove

-----------------------------------------------------------------------------
(* Leaving a room: on request, by a kick, or with the connection. *)

LeftRooms(x, r, u, left) ==
  [x.rooms EXCEPT ![r] = IF x.rooms[r].players \ {u} = {} THEN NoRecord ELSE left]
LeftIndex(x, r, u) ==
  [x.index EXCEPT ![r] = IF x.rooms[r].players \ {u} = {} THEN {} ELSE x.index[r] \ {u}]

LEMMA LeftCarries ==
  ASSUME NEW rec \in SoundRecord, NEW u \in Users, NEW left \in Lefts(rec, u),
         rec.players \ {u} # {}
  PROVE  /\ left \in SoundRecord /\ left \in Record
         /\ left.players = rec.players \ {u} /\ left.started = rec.started
  <1>1. left \in Left(rec, u)
    BY DEF Lefts
  <1>2. left \in SoundRecord
    BY <1>1, LeftSound DEF Someone
  <1> QED BY <1>1, <1>2 DEF Left, SoundRecord, Record

LEMMA LeftTypes ==
  ASSUME NEW x \in States, NEW r \in Rooms, NEW u \in Users, NEW left,
         x.rooms[r] \in SoundRecord, left \in Lefts(x.rooms[r], u)
  PROVE  /\ LeftRooms(x, r, u, left) \in [Rooms -> Record \cup {NoRecord}]
         /\ LeftIndex(x, r, u) \in [Rooms -> SUBSET Users]
  <1>1. x.rooms[r].players \ {u} # {} => left \in Record
    BY LeftCarries
  <1>2. /\ x.rooms \in [Rooms -> Record \cup {NoRecord}] /\ x.index \in [Rooms -> SUBSET Users]
    BY StateTypes
  <1> QED BY <1>1, <1>2 DEF LeftRooms, LeftIndex

LEMMA LeftAgrees ==
  ASSUME NEW x \in States, NEW v \in States, NEW o, NEW g, Agree(x, o, g),
         NEW r \in Rooms, NEW u \in Users, x.rooms[r] # NoRecord, x.rooms[r] \in SoundRecord,
         NEW left \in Lefts(x.rooms[r], u),
         v.rooms = LeftRooms(x, r, u, left), v.index = LeftIndex(x, r, u),
         v.engines = x.engines, v.live = x.live,
         \A w \in Users : w # u => v.sess[w] = x.sess[w],
         v.sess[u] # NoSession => v.sess[u].room = NoRoom,
         \A c \in Conns : v.mem[c].user = x.mem[c].user
                          /\ v.mem[c].room \in {x.mem[c].room, NoRoom},
         \A w \in Users : w # u /\ x.live[w] # NoConn =>
           v.mem[x.live[w]].room = x.mem[x.live[w]].room,
         x.live[u] # NoConn => v.mem[x.live[u]].room = NoRoom
  PROVE  Agree(v, o, g)
  <1> DEFINE gone == x.rooms[r].players \ {u} = {}
  <1>1. /\ \A q \in Rooms : v.rooms[q] = IF q # r THEN x.rooms[q]
                                         ELSE IF gone THEN NoRecord ELSE left
        /\ \A q \in Rooms : v.index[q] = IF q # r THEN x.index[q]
                                         ELSE IF gone THEN {} ELSE x.index[r] \ {u}
    <2>1. x.rooms \in [Rooms -> Record \cup {NoRecord}] /\ x.index \in [Rooms -> SUBSET Users]
      BY StateTypes
    <2> QED BY <2>1 DEF LeftRooms, LeftIndex
  <1>2. ~gone => left.players = x.rooms[r].players \ {u} /\ left.started = x.rooms[r].started
    BY LeftCarries
  <1> HIDE DEF gone
  <1>3. MembersAgree(v) /\ ObjectsAgree(v)
    <2>1. ASSUME NEW w \in Users, NEW q \in Somewhere, w # u, Placed(x, w, q)
          PROVE  Placed(v, w, q)
      BY <1>1, <1>2, <2>1 DEF Placed, Somewhere
    <2>2. Placed(v, u, NoRoom)
      BY DEF Placed
    <2>3. MembersAgree(x) /\ ObjectsAgree(x)
      BY DEF Agree
    <2>4. \A w \in Users : x.live[w] # NoConn =>
            x.live[w] \in Conns /\ v.mem[x.live[w]].user = x.mem[x.live[w]].user
      BY StateTypes
    <2>5. v.live[u] # NoConn =>
            /\ v.mem[v.live[u]].user = u /\ v.mem[v.live[u]].room = NoRoom
      BY <2>3, <2>4 DEF ObjectsAgree
    <2> QED BY <2>1, <2>2, <2>3, <2>4, <2>5, OthersStay
  <1>5. RecordsAgree(v)
    BY <1>1, <1>2 DEF Agree, RecordsAgree
  <1>6. LoopsOwn(v, o)
    BY DEF Agree, LoopsOwn
  <1>7. OthersBlank(v, g)
    <2> SUFFICES ASSUME NEW q \in Rooms \ g
                 PROVE  /\ v.rooms[q] = NoRecord /\ v.index[q] = {} /\ q \notin v.engines
                        /\ \A w \in Users : v.sess[w] # NoSession => v.sess[w].room # q
                        /\ \A c \in Conns : v.mem[c].room # q
      BY DEF OthersBlank
    <2>1. /\ x.rooms[q] = NoRecord /\ x.index[q] = {} /\ q \notin x.engines
          /\ \A w \in Users : x.sess[w] # NoSession => x.sess[w].room # q
          /\ \A c \in Conns : x.mem[c].room # q
      BY DEF Agree, OthersBlank
    <2>2. q # r
      BY <2>1
    <2> QED BY <1>1, <2>1, <2>2, RoomsAssumption
  <1> QED BY <1>3, <1>5, <1>6, <1>7 DEF Agree

\* The calls that store what is left of the room.
LEMMA LeftStored ==
  ASSUME NEW x \in States, NEW v, NEW r \in Rooms, NEW u \in Users,
         x.rooms[r] \in SoundRecord, NEW left \in Lefts(x.rooms[r], u),
         v.rooms = LeftRooms(x, r, u, left), v.index = LeftIndex(x, r, u),
         NEW P, RemoveIndex(r, u) \in P, Elems(StoreLeft(r, x.rooms[r], u, left)) \subseteq P
  PROVE  /\ Keeps(RemoveIndex(r, u), x, v)
         /\ \A op \in Elems(StoreLeft(r, x.rooms[r], u, left)) : Keeps(op, x, v)
         /\ \A q \in Rooms : (\E op \in P : WritesRoom(op, q)) \/ x.rooms[q] = v.rooms[q]
         /\ \A q \in Rooms, w \in Users :
              (\E op \in P : WritesIndex(op, q, w, x)) \/ (w \in x.index[q] <=> w \in v.index[q])
  <1> DEFINE gone == x.rooms[r].players \ {u} = {}
             S == Elems(StoreLeft(r, x.rooms[r], u, left))
  <1> USE DEF Keeps, KeepsRoom, KeepsIndex, KeepsSession, KeepsObject, KeepsEngine, KeepsRead
  <1>1. /\ \A q \in Rooms : v.rooms[q] = IF q # r THEN x.rooms[q]
                                         ELSE IF gone THEN NoRecord ELSE left
        /\ \A q \in Rooms : v.index[q] = IF q # r THEN x.index[q]
                                         ELSE IF gone THEN {} ELSE x.index[r] \ {u}
    <2>1. x.rooms \in [Rooms -> Record \cup {NoRecord}] /\ x.index \in [Rooms -> SUBSET Users]
      BY StateTypes
    <2> QED BY <2>1 DEF LeftRooms, LeftIndex
  <1>2. S = IF gone THEN {DeleteRoom(r), DeleteIndex(r)} ELSE {SaveRoom(r, left)}
    BY ElemsOfTuples DEF StoreLeft
  <1> HIDE DEF gone, S
  <1>3. Keeps(RemoveIndex(r, u), x, v)
    BY <1>1 DEF RemoveIndex
  <1>4. ASSUME NEW op \in S PROVE Keeps(op, x, v)
    BY <1>1, <1>2 DEF DeleteRoom, DeleteIndex, SaveRoom
  <1>5. \E op \in P : WritesRoom(op, r)
    <2>1. DeleteRoom(r) \in P \/ SaveRoom(r, left) \in P
      BY <1>2 DEF S
    <2>2. WritesRoom(DeleteRoom(r), r) /\ WritesRoom(SaveRoom(r, left), r)
      BY DEF WritesRoom, DeleteRoom, SaveRoom
    <2> QED BY <2>1, <2>2
  <1>6. ASSUME NEW w \in Users
        PROVE  (\E op \in P : WritesIndex(op, r, w, x)) \/ (w \in x.index[r] <=> w \in v.index[r])
    <2>1. CASE gone
      <3>1. DeleteIndex(r) \in P /\ WritesIndex(DeleteIndex(r), r, w, x)
        BY <1>2, <2>1 DEF WritesIndex, DeleteIndex, S
      <3> QED BY <3>1
    <2>2. CASE ~gone /\ w = u
      <3>1. RemoveIndex(r, u) \in P /\ WritesIndex(RemoveIndex(r, u), r, w, x)
        BY <2>2 DEF WritesIndex, RemoveIndex
      <3> QED BY <3>1
    <2>3. CASE ~gone /\ w # u
      BY <1>1, <2>3
    <2> QED BY <2>1, <2>2, <2>3
  <1>7. \A q \in Rooms : (\E op \in P : WritesRoom(op, q)) \/ x.rooms[q] = v.rooms[q]
    BY <1>1, <1>5
  <1>8. \A q \in Rooms, w \in Users :
          (\E op \in P : WritesIndex(op, q, w, x)) \/ (w \in x.index[q] <=> w \in v.index[q])
    BY <1>1, <1>6
  <1>9. \A op \in Elems(StoreLeft(r, x.rooms[r], u, left)) : Keeps(op, x, v)
    BY <1>4 DEF S
  <1> HIDE DEF Keeps
  <1> QED BY <1>3, <1>7, <1>8, <1>9

LEMMA StoreLeftCalls ==
  ASSUME NEW r, NEW rec, NEW u, NEW left, NEW op \in Elems(StoreLeft(r, rec, u, left))
  PROVE  op.call \in {"saveRoom", "deleteRoom", "deleteIndex"}
  <1>1. op \in {DeleteRoom(r), DeleteIndex(r), SaveRoom(r, left)}
    BY ElemsOfTuples DEF StoreLeft
  <1> QED BY <1>1 DEF DeleteRoom, DeleteIndex, SaveRoom

LEMMA LeaveRoomAgrees ==
  ASSUME IInv, SInv, NEW c \in Conns, NEW r \in Rooms, LeaveRoom(c, r)
  PROVE  SInv'
  <1> DEFINE x == Now'
             u == mem[c].user
             first == <<RemoveIndex(r, u)>>
             last  == <<SessionRoom(u, NoRoom), SetLiveRoom(c, NoRoom)>>
  <1>1. PICK left \in Lefts(rooms[r], u) :
          Receive(c, first \o StoreLeft(r, rooms[r], u, left) \o last)
    BY DEF LeaveRoom
  <1> DEFINE store == StoreLeft(r, rooms[r], u, left)
             calls == first \o store \o last
             P == {RemoveIndex(r, u)} \cup Elems(store)
                    \cup {SessionRoom(u, NoRoom), SetLiveRoom(c, NoRoom)}
             v == [rooms |-> LeftRooms(x, r, u, left), index |-> LeftIndex(x, r, u),
                   sess |-> [x.sess EXCEPT ![u] = IF x.sess[u] = NoSession THEN NoSession
                                                ELSE [x.sess[u] EXCEPT !.room = NoRoom]],
                   live |-> x.live,
                   mem |-> [x.mem EXCEPT ![c] = [x.mem[c] EXCEPT !.room = NoRoom]],
                   engines |-> x.engines]
  <1>2. u \in Users /\ u \in Someone
    BY <1>1, Requester DEF Someone
  <1>3. rooms[r] \in SoundRecord /\ rooms[r] # NoRecord /\ created' = created
    BY ReadSound DEF LeaveRoom, InRoom
  <1>4. Elems(calls) = P
    <2> HIDE DEF u
    <2>1. first \in Seq(Ops) /\ last \in Seq(Ops)
      BY <1>2, RoomOps, UserOps, ObjectOps, OpSeqs DEF Somewhere
    <2>2. Elems(first) = {RemoveIndex(r, u)}
          /\ Elems(last) = {SessionRoom(u, NoRoom), SetLiveRoom(c, NoRoom)}
      BY ElemsOfTuples
    <2> HIDE DEF first, last
    <2>3. store \in Seq(Ops)
      BY <1>2, <1>3, StoreLeftOps
    <2> HIDE DEF store
    <2>4. first \o store \in Seq(Ops)
      BY <2>1, <2>3, OpSeqs
    <2> QED BY <2>1, <2>2, <2>3, <2>4, ElemsOfConcat
  <1>5. Ordered(calls)
    <2>1. \A op \in P : op.call \in {"removeIndex", "saveRoom", "deleteRoom", "deleteIndex",
                                     "sessionRoom", "setLiveRoom"}
      BY StoreLeftCalls DEF RemoveIndex, SessionRoom, SetLiveRoom
    <2> HIDE DEF calls, P
    <2>2. \A op \in Elems(calls) : op.call \notin Reads \cup {"claim", "sessionMove", "saveObject"}
      BY <1>4, <2>1 DEF Reads
    <2> QED BY <2>2, OrderOfPlain
  <1>6. x.rooms = rooms /\ x.mem[c].user = u
    BY <1>1 DEF Now, Receive, redis
  <1> HIDE DEF x, u, calls
  <1>7. ASSUME x \in States, Agree(x, open, created), Requests(c, x)
        PROVE  v \in States /\ Agree(v, open, created) /\ Leads(P, x, v)
    <2>1. x.live[u] = c /\ c # NoConn
      BY <1>6, <1>7, ConnsAssumption DEF Requests
    <2>2. /\ x.mem \in [Conns -> Objects] /\ x.sess \in [Users -> Session \cup {NoSession}]
          /\ x.mem[c] \in Objects
      BY <1>7, StateTypes
    <2> DEFINE s2 == IF x.sess[u] = NoSession THEN NoSession
                                                ELSE [x.sess[u] EXCEPT !.room = NoRoom]
               m2 == [x.mem[c] EXCEPT !.room = NoRoom]
    <2>3. /\ s2 \in Session \cup {NoSession}
          /\ s2 # NoSession => s2.room = NoRoom
          /\ x.sess[u] = NoSession => s2 = NoSession
      BY <1>2, <2>2 DEF Session
    <2>4. m2 \in Objects /\ m2.room = NoRoom /\ m2.user = u
      BY <1>6, <2>2 DEF Objects, Somewhere
    <2>5. v \in States
      <3> HIDE DEF s2, m2
      <3>1. [x.sess EXCEPT ![u] = s2] \in [Users -> Session \cup {NoSession}]
            /\ [x.mem EXCEPT ![c] = m2] \in [Conns -> Objects]
        BY <2>2, <2>3, <2>4
      <3>2. /\ LeftRooms(x, r, u, left) \in [Rooms -> Record \cup {NoRecord}]
            /\ LeftIndex(x, r, u) \in [Rooms -> SUBSET Users]
        BY <1>2, <1>3, <1>6, <1>7, LeftTypes
      <3>3. x.live \in [Users -> Conns \cup {NoConn}] /\ x.engines \in SUBSET Rooms
        BY <1>7, StateTypes
      <3> QED BY <3>1, <3>2, <3>3 DEF States, s2, m2
    <2>6. /\ v.rooms = LeftRooms(x, r, u, left) /\ v.index = LeftIndex(x, r, u)
          /\ v.engines = x.engines /\ v.live = x.live
          /\ \A w \in Users : v.sess[w] = IF w = u THEN s2 ELSE x.sess[w]
          /\ \A d \in Conns : v.mem[d] = IF d = c THEN m2 ELSE x.mem[d]
      BY <2>2
    <2> HIDE DEF v
    <2>7. \A w \in Users : w # u /\ x.live[w] # NoConn => x.live[w] \in Conns /\ x.live[w] # c
      <3>1. ASSUME NEW w \in Users, x.live[w] # NoConn
            PROVE  x.live[w] \in Conns /\ x.mem[x.live[w]].user = w
        BY <1>7, <3>1, StateTypes DEF Agree, ObjectsAgree
      <3> QED BY <1>6, <3>1
    <2>8. Agree(v, open, created)
      <3> HIDE DEF s2, m2
      <3>1. /\ \A d \in Conns : v.mem[d].user = x.mem[d].user
                                  /\ v.mem[d].room \in {x.mem[d].room, NoRoom}
            /\ \A w \in Users : w # u /\ x.live[w] # NoConn =>
                 v.mem[x.live[w]].room = x.mem[x.live[w]].room
            /\ v.mem[x.live[u]].room = NoRoom
            /\ v.sess[u] # NoSession => v.sess[u].room = NoRoom
            /\ \A w \in Users : w # u => v.sess[w] = x.sess[w]
        BY <1>2, <1>6, <2>1, <2>3, <2>4, <2>6, <2>7
      <3> QED BY <1>2, <1>3, <1>6, <1>7, <2>5, <2>6, <3>1, LeftAgrees
    <2>9. Leads(P, x, v)
      <3>1. RemoveIndex(r, u) \in P /\ Elems(store) \subseteq P
        OBVIOUS
      <3>2. /\ Keeps(RemoveIndex(r, u), x, v) /\ \A op \in Elems(store) : Keeps(op, x, v)
            /\ \A q \in Rooms : (\E op \in P : WritesRoom(op, q)) \/ x.rooms[q] = v.rooms[q]
            /\ \A q \in Rooms, w \in Users :
                 \/ \E op \in P : WritesIndex(op, q, w, x)
                 \/ w \in x.index[q] <=> w \in v.index[q]
        <4> HIDE DEF P
        <4> QED BY <1>2, <1>3, <1>6, <1>7, <2>6, <3>1, LeftStored
      <3>3. Keeps(SessionRoom(u, NoRoom), x, v)
        BY <1>2, <2>1, <2>6
           DEF SessionRoom, Keeps, KeepsRoom, KeepsIndex, KeepsSession, KeepsObject,
               KeepsEngine, KeepsRead
      <3>4. Keeps(SetLiveRoom(c, NoRoom), x, v)
        BY <1>2, <1>6, <2>1, <2>6
           DEF SetLiveRoom, Keeps, KeepsRoom, KeepsIndex, KeepsSession, KeepsObject,
               KeepsEngine, KeepsRead
      <3>5. WritesSession(SessionRoom(u, NoRoom), u, v)
            /\ WritesObject(SetLiveRoom(c, NoRoom), c, v)
        BY DEF WritesSession, WritesObject, SessionRoom, SetLiveRoom
      <3>6. SessionRoom(u, NoRoom) \in P /\ SetLiveRoom(c, NoRoom) \in P
        OBVIOUS
      <3>7. \A op \in P : Keeps(op, x, v)
        BY <3>2, <3>3, <3>4
      <3> HIDE DEF P, s2, m2
      <3> QED BY <2>6, <3>2, <3>5, <3>6, <3>7 DEF Leads, Reached
    <2> QED BY <2>5, <2>8, <2>9
  <1> HIDE DEF v, P
  <1>8. Receive(c, calls)
    BY <1>1 DEF calls, u
  <1> QED BY <1>3, <1>4, <1>5, <1>7, <1>8, Received DEF x

LEMMA KickTargetAgrees ==
  ASSUME IInv, IInv', SInv, NEW t \in Threads, KickTarget(t)
  PROVE  SInv'
  <1> DEFINE x == Now
             op == Head(todo[t])
             r == op.room
             u == op.user
             s == sess[u]
             s2 == [s EXCEPT !.room = NoRoom]
             last == <<SaveSession(u, s2), RemoveIndex(r, u), SetLiveRoomByID(u)>>
  <1>1. ~Idle(t) /\ op.call = "checkTarget" /\ op.call \in Reads
    BY DEF KickTarget, Calls, Reads
  <1>2. r \in Rooms /\ u \in Users /\ op.rec \in SoundRecord
    BY <1>1, NextOp, OpCarries
  <1>3. UNCHANGED <<open, created, crashes, raced, doubled>> /\ Now' = Now /\ Now \in States
    BY NowIsState DEF KickTarget, redis, memory, counts, history, Now
  <1>4. CASE Aborts(t)
    <2>1. Leads(Elems(<<>>), Now, Now)
      BY ElemsOfTuples, ReachedItself DEF Leads
    <2> QED BY <1>1, <1>3, <1>4, <2>1, ReadMade, ElemsOfTuples, OpSeqs
  <1>5. CASE /\ s # NoSession /\ s.room = r
             /\ \E left \in Lefts(op.rec, u) : Goes(t, StoreLeft(r, op.rec, u, left) \o last)
    <2>1. PICK left \in Lefts(op.rec, u) : Goes(t, StoreLeft(r, op.rec, u, left) \o last)
      BY <1>5
    <2> DEFINE store == StoreLeft(r, op.rec, u, left)
               calls == store \o last
               P == Elems(store)
                      \cup {SaveSession(u, s2), RemoveIndex(r, u), SetLiveRoomByID(u)}
               v == [rooms |-> LeftRooms(x, r, u, left), index |-> LeftIndex(x, r, u),
                     sess |-> [x.sess EXCEPT ![u] = s2], live |-> x.live,
                     mem |-> [c \in Conns |-> IF x.live[u] = c
                                             THEN [x.mem[c] EXCEPT !.room = NoRoom]
                                             ELSE x.mem[c]],
                     engines |-> x.engines]
    <2>2. s \in Session /\ s2 \in Session /\ s2.room = NoRoom
      <3>1. s \in Session
        BY <1>2, <1>5 DEF IInv, TypeOK
      <3> QED BY <3>1 DEF Session
    <2>3. u \in Someone
      BY <1>2 DEF Someone
    <2>4. x.rooms = rooms /\ x.sess[u] = s
      BY DEF Now
    <2> HIDE DEF u, r, s2, s, x
    <2>5. calls \in Seq(Ops) /\ Elems(calls) = P
      <3>1. last \in Seq(Ops) /\ Elems(last) = {SaveSession(u, s2), RemoveIndex(r, u), SetLiveRoomByID(u)}
        BY <1>2, <2>2, <2>3, RoomOps, UserOps, OpSeqs, ElemsOfTuples
      <3> HIDE DEF last
      <3>2. store \in Seq(Ops)
        BY <1>2, <2>3, StoreLeftOps
      <3> HIDE DEF store
      <3> QED BY <3>1, <3>2, OpSeqs, ElemsOfConcat
    <2>6. Ordered(calls)
      <3>1. \A a \in P : a.call \in {"saveRoom", "deleteRoom", "deleteIndex",
                                     "saveSession", "removeIndex", "setLiveRoomByID"}
        BY StoreLeftCalls DEF SaveSession, RemoveIndex, SetLiveRoomByID
      <3> HIDE DEF calls, P
      <3>2. \A a \in Elems(calls) : a.call \notin Reads \cup {"claim", "sessionMove", "saveObject"}
        BY <2>5, <3>1 DEF Reads
      <3> QED BY <3>2, OrderOfPlain
    <2> HIDE DEF calls
    <2>7. ASSUME Agree(x, open, created), op.rec = x.rooms[r], x.rooms[r] # NoRecord
          PROVE  v \in States /\ Agree(v, open, created) /\ Leads(P, x, v)
      <3> HIDE DEF op
      <3>1. /\ x \in States /\ x.mem \in [Conns -> Objects]
            /\ x.sess \in [Users -> Session \cup {NoSession}]
            /\ x.live \in [Users -> Conns \cup {NoConn}] /\ x.engines \in SUBSET Rooms
        BY <1>3, StateTypes DEF x
      <3>2. v \in States
        <4>1. /\ LeftRooms(x, r, u, left) \in [Rooms -> Record \cup {NoRecord}]
              /\ LeftIndex(x, r, u) \in [Rooms -> SUBSET Users]
          BY <1>2, <2>7, <3>1, LeftTypes
        <4>2. [x.sess EXCEPT ![u] = s2] \in [Users -> Session \cup {NoSession}]
          BY <2>2, <3>1
        <4>3. ASSUME NEW c \in Conns PROVE [x.mem[c] EXCEPT !.room = NoRoom] \in Objects
          BY <3>1 DEF Objects, Somewhere
        <4> QED BY <3>1, <4>1, <4>2, <4>3 DEF States
      <3>3. /\ v.rooms = LeftRooms(x, r, u, left) /\ v.index = LeftIndex(x, r, u)
            /\ v.engines = x.engines /\ v.live = x.live
            /\ \A w \in Users : v.sess[w] = IF w = u THEN s2 ELSE x.sess[w]
            /\ \A c \in Conns : v.mem[c] = IF x.live[u] = c
                                           THEN [x.mem[c] EXCEPT !.room = NoRoom]
                                           ELSE x.mem[c]
        BY <3>1
      <3> HIDE DEF v
      <3>4. /\ \A c \in Conns : v.mem[c].user = x.mem[c].user
                                /\ v.mem[c].room \in {x.mem[c].room, NoRoom}
            /\ x.live[u] # NoConn => v.mem[x.live[u]].room = NoRoom
        BY <1>2, <3>1, <3>3 DEF Objects
      <3>5. ASSUME NEW w \in Users, w # u, x.live[w] # NoConn
            PROVE  v.mem[x.live[w]].room = x.mem[x.live[w]].room
        <4>1. x.live[w] \in Conns /\ x.mem[x.live[w]].user = w
          BY <2>7, <3>1, <3>5 DEF Agree, ObjectsAgree
        <4>2. x.live[u] # NoConn => x.mem[x.live[u]].user = u
          BY <1>2, <2>7 DEF Agree, ObjectsAgree
        <4>3. x.live[w] # x.live[u]
          BY <3>5, <4>1, <4>2
        <4> QED BY <3>3, <4>1, <4>3
      <3>6. v.sess[u] \in Session /\ v.sess[u].room = NoRoom
        BY <1>2, <2>2, <3>3
      <3>7. Agree(v, open, created)
        BY <1>2, <2>7, <3>1, <3>2, <3>3, <3>4, <3>5, <3>6, LeftAgrees
      <3>8. Leads(P, x, v)
        <4>1. /\ RemoveIndex(r, u) \in P /\ Elems(store) \subseteq P
              /\ SaveSession(u, s2) \in P /\ SetLiveRoomByID(u) \in P
          OBVIOUS
        <4>2. /\ Keeps(RemoveIndex(r, u), x, v) /\ \A a \in Elems(store) : Keeps(a, x, v)
              /\ \A q \in Rooms : (\E a \in P : WritesRoom(a, q)) \/ x.rooms[q] = v.rooms[q]
              /\ \A q \in Rooms, w \in Users :
                   \/ \E a \in P : WritesIndex(a, q, w, x)
                   \/ w \in x.index[q] <=> w \in v.index[q]
          <5>1. /\ left \in Lefts(x.rooms[r], u) /\ x.rooms[r] \in SoundRecord
                /\ store = StoreLeft(r, x.rooms[r], u, left)
            BY <1>2, <2>7
          <5> HIDE DEF P, store
          <5>2. Elems(StoreLeft(r, x.rooms[r], u, left)) \subseteq P
            BY <4>1, <5>1
          <5>3. /\ Keeps(RemoveIndex(r, u), x, v)
                /\ \A a \in Elems(StoreLeft(r, x.rooms[r], u, left)) : Keeps(a, x, v)
                /\ \A q \in Rooms : (\E a \in P : WritesRoom(a, q)) \/ x.rooms[q] = v.rooms[q]
                /\ \A q \in Rooms, w \in Users :
                     \/ \E a \in P : WritesIndex(a, q, w, x)
                     \/ w \in x.index[q] <=> w \in v.index[q]
            BY <1>2, <3>1, <3>3, <4>1, <5>1, <5>2, LeftStored
          <5> QED BY <5>1, <5>3
        <4>3. Keeps(SaveSession(u, s2), x, v)
          BY <1>2, <3>3 DEF SaveSession, Keeps, KeepsRoom, KeepsIndex, KeepsSession,
             KeepsObject, KeepsEngine, KeepsRead
        <4>4. Keeps(SetLiveRoomByID(u), x, v)
          BY <1>2, <3>3 DEF SetLiveRoomByID, Keeps, KeepsRoom, KeepsIndex, KeepsSession,
             KeepsObject, KeepsEngine, KeepsRead
        <4>5. /\ WritesSession(SaveSession(u, s2), u, v)
              /\ \A c \in Conns : x.live[u] = c => WritesObject(SetLiveRoomByID(u), c, v)
          BY <3>3 DEF WritesSession, WritesObject, SaveSession, SetLiveRoomByID
        <4>6. \A a \in P : Keeps(a, x, v)
          BY <4>2, <4>3, <4>4
        <4> HIDE DEF P
        <4>7. /\ \A w \in Users : (\E a \in P : WritesSession(a, w, v)) \/ x.sess[w] = v.sess[w]
              /\ \A c \in Conns : (\E a \in P : WritesObject(a, c, v)) \/ x.mem[c] = v.mem[c]
          BY <3>3, <4>1, <4>5
        <4> QED BY <3>3, <4>2, <4>6, <4>7 DEF Leads, Reached
      <3> QED BY <3>2, <3>7, <3>8
    <2>8. Keeps(op, x, x) => op.rec = x.rooms[r] /\ x.rooms[r] # NoRecord
      BY <1>1 DEF Keeps, KeepsRead, r
    <2>9. Goes(t, calls)
      BY <2>1 DEF calls, u, r, s2, s
    <2> HIDE DEF v, P, op
    <2> QED BY <1>1, <1>3, <2>5, <2>6, <2>7, <2>8, <2>9, ReadMade DEF op, x
  <1> QED BY <1>4, <1>5 DEF KickTarget

LEMMA ReadRoomForLeaverAgrees ==
  ASSUME IInv, IInv', SInv, NEW t \in Threads, ReadRoomForLeaver(t)
  PROVE  SInv'
  <1> DEFINE x == Now
             op == Head(todo[t])
             obj == op.conn
             u   == mem[obj].user
             r   == mem[obj].room
             rec == IF r = NoRoom THEN NoRecord ELSE rooms[r]
             known == /\ u \in Users /\ r \in Rooms /\ live[u] = NoConn
                      /\ sess[u] # NoSession => sess[u].room = r
                      /\ Placed(Now, u, r)
  <1>1. ~Idle(t) /\ op.call = "readForLeaver" /\ op.call \in Reads
    BY DEF ReadRoomForLeaver, Calls, Reads
  <1>2. obj \in Conns
    BY <1>1, NextOp, OpCarries
  <1>3. UNCHANGED <<open, created, crashes, raced, doubled, rooms, index, sess, live, engines>>
        /\ Now \in States /\ Now' \in States
    BY NowIsState, NextIsState DEF ReadRoomForLeaver, redis, counts, history
  <1>4. Keeps(op, Now, Now) => known
    BY <1>1 DEF Keeps, KeepsRead, Now
  <1>5. u \in Someone /\ r \in Somewhere /\ mem[obj] \in Objects /\ mem \in [Conns -> Objects]
        /\ sess \in [Users -> Session \cup {NoSession}]
    BY <1>2 DEF IInv, TypeOK, Someone, Somewhere, Objects
  \* The session is deleted: no room, or none that is saved.
  <1>6. CASE rec = NoRecord /\ Goes(t, <<DeleteSession(u)>>) /\ mem' = mem
    <2> DEFINE calls == <<DeleteSession(u)>>
    <2>1. calls \in Seq(Ops) /\ Ordered(calls) /\ Elems(calls) = {DeleteSession(u)}
      BY <1>2, <1>5, ObjectOps, OpSeqs, ElemsOfTuples
    <2>2. Now' = Now
      BY <1>3, <1>6 DEF Now
    <2>3. Agree(Now, open, created) /\ Keeps(op, Now, Now) =>
            \E v \in States : Agree(v, open, created) /\ Leads(Elems(calls), Now', v)
      <3> HIDE DEF calls, op, u, r
      <3> QED BY <1>3, <1>4, <2>1, <2>2, WithoutSessionAgrees
    <2> HIDE DEF calls, op, known
    <2> QED BY <1>1, <1>3, <1>6, <2>1, <2>3, ReadMade DEF op, calls, obj
  \* A player of a game keeps its seat.
  <1>7. CASE /\ mem' = [mem EXCEPT ![obj].status = "disconnected"]
             /\ Goes(t, <<SaveObject(obj)>>)
    <2> DEFINE calls == <<SaveObject(obj)>>
               y == Now'
               saved == [room |-> r, status |-> "disconnected"]
               v == [rooms |-> x.rooms, index |-> x.index,
                     sess |-> [x.sess EXCEPT ![u] = saved],
                     live |-> x.live, mem |-> mem', engines |-> x.engines]
    <2>1. calls \in Seq(Ops) /\ Ordered(calls) /\ Elems(calls) = {SaveObject(obj)}
      BY <1>2, ObjectOps, OpSeqs, ElemsOfTuples
    <2>2. /\ mem' \in [Conns -> Objects]
          /\ \A c \in Conns : mem'[c].user = mem[c].user /\ mem'[c].room = mem[c].room
          /\ mem'[obj].user = u /\ mem'[obj].room = r /\ mem'[obj].status = "disconnected"
      BY <1>2, <1>5, <1>7 DEF Objects, Statuses
    <2>3. ASSUME Agree(x, open, created), known
          PROVE  v \in States /\ Agree(v, open, created) /\ Leads({SaveObject(obj)}, y, v)
      <3>1. /\ x.live[u] = NoConn /\ u \in Users /\ x.mem = mem
            /\ Placed(x, u, r) /\ x.mem[obj].room = r
        BY <2>3 DEF Now
      <3>2. saved \in Session /\ saved.room = r /\ saved.status = "disconnected"
            /\ saved # NoSession
        BY <1>5, SessionAssumption DEF Session, Somewhere, Statuses
      <3>3. /\ y.rooms = x.rooms /\ y.index = x.index /\ y.sess = x.sess /\ y.live = x.live
            /\ y.mem = mem' /\ y.engines = x.engines
        BY <1>3 DEF Now
      <3> DEFINE m == mem'
      <3> HIDE DEF x, u, r, saved, y, m
      <3>4. v \in States
        <4>1. [x.sess EXCEPT ![u] = saved] \in [Users -> Session \cup {NoSession}]
          BY <1>3, <3>2, StateTypes DEF x
        <4> QED BY <1>3, <2>2, <4>1, StateTypes DEF States, x
      <3>5. /\ v.rooms = x.rooms /\ v.index = x.index /\ v.live = x.live /\ v.mem = mem'
            /\ v.engines = x.engines
            /\ \A w \in Users : v.sess[w] = IF w = u THEN saved ELSE x.sess[w]
        BY <1>3, StateTypes DEF x
      <3> HIDE DEF v
      <3>6. Agree(v, open, created)
        <4>1. MembersAgree(v) /\ ObjectsAgree(v)
          <5>1. MembersAgree(x) /\ ObjectsAgree(x)
            BY <2>3 DEF Agree
          <5>2. \A w \in Users, q \in Somewhere : Placed(v, w, q) <=> Placed(x, w, q)
            BY <3>5, SamePlaces
          <5>3. \A w \in Users : x.live[w] # NoConn => x.live[w] \in Conns
            BY <1>3, StateTypes DEF x
          <5>4. v.live[u] = NoConn /\ Placed(v, u, v.sess[u].room)
            BY <1>5, <3>1, <3>2, <3>5, <5>2
          <5> QED BY <1>3, <2>2, <3>1, <3>4, <3>5, <5>1, <5>2, <5>3, <5>4, OthersStay DEF x
        <4>2. RecordsAgree(v) /\ LoopsOwn(v, open)
          BY <2>2, <2>3, <3>1, <3>5 DEF Agree, RecordsAgree, LoopsOwn
        <4>3. OthersBlank(v, created)
          BY <1>2, <2>2, <2>3, <3>1, <3>2, <3>5 DEF Agree, OthersBlank
        <4> QED BY <4>1, <4>2, <4>3 DEF Agree
      <3>7. Keeps(SaveObject(obj), y, v)
        <4>1. /\ v.mem[obj].user \in Users
              /\ v.sess[v.mem[obj].user] = [room |-> v.mem[obj].room, status |-> v.mem[obj].status]
          BY <2>2, <3>1, <3>5 DEF saved
        <4> QED BY <4>1 DEF SaveObject, Keeps, KeepsRoom, KeepsIndex, KeepsSession,
             KeepsObject, KeepsEngine, KeepsRead
      <3>8. Reached({SaveObject(obj)}, y, v)
        <4>1. WritesSession(SaveObject(obj), u, v)
          BY <2>2, <3>5 DEF WritesSession, SaveObject
        <4> QED BY <3>3, <3>5, <4>1 DEF Reached
      <3> QED BY <3>4, <3>6, <3>7, <3>8 DEF Leads
    <2>4. Agree(x, open, created) /\ Keeps(op, x, x) =>
            \E w \in States : Agree(w, open, created) /\ Leads(Elems(calls), Now', w)
      <3> HIDE DEF v, known, op, calls
      <3> QED BY <1>4, <2>1, <2>3
    <2> HIDE DEF calls, v, known
    <2> QED BY <1>1, <1>3, <1>7, <2>1, <2>4, ReadMade DEF calls
  \* Anybody else leaves the room with the connection.
  <1>8. CASE /\ rec # NoRecord /\ mem' = mem
             /\ \E left \in Lefts(rec, u) :
                  Goes(t, <<RemoveIndex(r, u)>> \o StoreLeft(r, rec, u, left)
                            \o <<Forget(obj), DeleteSession(u)>>)
    <2> DEFINE first == <<RemoveIndex(r, u)>>
               last  == <<Forget(obj), DeleteSession(u)>>
    <2>1. rec = rooms[r] /\ r \in Rooms /\ rooms[r] # NoRecord
      BY <1>5, <1>8 DEF Somewhere
    <2>2. PICK left \in Lefts(rooms[r], u) :
            Goes(t, first \o StoreLeft(r, rooms[r], u, left) \o last)
      BY <1>8, <2>1
    <2> DEFINE store == StoreLeft(r, rooms[r], u, left)
               calls == first \o store \o last
               P == {RemoveIndex(r, u)} \cup Elems(store) \cup {Forget(obj), DeleteSession(u)}
               m2 == [mem[obj] EXCEPT !.room = NoRoom, !.status = "disconnected"]
               v == [rooms |-> LeftRooms(x, r, u, left), index |-> LeftIndex(x, r, u),
                     sess |-> [x.sess EXCEPT ![u] = NoSession], live |-> x.live,
                     mem |-> [x.mem EXCEPT ![obj] = m2], engines |-> x.engines]
    <2>3. rooms[r] \in SoundRecord
      BY <2>1, ReadSound
    <2>4. m2 \in Objects /\ m2.user = u /\ m2.room = NoRoom
      BY <1>5 DEF Objects, Somewhere, Statuses
    <2>5. x.rooms = rooms /\ x.mem = mem /\ x.live = live
      BY DEF Now
    <2> HIDE DEF u, r, m2, x, obj, rec
    <2>6. calls \in Seq(Ops) /\ Elems(calls) = P
      <3>1. /\ first \in Seq(Ops) /\ last \in Seq(Ops)
            /\ Elems(first) = {RemoveIndex(r, u)}
            /\ Elems(last) = {Forget(obj), DeleteSession(u)}
        BY <1>2, <1>5, <2>1, RoomOps, ObjectOps, OpSeqs, ElemsOfTuples
      <3> HIDE DEF first, last
      <3>2. store \in Seq(Ops)
        BY <1>5, <2>1, <2>3, StoreLeftOps
      <3> HIDE DEF store
      <3>3. first \o store \in Seq(Ops)
        BY <3>1, <3>2, OpSeqs
      <3> QED BY <3>1, <3>2, <3>3, OpSeqs, ElemsOfConcat
    <2>7. Ordered(calls)
      <3>1. \A a \in P : a.call \in {"removeIndex", "saveRoom", "deleteRoom", "deleteIndex",
                                     "forget", "deleteSession"}
        BY StoreLeftCalls DEF RemoveIndex, Forget, DeleteSession
      <3> HIDE DEF calls, P
      <3>2. \A a \in Elems(calls) : a.call \notin Reads \cup {"claim", "sessionMove", "saveObject"}
        BY <2>6, <3>1 DEF Reads
      <3> QED BY <3>2, OrderOfPlain
    <2> HIDE DEF calls
    <2>8. ASSUME Agree(x, open, created), u \in Users, x.live[u] = NoConn
          PROVE  v \in States /\ Agree(v, open, created) /\ Leads(P, x, v)
      <3>1. /\ x \in States /\ x.mem \in [Conns -> Objects]
            /\ x.sess \in [Users -> Session \cup {NoSession}]
            /\ x.live \in [Users -> Conns \cup {NoConn}] /\ x.engines \in SUBSET Rooms
        BY <1>3, StateTypes DEF x
      <3>2. v \in States
        <4>1. /\ LeftRooms(x, r, u, left) \in [Rooms -> Record \cup {NoRecord}]
              /\ LeftIndex(x, r, u) \in [Rooms -> SUBSET Users]
          BY <2>1, <2>3, <2>5, <2>8, <3>1, LeftTypes
        <4>2. /\ [x.sess EXCEPT ![u] = NoSession] \in [Users -> Session \cup {NoSession}]
              /\ [x.mem EXCEPT ![obj] = m2] \in [Conns -> Objects]
          BY <2>4, <3>1
        <4> QED BY <3>1, <4>1, <4>2 DEF States
      <3>3. /\ v.rooms = LeftRooms(x, r, u, left) /\ v.index = LeftIndex(x, r, u)
            /\ v.engines = x.engines /\ v.live = x.live
            /\ \A w \in Users : v.sess[w] = IF w = u THEN NoSession ELSE x.sess[w]
            /\ \A c \in Conns : v.mem[c] = IF c = obj THEN m2 ELSE x.mem[c]
        BY <3>1
      <3> HIDE DEF v
      <3>4. /\ \A c \in Conns : v.mem[c].user = x.mem[c].user
                                /\ v.mem[c].room \in {x.mem[c].room, NoRoom}
            /\ v.sess[u] = NoSession
        BY <2>4, <2>5, <2>8, <3>3 DEF u
      <3>5. ASSUME NEW w \in Users, w # u, x.live[w] # NoConn
            PROVE  v.mem[x.live[w]].room = x.mem[x.live[w]].room
        <4>1. x.live[w] \in Conns /\ x.mem[x.live[w]].user = w
          BY <2>8, <3>1, <3>5 DEF Agree, ObjectsAgree
        <4>2. x.live[w] # obj
          BY <2>5, <3>5, <4>1 DEF u
        <4> QED BY <3>3, <4>1, <4>2
      <3>6. Agree(v, open, created)
        BY <2>1, <2>3, <2>5, <2>8, <3>1, <3>2, <3>3, <3>4, <3>5, LeftAgrees
      <3>7. Leads(P, x, v)
        <4>1. /\ RemoveIndex(r, u) \in P /\ Elems(store) \subseteq P
              /\ Forget(obj) \in P /\ DeleteSession(u) \in P
          OBVIOUS
        <4>2. /\ Keeps(RemoveIndex(r, u), x, v) /\ \A a \in Elems(store) : Keeps(a, x, v)
              /\ \A q \in Rooms : (\E a \in P : WritesRoom(a, q)) \/ x.rooms[q] = v.rooms[q]
              /\ \A q \in Rooms, w \in Users :
                   \/ \E a \in P : WritesIndex(a, q, w, x)
                   \/ w \in x.index[q] <=> w \in v.index[q]
          <5> HIDE DEF P
          <5> QED BY <2>1, <2>3, <2>5, <2>8, <3>1, <3>3, <4>1, LeftStored
        <4>3. Keeps(DeleteSession(u), x, v)
          BY <2>8, <3>3 DEF DeleteSession, Keeps, KeepsRoom, KeepsIndex, KeepsSession,
             KeepsObject, KeepsEngine, KeepsRead
        <4>4. Keeps(Forget(obj), x, v)
          BY <1>2, <2>5, <3>3 DEF m2, Forget, Keeps, KeepsRoom, KeepsIndex, KeepsSession,
             KeepsObject, KeepsEngine, KeepsRead
        <4>5. /\ WritesSession(DeleteSession(u), u, v) /\ WritesObject(Forget(obj), obj, v)
          BY DEF WritesSession, WritesObject, DeleteSession, Forget
        <4>6. \A a \in P : Keeps(a, x, v)
          BY <4>2, <4>3, <4>4
        <4> HIDE DEF P
        <4>7. /\ \A w \in Users : (\E a \in P : WritesSession(a, w, v)) \/ x.sess[w] = v.sess[w]
              /\ \A c \in Conns : (\E a \in P : WritesObject(a, c, v)) \/ x.mem[c] = v.mem[c]
          BY <3>3, <4>1, <4>5
        <4> QED BY <3>3, <4>2, <4>6, <4>7 DEF Leads, Reached
      <3> QED BY <3>2, <3>6, <3>7
    <2>9. Goes(t, calls)
      BY <2>2 DEF calls
    <2>10. Now' = Now
      BY <1>3, <1>8 DEF Now
    <2>11. Keeps(op, x, x) => u \in Users /\ x.live[u] = NoConn
      BY <1>4, <2>5 DEF x, u, r, obj
    <2> HIDE DEF v, P, op, known
    <2> QED BY <1>1, <1>3, <2>6, <2>7, <2>8, <2>9, <2>10, <2>11, ReadMade DEF op, x
  <1> QED BY <1>6, <1>7, <1>8 DEF ReadRoomForLeaver

\* A loop that ends takes nothing away from what the others own.
LEMMA FewerLoops ==
  ASSUME NEW v, NEW o, NEW o2, NEW g, Agree(v, o, g), \A c \in Conns : o2[c] => o[c]
  PROVE  Agree(v, o2, g)
  BY DEF Agree, LoopsOwn

LEMMA UserDisconnectAgrees ==
  ASSUME IInv, SInv, Calm', NEW c \in Conns, open[c], mem[c].user \in Users,
         HandleUserDisconnect(c, c), \A d \in Conns : open'[d] => open[d]
  PROVE  SInv'
  <1> DEFINE u == mem[c].user
             r == mem[c].room
             y == Now'
  <1>1. Calm /\ Quiet /\ ~Stale(c) /\ c \in Threads
    BY DEF Calm, HandleUserDisconnect, Remember, Threads
  <1>2. Now \in States /\ Agree(Now, open, created)
    BY <1>1, Resting, NowIsState
  <1>3. (sess[u] # NoSession => sess[u].room = r) /\ Placed(Now, u, r)
    BY <1>1, Known
  <1>4. /\ live' = [live EXCEPT ![u] = NoConn]
        /\ todo' = [todo EXCEPT ![c] = IF r = NoRoom THEN <<DeleteSession(u)>>
                                                     ELSE <<ReadForLeaver(c)>>]
        /\ UNCHANGED <<rooms, index, sess, mem, engines, created>>
    BY DEF HandleUserDisconnect, Starts, redis
  <1>5. Now.mem = mem /\ Now.sess = sess
    BY DEF Now
  <1>6. y = WithEntry(Now, u, NoConn)
    BY <1>4 DEF Now, WithEntry
  <1>7. y \in States /\ Agree(y, open, created)
    <2> HIDE DEF y
    <2> QED BY <1>2, <1>3, <1>5, <1>6, WithEntryAgrees
  <1>8. CASE r = NoRoom
    <2> DEFINE calls == <<DeleteSession(u)>>
               v == WithoutSession(y, u)
    <2>1. Ordered(calls) /\ Elems(calls) = {DeleteSession(u)}
      BY ElemsOfTuples
    <2>2. todo' = [todo EXCEPT ![c] = calls]
      BY <1>4, <1>8
    <2>3. v \in States /\ Agree(v, open, created) /\ Leads(Elems(calls), y, v)
      <3> HIDE DEF y, calls
      <3> QED BY <1>7, <2>1, WithoutSessionAgrees
    <2> HIDE DEF v, calls
    <2>4. Agree(v, open', created')
      BY <1>4, <2>3, FewerLoops
    <2> QED BY <1>1, <2>1, <2>2, <2>3, <2>4, Started
  <1>9. CASE r # NoRoom
    <2> DEFINE calls == <<ReadForLeaver(c)>>
    <2>1. Ordered(calls) /\ Elems(calls) = {ReadForLeaver(c)}
      BY ElemsOfTuples
    <2>2. todo' = [todo EXCEPT ![c] = calls]
      BY <1>4, <1>9
    <2>3. /\ y.mem[c].user = u /\ y.mem[c].room = r /\ y.live[u] = NoConn
          /\ y.sess[u] = sess[u]
          /\ r \in Rooms
      BY <1>4, <1>9 DEF Now, IInv, TypeOK
    <2>4. Placed(y, u, r)
      <3>1. y.rooms = Now.rooms /\ y.index = Now.index
        BY <1>4 DEF Now
      <3> HIDE DEF y
      <3> QED BY <1>3, <3>1 DEF Placed
    <2>5. Keeps(ReadForLeaver(c), y, y)
      <3> HIDE DEF y, u, r
      <3>1. u \in Users
        BY DEF u
      <3> QED BY <1>3, <2>3, <2>4, <3>1 DEF ReadForLeaver, Keeps, KeepsRoom, KeepsIndex,
          KeepsSession, KeepsObject, KeepsEngine, KeepsRead
    <2> HIDE DEF calls, y
    <2>6. Leads(Elems(calls), y, y)
      BY <2>1, <2>5, ReachedItself DEF Leads
    <2>7. Agree(y, open', created')
      BY <1>4, <1>7, FewerLoops
    <2> QED BY <1>1, <1>7, <2>1, <2>2, <2>6, <2>7, Started DEF y
  <1> QED BY <1>8, <1>9

LEMMA AskToDisconnectAgrees ==
  ASSUME IInv, SInv, NEW c \in Conns, AskToDisconnect(c)
  PROVE  SInv'
  <1> SUFFICES ASSUME Calm' PROVE SInv'
    BY DEF SInv
  <1>1. open[c] /\ mem[c].user \in Users /\ HandleUserDisconnect(c, c) /\ open' = open
    BY DEF AskToDisconnect, IInv, TypeOK
  <1> QED BY <1>1, UserDisconnectAgrees

LEMMA DisconnectAgrees ==
  ASSUME IInv, SInv, NEW c \in Conns, Disconnect(c)
  PROVE  SInv'
  <1> SUFFICES ASSUME Calm' PROVE SInv'
    BY DEF SInv
  <1>1. Calm /\ Quiet /\ ~Stale(c)
    BY DEF Calm, Disconnect, HandleUserDisconnect, Remember
  <1>2. open[c] /\ mem[c].user \in Users /\ open' = [open EXCEPT ![c] = FALSE]
    BY DEF Disconnect, IInv, TypeOK
  <1>3. live[mem[c].user] \in {c, NoConn}
    BY <1>1, <1>2, Known
  <1>4. HandleUserDisconnect(c, c)
    BY <1>3 DEF Disconnect
  <1>5. \A d \in Conns : open'[d] => open[d]
    BY <1>2 DEF IInv, TypeOK
  <1> QED BY <1>2, <1>4, <1>5, UserDisconnectAgrees

LEMMA CreateRoomAgrees ==
  ASSUME IInv, SInv, NEW c \in Conns, NEW r \in Rooms, NEW n \in Sizes, CreateRoom(c, r, n)
  PROVE  SInv'
  <1> DEFINE x == Now'
             u == mem[c].user
             rec == NewRecord(u, n)
             calls == <<SaveRoom(r, rec), AddIndex(r, u), SessionRoom(u, r), SetLiveRoom(c, r)>>
             P == {SaveRoom(r, rec), AddIndex(r, u), SessionRoom(u, r), SetLiveRoom(c, r)}
             s2 == IF x.sess[u] = NoSession THEN NoSession
                                            ELSE [x.sess[u] EXCEPT !.room = r]
             m2 == [x.mem[c] EXCEPT !.room = r]
             v == [rooms |-> [x.rooms EXCEPT ![r] = rec],
                   index |-> [x.index EXCEPT ![r] = {u}],
                   sess |-> [x.sess EXCEPT ![u] = s2], live |-> x.live,
                   mem |-> [x.mem EXCEPT ![c] = m2], engines |-> x.engines]
  <1>1. Receive(c, calls) /\ r \notin created /\ created' = created \cup {r}
    BY DEF CreateRoom
  <1>2. u \in Users
    BY <1>1, Requester
  <1>3. Elems(calls) = P
    BY ElemsOfTuples
  <1>4. Ordered(calls)
    <2>1. \A op \in P : op.call \in {"saveRoom", "addIndex", "sessionRoom", "setLiveRoom"}
      BY DEF SaveRoom, AddIndex, SessionRoom, SetLiveRoom
    <2> HIDE DEF calls, P
    <2>2. \A op \in Elems(calls) : op.call \notin Reads \cup {"claim", "sessionMove", "saveObject"}
      BY <1>3, <2>1 DEF Reads
    <2> QED BY <2>2, OrderOfPlain
  <1>5. x.mem[c].user = u
    BY <1>1 DEF Now, Receive
  <1>6. rec \in Record /\ rec.players = {u} /\ rec.started = FALSE
    BY <1>2, NewRecordSound DEF SoundRecord, NewRecord
  <1> HIDE DEF x, u, calls, rec
  <1>7. ASSUME x \in States, Agree(x, open, created), Requests(c, x)
        PROVE  v \in States /\ Agree(v, open, created') /\ Leads(P, x, v)
    <2>1. x.live[u] = c /\ c # NoConn /\ r # NoRoom
      BY <1>5, <1>7, ConnsAssumption, RoomsAssumption DEF Requests
    <2>2. /\ x.rooms \in [Rooms -> Record \cup {NoRecord}] /\ x.index \in [Rooms -> SUBSET Users]
          /\ x.mem \in [Conns -> Objects] /\ x.sess \in [Users -> Session \cup {NoSession}]
          /\ x.live \in [Users -> Conns \cup {NoConn}] /\ x.engines \in SUBSET Rooms
          /\ x.mem[c] \in Objects
      BY <1>7, StateTypes
    <2>3. /\ s2 \in Session \cup {NoSession}
          /\ s2 # NoSession => s2.room = r
      <3>1. x.sess[u] # NoSession => x.sess[u] \in Session
        BY <1>2, <2>2
      <3> QED BY <3>1 DEF Session
    <2>4. m2 \in Objects /\ m2.room = r /\ m2.user = u
      BY <1>5, <2>2 DEF Objects, Somewhere
    <2>5. v \in States
      <3> HIDE DEF s2, m2
      <3>1. /\ [x.sess EXCEPT ![u] = s2] \in [Users -> Session \cup {NoSession}]
            /\ [x.mem EXCEPT ![c] = m2] \in [Conns -> Objects]
            /\ [x.rooms EXCEPT ![r] = rec] \in [Rooms -> Record \cup {NoRecord}]
            /\ [x.index EXCEPT ![r] = {u}] \in [Rooms -> SUBSET Users]
        BY <1>2, <1>6, <2>2, <2>3, <2>4
      <3> QED BY <2>2, <3>1 DEF States
    <2>6. /\ v.engines = x.engines /\ v.live = x.live
          /\ \A q \in Rooms : v.rooms[q] = IF q = r THEN rec ELSE x.rooms[q]
          /\ \A q \in Rooms : v.index[q] = IF q = r THEN {u} ELSE x.index[q]
          /\ \A w \in Users : v.sess[w] = IF w = u THEN s2 ELSE x.sess[w]
          /\ \A d \in Conns : v.mem[d] = IF d = c THEN m2 ELSE x.mem[d]
      BY <2>2
    <2> HIDE DEF v
    <2>7. /\ x.rooms[r] = NoRecord /\ x.index[r] = {} /\ r \notin x.engines
          /\ \A w \in Users : x.sess[w] # NoSession => x.sess[w].room # r
          /\ \A d \in Conns : x.mem[d].room # r
      BY <1>1, <1>7 DEF Agree, OthersBlank
    <2>8. Agree(v, open, created')
      <3> DEFINE g2 == created'
      <3>1. g2 = created \cup {r}
        BY <1>1
      <3> HIDE DEF s2, m2, g2
      <3>2. /\ \A w \in Users, q \in Somewhere : q # r /\ Placed(x, w, q) => Placed(v, w, q)
            /\ Placed(v, u, r)
        BY <1>6, <2>6 DEF Placed, Somewhere
      <3>3. MembersAgree(v) /\ ObjectsAgree(v)
        <4>1. ASSUME NEW w \in Users, v.sess[w] # NoSession PROVE Placed(v, w, v.sess[w].room)
          <5>1. CASE w = u
            BY <2>3, <2>6, <3>2, <4>1, <5>1
          <5>2. CASE w # u
            <6>1. v.sess[w] = x.sess[w] /\ x.sess[w].room \in Somewhere /\ x.sess[w].room # r
              BY <2>2, <2>6, <2>7, <4>1, <5>2 DEF Session, Somewhere
            <6>2. Placed(x, w, x.sess[w].room)
              BY <1>7, <4>1, <6>1 DEF Agree, MembersAgree
            <6> QED BY <3>2, <6>1, <6>2
          <5> QED BY <5>1, <5>2
        <4>2. ASSUME NEW w \in Users, v.live[w] # NoConn
              PROVE  /\ v.mem[v.live[w]].user = w
                     /\ Placed(v, w, v.mem[v.live[w]].room)
                     /\ v.sess[w] # NoSession => v.sess[w].room = v.mem[v.live[w]].room
          <5>1. CASE w = u
            BY <2>1, <2>3, <2>4, <2>6, <3>2, <5>1
          <5>2. CASE w # u
            <6>1. /\ x.live[w] \in Conns /\ x.live[w] # c /\ x.mem[x.live[w]].user = w
              BY <1>2, <1>5, <1>7, <2>6, <4>2, <5>2, OtherObjects DEF Agree
            <6>2. /\ Placed(x, w, x.mem[x.live[w]].room)
                  /\ x.sess[w] # NoSession => x.sess[w].room = x.mem[x.live[w]].room
              BY <1>7, <2>6, <4>2 DEF Agree, ObjectsAgree
            <6>3. x.mem[x.live[w]].room \in Somewhere /\ x.mem[x.live[w]].room # r
              BY <2>2, <2>7, <6>1 DEF Objects
            <6> QED BY <2>6, <3>2, <5>2, <6>1, <6>2, <6>3
          <5> QED BY <5>1, <5>2
        <4> QED BY <4>1, <4>2 DEF MembersAgree, ObjectsAgree
      <3>4. RecordsAgree(v)
        BY <1>6, <1>7, <2>6, <2>7 DEF Agree, RecordsAgree
      <3>5. LoopsOwn(v, open)
        BY <1>5, <1>7, <2>4, <2>6 DEF Agree, LoopsOwn
      <3>6. OthersBlank(v, g2)
        BY <1>7, <2>3, <2>4, <2>6, <3>1 DEF Agree, OthersBlank
      <3> QED BY <3>3, <3>4, <3>5, <3>6 DEF Agree, g2
    <2>9. Leads(P, x, v)
      <3> USE DEF Keeps, KeepsRoom, KeepsIndex, KeepsSession, KeepsObject, KeepsEngine, KeepsRead
      <3>1. Keeps(SaveRoom(r, rec), x, v) /\ Keeps(AddIndex(r, u), x, v)
        BY <2>6 DEF SaveRoom, AddIndex
      <3>2. Keeps(SessionRoom(u, r), x, v)
        BY <1>2, <2>1, <2>6 DEF SessionRoom
      <3>3. Keeps(SetLiveRoom(c, r), x, v)
        BY <1>2, <1>5, <2>1, <2>6 DEF SetLiveRoom
      <3>4. /\ WritesRoom(SaveRoom(r, rec), r) /\ WritesIndex(AddIndex(r, u), r, u, x)
            /\ WritesSession(SessionRoom(u, r), u, v) /\ WritesObject(SetLiveRoom(c, r), c, v)
        BY DEF WritesRoom, WritesIndex, WritesSession, WritesObject,
               SaveRoom, AddIndex, SessionRoom, SetLiveRoom
      <3>5. /\ SaveRoom(r, rec) \in P /\ AddIndex(r, u) \in P
            /\ SessionRoom(u, r) \in P /\ SetLiveRoom(c, r) \in P
        OBVIOUS
      <3> HIDE DEF Keeps
      <3>6. \A op \in P : Keeps(op, x, v)
        BY <3>1, <3>2, <3>3
      <3> HIDE DEF P, s2, m2
      <3>7. /\ \A q \in Rooms : (\E op \in P : WritesRoom(op, q)) \/ x.rooms[q] = v.rooms[q]
            /\ \A q \in Rooms, w \in Users :
                 \/ \E op \in P : WritesIndex(op, q, w, x)
                 \/ w \in x.index[q] <=> w \in v.index[q]
            /\ \A w \in Users : (\E op \in P : WritesSession(op, w, v)) \/ x.sess[w] = v.sess[w]
            /\ \A d \in Conns : (\E op \in P : WritesObject(op, d, v)) \/ x.mem[d] = v.mem[d]
        BY <2>6, <2>7, <3>4, <3>5
      <3> QED BY <2>6, <3>6, <3>7 DEF Leads, Reached
    <2> QED BY <2>5, <2>8, <2>9
  <1> HIDE DEF v, P
  <1> QED BY <1>1, <1>3, <1>4, <1>7, Received DEF x

LEMMA JoinRoomAgrees ==
  ASSUME IInv, SInv, NEW c \in Conns, NEW r \in Rooms, JoinRoom(c, r)
  PROVE  SInv'
  <1> DEFINE x == Now'
             u == mem[c].user
             member == u \in rooms[r].players
             rec == IF member THEN rooms[r] ELSE Joined(rooms[r], u)
             first == IF member THEN <<>> ELSE <<SaveRoom(r, Joined(rooms[r], u))>>
             rest == <<SessionMove(u, r), AddIndex(r, u), SetLiveRoom(c, r)>>
             calls == first \o rest
             P == (IF member THEN {} ELSE {SaveRoom(r, rec)})
                    \cup {SessionMove(u, r), AddIndex(r, u), SetLiveRoom(c, r)}
             old == IF x.sess[u] = NoSession THEN NoRoom ELSE x.sess[u].room
             s2 == IF x.sess[u] = NoSession THEN NoSession
                                            ELSE [x.sess[u] EXCEPT !.room = r]
             m2 == [x.mem[c] EXCEPT !.room = r]
             v == [rooms |-> [x.rooms EXCEPT ![r] = rec],
                   index |-> [q \in Rooms |-> IF q = r THEN x.index[q] \cup {u}
                                             ELSE IF q = old THEN x.index[q] \ {u}
                                             ELSE x.index[q]],
                   sess |-> [x.sess EXCEPT ![u] = s2], live |-> x.live,
                   mem |-> [x.mem EXCEPT ![c] = m2], engines |-> x.engines]
  <1>1. Receive(c, calls) /\ rooms[r] # NoRecord /\ HasSpace(rooms[r]) /\ created' = created
    BY DEF JoinRoom
  <1>2. u \in Users /\ rooms[r] \in SoundRecord
    BY <1>1, Requester, ReadSound
  <1>3. /\ rec \in SoundRecord /\ rec \in Record /\ rec.players = rooms[r].players \cup {u}
        /\ rec.started = rooms[r].started
    <2> HIDE DEF u
    <2>1. CASE member
      BY <1>2, <2>1 DEF SoundRecord
    <2>2. CASE ~member
      <3>1. Joined(rooms[r], u) \in SoundRecord
        BY <1>1, <1>2, JoinedSound
      <3>2. /\ Joined(rooms[r], u).players = rooms[r].players \cup {u}
            /\ Joined(rooms[r], u).started = rooms[r].started
        BY <1>2 DEF Joined, SoundRecord, Record
      <3> QED BY <2>2, <3>1, <3>2 DEF SoundRecord
    <2> QED BY <2>1, <2>2
  <1>4. /\ rest \in Seq(Ops) /\ Elems(rest) = {SessionMove(u, r), AddIndex(r, u), SetLiveRoom(c, r)}
        /\ Ordered(rest)
    <2>1. rest \in Seq(Ops)
      BY <1>2, RoomOps, UserOps, ObjectOps, OpSeqs DEF Somewhere
    <2>2. Ordered(rest)
      <3>1. /\ InOrder(SessionMove(u, r), AddIndex(r, u))
            /\ InOrder(SessionMove(u, r), SetLiveRoom(c, r))
            /\ InOrder(AddIndex(r, u), SetLiveRoom(c, r))
        BY DEF InOrder, Reads, SessionMove, AddIndex, SetLiveRoom
      <3> QED BY <3>1 DEF Ordered
    <2> QED BY <2>1, <2>2, ElemsOfTuples
  <1>5. Elems(calls) = P /\ Ordered(calls)
    <2>1. /\ first \in Seq(Ops) /\ Ordered(first)
          /\ Elems(first) = IF member THEN {} ELSE {SaveRoom(r, rec)}
      BY <1>2, <1>3, RoomOps, OpSeqs, ElemsOfTuples
    <2>2. \A a \in Elems(first), b \in Elems(rest) : InOrder(a, b)
      BY <1>4, <2>1 DEF InOrder, Reads, SaveRoom, SessionMove, AddIndex, SetLiveRoom
    <2> HIDE DEF first, rest
    <2> QED BY <1>4, <2>1, <2>2, ElemsOfConcat, OrderOfConcat
  <1>6. x.mem[c].user = u /\ x.rooms = rooms
    BY <1>1 DEF Now, Receive, redis
  <1>7. member => rec = x.rooms[r]
    BY <1>6
  <1> HIDE DEF x, u, calls, rec, member
  <1>8. ASSUME x \in States, Agree(x, open, created), Requests(c, x)
        PROVE  v \in States /\ Agree(v, open, created) /\ Leads(P, x, v)
    <2>1. x.live[u] = c /\ c # NoConn /\ r # NoRoom
      BY <1>6, <1>8, ConnsAssumption, RoomsAssumption DEF Requests
    <2>2. /\ x.rooms \in [Rooms -> Record \cup {NoRecord}] /\ x.index \in [Rooms -> SUBSET Users]
          /\ x.mem \in [Conns -> Objects] /\ x.sess \in [Users -> Session \cup {NoSession}]
          /\ x.live \in [Users -> Conns \cup {NoConn}] /\ x.engines \in SUBSET Rooms
          /\ x.mem[c] \in Objects
      BY <1>8, StateTypes
    <2>3. /\ s2 \in Session \cup {NoSession}
          /\ s2 # NoSession => s2.room = r
      <3>1. x.sess[u] # NoSession => x.sess[u] \in Session
        BY <1>2, <2>2
      <3> QED BY <3>1 DEF Session
    <2>4. m2 \in Objects /\ m2.room = r /\ m2.user = u
      BY <1>6, <2>2 DEF Objects, Somewhere
    <2>5. v \in States
      <3> HIDE DEF s2, m2, old
      <3>1. /\ [x.sess EXCEPT ![u] = s2] \in [Users -> Session \cup {NoSession}]
            /\ [x.mem EXCEPT ![c] = m2] \in [Conns -> Objects]
            /\ [x.rooms EXCEPT ![r] = rec] \in [Rooms -> Record \cup {NoRecord}]
        BY <1>2, <1>3, <2>2, <2>3, <2>4
      <3>2. v.index \in [Rooms -> SUBSET Users]
        BY <1>2, <2>2
      <3> QED BY <2>2, <3>1, <3>2 DEF States
    <2>6. /\ v.engines = x.engines /\ v.live = x.live
          /\ \A q \in Rooms : v.rooms[q] = IF q = r THEN rec ELSE x.rooms[q]
          /\ \A q \in Rooms : v.index[q] = IF q = r THEN x.index[q] \cup {u}
                                           ELSE IF q = old THEN x.index[q] \ {u} ELSE x.index[q]
          /\ \A w \in Users : v.sess[w] = IF w = u THEN s2 ELSE x.sess[w]
          /\ \A d \in Conns : v.mem[d] = IF d = c THEN m2 ELSE x.mem[d]
      BY <2>2
    <2> HIDE DEF v
    <2>7. x.rooms[r] # NoRecord /\ rec.players = x.rooms[r].players \cup {u}
          /\ rec.started = x.rooms[r].started
      BY <1>1, <1>3, <1>6
    <2>8. r \in created
      BY <1>8, <2>7 DEF Agree, OthersBlank
    <2>9. Agree(v, open, created)
      <3> HIDE DEF s2, m2, old
      <3>2. MembersAgree(v) /\ ObjectsAgree(v)
        <4>1. ASSUME NEW w \in Users, NEW q \in Somewhere, w # u, Placed(x, w, q)
              PROVE  Placed(v, w, q)
          BY <2>6, <2>7, <4>1 DEF Placed, Somewhere
        <4>2. Placed(v, u, r)
          BY <1>2, <2>6, <2>7 DEF Placed
        <4>3. MembersAgree(x) /\ ObjectsAgree(x)
          BY <1>8 DEF Agree
        <4>4. ASSUME NEW w \in Users, w # u, x.live[w] # NoConn
              PROVE  v.mem[x.live[w]] = x.mem[x.live[w]]
          BY <1>2, <1>6, <1>8, <2>6, <4>3, <4>4, OtherObjects
        <4> QED BY <1>2, <1>8, <2>1, <2>3, <2>4, <2>5, <2>6, <4>1, <4>2, <4>3, <4>4, OthersStay
      <3>4. RecordsAgree(v)
        BY <1>8, <2>6, <2>7 DEF Agree, RecordsAgree
      <3>5. LoopsOwn(v, open)
        BY <1>6, <1>8, <2>4, <2>6 DEF Agree, LoopsOwn
      <3>6. OthersBlank(v, created)
        <4> SUFFICES ASSUME NEW q \in Rooms \ created
                     PROVE  /\ v.rooms[q] = NoRecord /\ v.index[q] = {} /\ q \notin v.engines
                            /\ \A w \in Users : v.sess[w] # NoSession => v.sess[w].room # q
                     /\ \A d \in Conns : v.mem[d].room # q
          BY DEF OthersBlank
        <4>1. /\ x.rooms[q] = NoRecord /\ x.index[q] = {} /\ q \notin x.engines
              /\ \A w \in Users : x.sess[w] # NoSession => x.sess[w].room # q
              /\ \A d \in Conns : x.mem[d].room # q
          BY <1>8 DEF Agree, OthersBlank
        <4>2. q # r /\ q \in Rooms
          BY <2>8
        <4>3. \A w \in Users : v.sess[w] # NoSession => v.sess[w].room # q
          BY <2>3, <2>6, <4>1, <4>2
        <4>4. \A d \in Conns : v.mem[d].room # q
          BY <2>4, <2>6, <4>1, <4>2
        <4> QED BY <2>6, <4>1, <4>2, <4>3, <4>4
      <3> QED BY <3>2, <3>4, <3>5, <3>6 DEF Agree
    <2>10. Leads(P, x, v)
      <3> USE DEF Keeps, KeepsRoom, KeepsIndex, KeepsSession, KeepsObject, KeepsEngine, KeepsRead
      <3>1. Keeps(SaveRoom(r, rec), x, v) /\ Keeps(AddIndex(r, u), x, v)
        BY <2>6 DEF SaveRoom, AddIndex
      <3>2. Keeps(SessionMove(u, r), x, v)
        <4>1. v.sess[u] = s2
          BY <1>2, <2>6
        <4>2. x.sess[u] # NoSession /\ x.sess[u].room \notin {NoRoom, r} =>
                u \notin v.index[x.sess[u].room]
          BY <1>2, <2>2, <2>6 DEF Session
        <4> QED BY <4>1, <4>2 DEF SessionMove
      <3>3. Keeps(SetLiveRoom(c, r), x, v)
        BY <1>2, <1>6, <2>1, <2>6 DEF SetLiveRoom
      <3>4. /\ WritesRoom(SaveRoom(r, rec), r) /\ WritesIndex(AddIndex(r, u), r, u, x)
            /\ old \notin {r, NoRoom} => WritesIndex(SessionMove(u, r), old, u, x)
            /\ WritesSession(SessionMove(u, r), u, v) /\ WritesObject(SetLiveRoom(c, r), c, v)
        BY DEF WritesRoom, WritesIndex, WritesSession, WritesObject,
               SaveRoom, AddIndex, SessionMove, SetLiveRoom
      <3>5. /\ member \/ SaveRoom(r, rec) \in P
            /\ AddIndex(r, u) \in P
            /\ SessionMove(u, r) \in P /\ SetLiveRoom(c, r) \in P
        OBVIOUS
      <3> HIDE DEF Keeps
      <3>6. \A op \in P : Keeps(op, x, v)
        BY <3>1, <3>2, <3>3
      <3> HIDE DEF P, s2, m2, old
      <3>7. /\ \A q \in Rooms : (\E op \in P : WritesRoom(op, q)) \/ x.rooms[q] = v.rooms[q]
            /\ \A w \in Users : (\E op \in P : WritesSession(op, w, v)) \/ x.sess[w] = v.sess[w]
            /\ \A d \in Conns : (\E op \in P : WritesObject(op, d, v)) \/ x.mem[d] = v.mem[d]
        BY <1>7, <2>6, <3>4, <3>5
      <3>8. ASSUME NEW q \in Rooms, NEW w \in Users
            PROVE  \/ \E op \in P : WritesIndex(op, q, w, x)
                   \/ w \in x.index[q] <=> w \in v.index[q]
        <4>1. CASE w = u /\ q = r
          BY <3>4, <3>5, <4>1
        <4>2. CASE w = u /\ q = old /\ q # r
          BY <3>4, <3>5, <4>2, RoomsAssumption
        <4>3. CASE w # u \/ q \notin {r, old}
          BY <2>6, <4>3
        <4> QED BY <4>1, <4>2, <4>3
      <3> QED BY <2>6, <3>6, <3>7, <3>8 DEF Leads, Reached
    <2> QED BY <2>5, <2>9, <2>10
  <1> HIDE DEF v, P
  <1> QED BY <1>1, <1>5, <1>8, Received DEF x

LEMMA ReadSessionAgrees ==
  ASSUME IInv, IInv', SInv, NEW t \in Threads, ReadSession(t)
  PROVE  SInv'
  <1> SUFFICES ASSUME Calm' PROVE SInv'
    BY DEF SInv
  <1> DEFINE op == Head(todo[t])
             q == Tail(todo[t])
             s == sess[op.user]
             s2 == [s EXCEPT !.room = op.room]
             saved == SaveSession(op.user, s2)
             gone == RemoveIndex(s.room, op.user)
             has == s # NoSession
             moves == has /\ op.call = "sessionMove" /\ s.room \notin {NoRoom, op.room}
             more == IF ~has THEN <<>> ELSE IF moves THEN <<saved, gone>> ELSE <<saved>>
  <1>1. ~Idle(t) /\ op.call \in {"sessionRoom", "sessionMove"} /\ Calm
    BY DEF ReadSession, Calls, Calm, history, counts
  <1>2. /\ todo[t] \in Seq(Ops) /\ todo[t] # <<>> /\ Alone(t) /\ Ordered(todo[t])
    BY <1>1, Running
  <1>3. PICK v \in States : Agree(v, open, created) /\ Leads(Elems(todo[t]), Now, v)
    BY <1>1, Running
  <1>4. /\ op \in Ops /\ q \in Seq(Ops) /\ Elems(todo[t]) = {op} \cup Elems(q)
        /\ Ordered(q) /\ \A b \in Elems(q) : InOrder(op, b)
    BY <1>2, ElemsOfNonempty, OrderOfNonempty
  <1>5. op.user \in Users /\ op.room \in Somewhere
    BY <1>1, <1>4, OpCarries
  <1>6. /\ v.sess[op.user] = IF has THEN s2 ELSE NoSession
        /\ Keeps(op, Now, v)
        /\ moves => op.user \notin v.index[s.room]
    BY <1>1, <1>3, <1>4 DEF Leads, Keeps, KeepsSession, KeepsIndex, Now
  <1>7. has => s \in Session /\ s2 \in Session
    <2>1. has => s \in Session
      BY <1>5 DEF IInv, TypeOK
    <2> QED BY <1>5, <2>1 DEF Session, Somewhere
  <1>8. /\ more \in Seq(Ops)
        /\ Elems(more) = IF ~has THEN {} ELSE IF moves THEN {saved, gone} ELSE {saved}
    <2>1. has => saved \in Ops
      BY <1>5, <1>7, UserOps
    <2>2. moves => gone \in Ops
      <3>1. moves => s.room \in Rooms
        BY <1>7 DEF Session
      <3> QED BY <1>5, <3>1, RoomOps DEF Someone
    <2> HIDE DEF saved, gone, moves, has
    <2> QED BY <2>1, <2>2, OpSeqs, ElemsOfTuples
  <1>9. \A a \in Elems(more) : a.call \in {"saveSession", "removeIndex"}
    <2>1. saved.call = "saveSession" /\ gone.call = "removeIndex"
      BY DEF SaveSession, RemoveIndex
    <2> HIDE DEF saved, gone, moves, more, has
    <2> QED BY <1>8, <2>1
  <1>10. Goes(t, more) /\ Now' = Now /\ UNCHANGED <<open, created>>
    BY <1>1 DEF ReadSession, redis, memory, counts, history, Now
  <1> HIDE DEF more
  <1>11. Ordered(more \o q)
    <2>1. Ordered(more)
      BY <1>9, OrderOfPlain DEF Reads
    <2>2. \A a \in Elems(more), b \in Elems(q) : InOrder(a, b)
      BY <1>1, <1>4, <1>9 DEF InOrder, Reads
    <2> HIDE DEF q
    <2> QED BY <1>4, <1>8, <2>1, <2>2, OrderOfConcat
  <1>12. Elems(more \o q) = Elems(more) \cup Elems(q)
    <2> HIDE DEF q
    <2> QED BY <1>4, <1>8, ElemsOfConcat
  <1>13. todo'[t] = more \o q /\ Alone(t)'
    BY <1>2, <1>10 DEF Goes, IInv, Alone, Idle
  <1>14. Leads(Elems(more) \cup Elems(q), Now, v)
    <2> DEFINE P == {op} \cup Elems(q)
               R == Elems(more) \cup Elems(q)
               x == Now
    <2>1. /\ \A b \in P : Keeps(b, x, v)
          /\ Reached(P, x, v)
      BY <1>3, <1>4 DEF Leads
    <2>2. x.sess[op.user] = s
      BY DEF Now
    <2>3. has => Keeps(saved, x, v)
      BY <1>6 DEF SaveSession, Keeps, KeepsRoom, KeepsIndex, KeepsSession, KeepsObject,
         KeepsEngine, KeepsRead
    <2>4. moves => Keeps(gone, x, v)
      <3> HIDE DEF moves
      <3> QED BY <1>6 DEF RemoveIndex, Keeps, KeepsRoom, KeepsIndex, KeepsSession, KeepsObject,
              KeepsEngine, KeepsRead
    <2>5. \A b \in R : Keeps(b, x, v)
      <3> HIDE DEF moves, saved, gone, has
      <3> QED BY <1>8, <2>1, <2>3, <2>4
    <2>6. /\ \A r \in Rooms : ~WritesRoom(op, r) /\ ~WritesEngine(op, r)
          /\ \A u \in Users : ~WritesLive(op, u)
          /\ \A c \in Conns : ~WritesObject(op, c, v)
      BY <1>1 DEF WritesRoom, WritesEngine, WritesLive, WritesObject
    <2>7. \A u \in Users : WritesSession(op, u, v) =>
            \/ saved \in R /\ WritesSession(saved, u, v)
            \/ x.sess[u] = v.sess[u]
      <3>1. has => saved \in R
        BY <1>8
      <3>2. \A u \in Users : WritesSession(op, u, v) => u = op.user
        BY <1>1 DEF WritesSession
      <3> QED BY <1>6, <2>2, <3>1, <3>2 DEF WritesSession, SaveSession
    <2>8. ASSUME NEW r \in Rooms, NEW u \in Users, WritesIndex(op, r, u, x)
          PROVE  gone \in R /\ WritesIndex(gone, r, u, x)
      <3>1. /\ op.call = "sessionMove" /\ op.user = u /\ op.room # r
            /\ has /\ s.room = r /\ r # NoRoom
        BY <1>1, <2>2, <2>8, RoomsAssumption DEF WritesIndex
      <3>2. moves
        BY <3>1
      <3>3. gone \in R
        BY <1>8, <3>2
      <3> QED BY <3>1, <3>3 DEF WritesIndex, RemoveIndex
    <2> HIDE DEF x, op, saved, gone, q
    <2>9. Reached(R, x, v)
      BY <2>1, <2>6, <2>7, <2>8 DEF Reached
    <2> QED BY <2>5, <2>9 DEF Leads, x
  <1> HIDE DEF q, op
  <1>15. /\ Ordered(todo'[t]) /\ Agree(v, open', created')
         /\ Leads(Elems(todo'[t]), Now', v)
    BY <1>3, <1>10, <1>11, <1>12, <1>13, <1>14
  <1> QED BY <1>13, <1>15, Arrives

LEMMA IdentifyAgrees ==
  ASSUME IInv, IInv', SInv, NEW c \in Conns, NEW u \in Users, HandleUserIdentify(c, u)
  PROVE  SInv'
  <1> SUFFICES ASSUME Calm' PROVE SInv'
    BY DEF SInv
  <1>1. /\ Calm /\ Quiet /\ c \in Threads
        /\ \A d \in Conns : ~(open[d] /\ mem[d].user = u)
    BY DEF Calm, HandleUserIdentify, Remember, Threads
  <1>2. PICK r \in Somewhere :
          /\ r # NoRoom => sess[u] # NoSession /\ sess[u].room = r
          /\ todo' = [todo EXCEPT ![c] = IF r = NoRoom THEN <<Claim(c, u, NoRoom), SaveObject(c)>>
                                         ELSE <<Claim(c, u, r), SaveObject(c), AddIndex(r, u)>>]
    <2>1. CASE /\ sess[u] # NoSession /\ sess[u].room # NoRoom
               /\ Starts(c, <<Claim(c, u, sess[u].room), SaveObject(c), AddIndex(sess[u].room, u)>>)
      <3>1. sess[u].room \in Somewhere
        BY <2>1 DEF IInv, TypeOK, Session, Somewhere
      <3> QED BY <2>1, <3>1 DEF Starts
    <2>2. CASE Starts(c, <<Claim(c, u, NoRoom), SaveObject(c)>>)
      BY <2>2 DEF Starts, Somewhere
    <2> QED BY <2>1, <2>2 DEF HandleUserIdentify
  <1> DEFINE x == Now
             y == Now'
             o2 == open'
             calls == IF r = NoRoom THEN <<Claim(c, u, NoRoom), SaveObject(c)>>
                      ELSE <<Claim(c, u, r), SaveObject(c), AddIndex(r, u)>>
             P == {Claim(c, u, r), SaveObject(c)}
                    \cup IF r = NoRoom THEN {} ELSE {AddIndex(r, u)}
             m2 == [user |-> u, room |-> r, status |-> "connected"]
             s2 == [room |-> r, status |-> "connected"]
             v == [rooms |-> x.rooms,
                   index |-> [q \in Rooms |-> IF q = r THEN x.index[q] \cup {u} ELSE x.index[q]],
                   sess |-> [x.sess EXCEPT ![u] = s2], live |-> [x.live EXCEPT ![u] = c],
                   mem |-> [x.mem EXCEPT ![c] = m2], engines |-> x.engines]
  <1>3. Elems(calls) = P /\ Ordered(calls)
    <2>1. Elems(calls) = P
      BY ElemsOfTuples
    <2>2. /\ InOrder(Claim(c, u, r), SaveObject(c))
          /\ InOrder(Claim(c, u, r), AddIndex(r, u))
          /\ InOrder(SaveObject(c), AddIndex(r, u))
      BY DEF InOrder, Reads, Claim, SaveObject, AddIndex
    <2>3. Ordered(calls)
      BY <2>2 DEF Ordered
    <2> QED BY <2>1, <2>3
  <1>4. x \in States /\ y \in States /\ Agree(x, open, created)
    BY <1>1, Resting, NowIsState, NextIsState
  <1>5. /\ y.rooms = x.rooms /\ y.index = x.index /\ y.sess = x.sess /\ y.live = x.live
        /\ y.engines = x.engines /\ x.sess = sess /\ x.mem = mem /\ y.mem = mem'
        /\ x.live = live /\ created' = created
    BY DEF HandleUserIdentify, redis, Now
  <1>6. /\ \A w \in Users : x.live[w] # c
        /\ \A d \in Conns : d # c => y.mem[d] = x.mem[d]
        /\ \A d \in Conns : d # c => (o2[d] <=> open[d])
    BY <1>5 DEF HandleUserIdentify, IsUnused, IInv, TypeOK
  <1>7. todo' = [todo EXCEPT ![c] = calls]
    BY <1>2
  <1>8. m2 \in Objects /\ s2 \in Session /\ s2 # NoSession /\ c # NoConn
    <2>1. m2 \in Objects /\ s2 \in Session
      BY DEF Objects, Session, Someone, Somewhere, Statuses
    <2> QED BY <2>1, SessionAssumption, ConnsAssumption
  <1>9. m2.user = u /\ m2.room = r /\ m2.status = "connected" /\ s2.room = r
    OBVIOUS
  <1>10. \A d \in Conns : ~(open[d] /\ x.mem[d].user = u)
    BY <1>1, <1>5
  <1>11. r # NoRoom => x.sess[u] # NoSession /\ x.sess[u].room = r /\ r \in Rooms
    BY <1>2, <1>5 DEF Somewhere
  <1> HIDE DEF x, y, calls, m2, o2
  <1>12. /\ x.rooms \in [Rooms -> Record \cup {NoRecord}] /\ x.index \in [Rooms -> SUBSET Users]
         /\ x.mem \in [Conns -> Objects] /\ x.sess \in [Users -> Session \cup {NoSession}]
         /\ x.live \in [Users -> Conns \cup {NoConn}] /\ x.engines \in SUBSET Rooms
    BY <1>4, StateTypes
  <1>13. v \in States
    <2> HIDE DEF s2
    <2>1. /\ v.sess \in [Users -> Session \cup {NoSession}]
          /\ v.mem \in [Conns -> Objects]
          /\ v.live \in [Users -> Conns \cup {NoConn}]
          /\ v.index \in [Rooms -> SUBSET Users]
      BY <1>8, <1>12
    <2> QED BY <1>12, <2>1 DEF States
  <1>14. /\ v.rooms = x.rooms /\ v.engines = x.engines
         /\ \A q \in Rooms : v.index[q] = IF q = r THEN x.index[q] \cup {u} ELSE x.index[q]
         /\ \A w \in Users : v.sess[w] = IF w = u THEN s2 ELSE x.sess[w]
         /\ \A w \in Users : v.live[w] = IF w = u THEN c ELSE x.live[w]
         /\ \A d \in Conns : v.mem[d] = IF d = c THEN m2 ELSE x.mem[d]
    BY <1>12
  <1> HIDE DEF v
  <1>15. Agree(v, o2, created)
    <2> HIDE DEF s2
    <2>1. Placed(x, u, r)
      <3>1. CASE r = NoRoom
        BY <3>1 DEF Placed
      <3>2. CASE r # NoRoom
        BY <1>4, <1>11, <3>2 DEF Agree, MembersAgree
      <3> QED BY <3>1, <3>2
    <2>2. MembersAgree(v) /\ ObjectsAgree(v)
      <3>1. \A w \in Users, q \in Somewhere : Placed(x, w, q) => Placed(v, w, q)
        BY <1>12, <1>14 DEF Placed, Somewhere
      <3>2. MembersAgree(x) /\ ObjectsAgree(x) /\ Placed(v, u, r)
        BY <1>4, <2>1, <3>1 DEF Agree
      <3>3. \A w \in Users : w # u /\ x.live[w] # NoConn => v.mem[x.live[w]] = x.mem[x.live[w]]
        BY <1>6, <1>12, <1>14
      <3>4. /\ v.sess[u].room = r /\ v.live[u] = c /\ v.mem[c].user = u /\ v.mem[c].room = r
        BY <1>9, <1>14
      <3> QED BY <1>4, <1>13, <1>14, <3>1, <3>2, <3>3, <3>4, OthersStay
    <2>3. RecordsAgree(v)
      <3> SUFFICES ASSUME NEW q \in Rooms, v.rooms[q] # NoRecord
                   PROVE  /\ v.index[q] \subseteq v.rooms[q].players
                          /\ v.rooms[q].started <=> q \in v.engines
        BY DEF RecordsAgree
      <3>1. x.index[q] \subseteq x.rooms[q].players /\ (x.rooms[q].started <=> q \in x.engines)
        BY <1>4, <1>14 DEF Agree, RecordsAgree
      <3>2. q = r => u \in x.rooms[q].players
        BY <1>14, <2>1, RoomsAssumption DEF Placed
      <3> QED BY <1>14, <3>1, <3>2
    <2>4. LoopsOwn(v, o2)
      <3>1. ASSUME NEW d \in Conns, o2[d], d # c
            PROVE  open[d] /\ v.mem[d] = x.mem[d] /\ x.mem[d].user # u
        BY <1>6, <1>10, <1>14, <3>1
      <3>2. ASSUME NEW d \in Conns, o2[d], v.mem[d].user # NoUser
            PROVE  v.live[v.mem[d].user] \in {d, NoConn}
        <4>1. CASE d = c
          BY <1>9, <1>14, <4>1
        <4>2. CASE d # c
          <5>1. x.mem[d].user \in Users
            BY <1>12, <3>1, <3>2, <4>2 DEF Objects, Someone
          <5> QED BY <1>4, <1>14, <3>1, <3>2, <4>2, <5>1 DEF Agree, LoopsOwn
        <4> QED BY <4>1, <4>2
      <3>3. ASSUME NEW d \in Conns, NEW e \in Conns, o2[d], o2[e], v.mem[d].user # NoUser,
                   v.mem[d].user = v.mem[e].user
            PROVE  d = e
        <4>1. v.mem[c].user = u
          BY <1>9, <1>14
        <4> QED BY <1>4, <3>1, <3>3, <4>1 DEF Agree, LoopsOwn
      <3> QED BY <3>2, <3>3 DEF LoopsOwn
    <2>5. OthersBlank(v, created)
      <3> SUFFICES ASSUME NEW q \in Rooms \ created
                   PROVE  /\ v.rooms[q] = NoRecord /\ v.index[q] = {} /\ q \notin v.engines
                          /\ \A w \in Users : v.sess[w] # NoSession => v.sess[w].room # q
                          /\ \A d \in Conns : v.mem[d].room # q
        BY DEF OthersBlank
      <3>1. /\ x.rooms[q] = NoRecord /\ x.index[q] = {} /\ q \notin x.engines /\ q \in Rooms
            /\ \A w \in Users : x.sess[w] # NoSession => x.sess[w].room # q
            /\ \A d \in Conns : x.mem[d].room # q
        BY <1>4 DEF Agree, OthersBlank
      <3>2. q # r
        BY <1>11, <3>1, RoomsAssumption
      <3>3. \A w \in Users : v.sess[w] # NoSession => v.sess[w].room # q
        BY <1>9, <1>14, <3>1, <3>2
      <3>4. \A d \in Conns : v.mem[d].room # q
        BY <1>9, <1>14, <3>1, <3>2
      <3> QED BY <1>14, <3>1, <3>2, <3>3, <3>4
    <2> QED BY <2>2, <2>3, <2>4, <2>5 DEF Agree
  <1>16. Leads(P, y, v)
    <2> USE DEF Keeps, KeepsRoom, KeepsIndex, KeepsSession, KeepsObject, KeepsEngine, KeepsRead
    <2>1. Keeps(Claim(c, u, r), y, v)
      BY <1>14 DEF Claim, m2
    <2>2. Keeps(SaveObject(c), y, v)
      BY <1>9, <1>14 DEF SaveObject
    <2>3. r # NoRoom => Keeps(AddIndex(r, u), y, v)
      BY <1>11, <1>14 DEF AddIndex
    <2> HIDE DEF Keeps
    <2>4. \A op \in P : Keeps(op, y, v)
      BY <2>1, <2>2, <2>3
    <2>5. /\ WritesObject(Claim(c, u, r), c, v) /\ WritesLive(Claim(c, u, r), u)
          /\ WritesSession(SaveObject(c), u, v) /\ WritesIndex(AddIndex(r, u), r, u, y)
      BY <1>9, <1>14 DEF WritesObject, WritesLive, WritesSession, WritesIndex,
                         Claim, SaveObject, AddIndex
    <2>6. Claim(c, u, r) \in P /\ SaveObject(c) \in P /\ (r # NoRoom => AddIndex(r, u) \in P)
      OBVIOUS
    <2> HIDE DEF P, s2
    <2>7. /\ \A w \in Users : (\E op \in P : WritesSession(op, w, v)) \/ y.sess[w] = v.sess[w]
          /\ \A w \in Users : (\E op \in P : WritesLive(op, w)) \/ y.live[w] = v.live[w]
          /\ \A d \in Conns : (\E op \in P : WritesObject(op, d, v)) \/ y.mem[d] = v.mem[d]
      BY <1>5, <1>6, <1>14, <2>5, <2>6
    <2>8. \A q \in Rooms, w \in Users :
            (\E op \in P : WritesIndex(op, q, w, y)) \/ (w \in y.index[q] <=> w \in v.index[q])
      BY <1>5, <1>14, <2>5, <2>6, RoomsAssumption
    <2> QED BY <1>5, <1>14, <2>4, <2>7, <2>8 DEF Leads, Reached
  <1>17. Agree(v, open', created') /\ Leads(Elems(calls), Now', v)
    <2> HIDE DEF P
    <2> QED BY <1>3, <1>5, <1>15, <1>16 DEF y, o2
  <1> QED BY <1>1, <1>3, <1>7, <1>13, <1>17, Started

LEMMA InitAgrees == Init => SInv
  <1> SUFFICES ASSUME Init PROVE SInv
    OBVIOUS
  <1>1. Now \in States
    BY InitInv, NowIsState
  <1>2. Timer \in Threads /\ todo[Timer] = <<>> /\ Alone(Timer)
    BY DEF Init, Threads, Alone, Idle
  <1>3. Ordered(<<>>) /\ Elems(<<>>) = {}
    BY ElemsOfTuples
  <1>4. Leads({}, Now, Now)
    BY ReachedItself DEF Leads
  <1>5. Agree(Now, open, created)
    BY RoomsAssumption DEF Init, Now, Fresh, Agree, MembersAgree, ObjectsAgree, RecordsAgree,
                           LoopsOwn, OthersBlank
  <1> QED BY <1>1, <1>2, <1>3, <1>4, <1>5 DEF SInv

LEMMA StepAgrees ==
  ASSUME IInv, IInv', SInv, NEW t \in Threads, Step(t)
  PROVE  SInv'
  BY CallRoomsAgrees, CallIndexAgrees, CallSessionAgrees, ReadSessionAgrees,
     CallObjectAgrees, KickTargetAgrees, ReadRoomForLeaverAgrees, EndOfMoveAgrees,
     CallEnginesAgrees DEF Step

LEMMA NextAgrees == IInv /\ SInv /\ [Next]_vars => SInv'
  <1> SUFFICES ASSUME IInv, SInv, [Next]_vars PROVE SInv'
    OBVIOUS
  <1>1. IInv'
    BY NextInv
  <1>2. ASSUME NEW c \in Conns,
               \/ Disconnect(c) \/ AskToDisconnect(c)
               \/ \E s \in Statuses : HandleUserUpdate(c, s)
        PROVE  SInv'
    BY <1>2, DisconnectAgrees, AskToDisconnectAgrees, UserUpdateAgrees
  <1>3. ASSUME NEW c \in Conns, NEW u \in Users, HandleUserIdentify(c, u) PROVE SInv'
    BY <1>1, <1>3, IdentifyAgrees
  <1>4. ASSUME NEW c \in Conns, NEW r \in Rooms,
               \/ JoinRoom(c, r) \/ LeaveRoom(c, r) \/ SetPlayerReady(c, r)
               \/ StartGame(c, r) \/ EndGame(c, r) \/ ProcessAction(c, r)
        PROVE  SInv'
    BY <1>4, JoinRoomAgrees, LeaveRoomAgrees, ReadyAgrees, GameAgrees, MoveAgrees
  <1>5. ASSUME NEW c \in Conns, NEW r \in Rooms, NEW n \in Sizes,
               CreateRoom(c, r, n) \/ \E m \in Modes : UpdateRoom(c, r, n, m)
        PROVE  SInv'
    BY <1>5, CreateRoomAgrees, UpdateRoomAgrees
  <1>6. ASSUME NEW c \in Conns, NEW r \in Rooms, NEW u \in Users, KickUser(c, r, u)
        PROVE  SInv'
    BY <1>6, KickUserAgrees
  <1>7. ASSUME NEW r \in Rooms, TimerExpired(r) PROVE SInv'
    BY <1>7, MoveAgrees
  <1>8. ASSUME NEW t \in Threads, Step(t) PROVE SInv'
    BY <1>1, <1>8, StepAgrees
  <1>9. CASE Crash
    BY <1>9, CrashAgrees
  <1>10. CASE UNCHANGED vars
    BY <1>10 DEF vars, redis, memory, counts, history, SInv, Calm, Alone, Idle, Now
  <1>11. ASSUME NEW u \in Users, SessionExpires(u) PROVE SInv'
    BY <1>11, SessionExpiresAgrees
  <1> QED BY <1>2, <1>3, <1>4, <1>5, <1>6, <1>7, <1>8, <1>9, <1>10, <1>11 DEF Next

LEMMA SerialInvariance == Spec => [](IInv /\ SInv)
  <1>1. Init => IInv /\ SInv
    BY InitInv, InitAgrees
  <1>2. (IInv /\ SInv) /\ [Next]_vars => (IInv /\ SInv)'
    BY NextInv, NextAgrees
  <1> QED BY <1>1, <1>2, PTL DEF Spec

\* While handlers do not overlap, room, session, index and object agree on who
\* is where whenever none is running, also after user.disconnect, after a
\* session expired and whatever status clients set (room_service.go:76-97,
\* 137-163; events_user.go:25-108, 114-225; session.go:14, 49-51).
THEOREM SerialHandlersAgree == Spec => []SessionsAgree
  <1>1. IInv /\ SInv => SessionsAgree
    <2> SUFFICES ASSUME IInv, SInv, Calm, Quiet PROVE SessionsAgree
      BY DEF SessionsAgree, Calm
    <2>1. Agree(Now, open, created)
      BY Resting
    <2> QED BY <2>1 DEF SessionsAgree, IsPlaced, Placed, Agree, MembersAgree, ObjectsAgree,
                        RecordsAgree, Now
  <1> QED BY <1>1, SerialInvariance, PTL

\* While handlers do not overlap, the saved flag of a room and the manager's
\* engines agree whenever none is running (game_service.go:97-113, 274-284).
THEOREM SerialGamesAgree == Spec => []StartedMeansGame
  <1>1. IInv /\ SInv => StartedMeansGame
    <2> SUFFICES ASSUME IInv, SInv, Calm, Quiet PROVE StartedMeansGame
      BY DEF StartedMeansGame, Calm
    <2>1. Agree(Now, open, created)
      BY Resting
    <2> QED BY <2>1 DEF StartedMeansGame, Agree, RecordsAgree, Now
  <1> QED BY <1>1, SerialInvariance, PTL

=============================================================================
