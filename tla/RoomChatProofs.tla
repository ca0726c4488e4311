--------------------------- MODULE RoomChatProofs ---------------------------
(***************************************************************************)
(* What holds of a room's chat for every number of users and messages, any *)
(* history length and any number of faults: whatever the order in which    *)
(* handlers save and publish, whoever comes and goes meanwhile, and        *)
(* whichever call fails.                                                   *)
(***************************************************************************)
EXTENDS RoomChat, FiniteSetTheorems, TLAPS

Carried == Messages \cup {Notice}
Sending == {"save", "publish"}
Steps   == Sending \cup {"idle", "notify", "joined", "left", "unindex", "forget", "reindex"}
Listenings == [msg : Carried, todo : SUBSET Users, to : Users \cup {NoUser}, object : Nat,
               step : {"next", "check", "write", "sweep"}]

ChatTypeOK ==
  /\ now \in Nat
  /\ sent \in Nat /\ sent <= MaxMessages
  /\ ts \in [Messages -> Nat]
  /\ sender \in [Messages -> Users \cup {NoUser}]
  /\ store \subseteq 1 .. sent
  /\ channel \in Seq(Carried)
  /\ index \subseteq Users /\ live \subseteq Users /\ inRoom \subseteq Users
  /\ pc \in [Users -> Steps]
  /\ conn \in [Users -> Seq(Conns) \ {<<>>}]
  /\ listening \in Listenings
  /\ listening.step # "next" => listening.to \in Users \ listening.todo
  /\ inbox \in [Users -> Seq(Messages)]

\* The last message of u.
IsLast(u, m) == sender[m] = u /\ \A k \in m + 1 .. sent : sender[k] # u

\* The message was published, and no fault has lost it from sight.
Emitted(x) ==
  /\ x # Notice
  /\ \/ \E i \in DOMAIN channel : x = channel[i]
     \/ x = listening.msg
     \/ \E u \in Users : \E i \in DOMAIN inbox[u] : x = inbox[u][i]

\* A handler that sends has a last message; it is saved before it is
\* published, and what is published was saved.
SavedFirst ==
  /\ \A u \in Users : pc[u] \in Sending => \E m \in 1 .. sent : IsLast(u, m)
  /\ \A u \in Users : pc[u] = "publish" =>
       \A m \in 1 .. sent : IsLast(u, m) => m \in store
  /\ \A x \in Messages : Emitted(x) => x \in store

\* Messages of one sender are in order; in particular they are two messages.
Before(x, y) == sender[x] = sender[y] => x < y

\* What a handler sends comes after all that its user's messages have reached.
NextIsAfter ==
  \A u \in Users : pc[u] \in Sending =>
    \A m \in 1 .. sent : IsLast(u, m) =>
      \A x \in Messages : Emitted(x) => Before(x, m)

\* A message passes four places: its sender's handler, the channel, the
\* listener, the inboxes.  What is further on is before what comes later.
PlacesInOrder ==
  /\ \A i, j \in DOMAIN channel :
       i < j /\ channel[i] # Notice /\ channel[j] # Notice =>
         Before(channel[i], channel[j])
  /\ \A j \in DOMAIN channel : channel[j] # Notice =>
       /\ listening.msg # Notice => Before(listening.msg, channel[j])
       /\ \A u \in Users : \A i \in DOMAIN inbox[u] : Before(inbox[u][i], channel[j])
  /\ listening.msg # Notice =>
       \A u \in Users : \A i \in DOMAIN inbox[u] :
         inbox[u][i] # listening.msg => Before(inbox[u][i], listening.msg)

\* The listener has still to do with u.
ToServe(u) == u \in listening.todo \/ (listening.step # "next" /\ u = listening.to)

\* Who has been written the message of the listener has it as its last one,
\* and is not served again.
ServedOnce ==
  \A u \in Users : \A i \in DOMAIN inbox[u] :
    listening.msg = inbox[u][i] => i = Len(inbox[u]) /\ ~ToServe(u)

ChatInv == ChatTypeOK /\ SavedFirst /\ NextIsAfter /\ PlacesInOrder
           /\ ServedOnce /\ OneOrderForAll

-----------------------------------------------------------------------------
\* Nobody has two last messages.
LEMMA PendingLast ==
  ASSUME sent \in Nat, NEW u, NEW m \in 1 .. sent, IsLast(u, m)
  PROVE  Pending(u) = m
  <1>1. \A k \in 1 .. sent : IsLast(u, k) => k = m
    <2> SUFFICES ASSUME NEW k \in 1 .. sent, IsLast(u, k), k # m PROVE FALSE
      OBVIOUS
    <2>1. CASE k < m
      BY <2>1 DEF IsLast
    <2>2. CASE m < k
      BY <2>2 DEF IsLast
    <2> QED BY <2>1, <2>2
  <1> QED BY <1>1 DEF Pending, IsLast

\* The steps that touch no message: nobody starts to send, and the listener has
\* the same message for no more users.
Quiet ==
  /\ UNCHANGED <<now, sent, ts, sender, store, channel, inbox>>
  /\ listening'.msg = listening.msg
  /\ \A u \in Users : ToServe(u)' => ToServe(u)
  /\ \A u \in Users : pc'[u] \in Sending => pc'[u] = pc[u]

\* The listener writes its message to u.
Written(u) ==
  /\ Listens("write") /\ u = listening.to /\ listening.msg # Notice
  /\ listening' = Served
  /\ inbox' = [inbox EXCEPT ![u] = Append(@, listening.msg)]
  /\ UNCHANGED <<now, written, store, channel, members, pc, faults, moves>>

LEMMA ChatShapes ==
  ASSUME ChatTypeOK, [Next]_vars
  PROVE  \/ Quiet \/ Listen
         \/ \E u \in Users : \/ HandleChatSend(u) \/ SaveChatMessage(u)
                             \/ BroadcastToRoom(u) \/ Written(u)
  <1> USE DEF Sending, Goto, At, Listens, written, served, ToServe
  <1>1. ASSUME NEW u \in Users, JoinRoom(u) \/ LeaveRoom(u)
        PROVE  Quiet
    BY <1>1 DEF JoinRoom, LeaveRoom, Receive, Moves, Quiet, ChatTypeOK
  <1>2. ASSUME NEW u \in Users, Disconnect(u) \/ AskToDisconnect(u) \/ HandleUserIdentify(u)
        PROVE  Quiet
    BY <1>2 DEF Disconnect, AskToDisconnect, HandleUserDisconnect, HandleUserIdentify, Moves,
                Quiet, ChatTypeOK
  <1>3. ASSUME NEW u \in Users, Membership(u) PROVE Quiet
    BY <1>3 DEF Membership, Quiet, ChatTypeOK
  <1>4. CASE Sweep \/ CheckConn
    BY <1>4 DEF Sweep, CheckConn, Served, Listens, ToServe, Quiet, ChatTypeOK, Listenings
  <1>5. ASSUME NEW u \in Users, LookUp(u) PROVE Quiet
    BY <1>5 DEF LookUp, Listens, ToServe, Quiet, ChatTypeOK, Listenings
  <1>7. CASE Deliver
    <2>1. listening.to \in Users
      BY <1>7 DEF Deliver, Listens, ChatTypeOK
    <2>2. \A u \in Users : ToServe(u)' => ToServe(u)
      BY <1>7 DEF Deliver, Served, ToServe, ChatTypeOK, Listenings
    <2>3. listening'.msg = listening.msg
      BY <1>7 DEF Deliver, Served, ChatTypeOK, Listenings
    <2> QED BY <1>7, <2>1, <2>2, <2>3 DEF Deliver, Quiet, Written, members
  <1>6. CASE UNCHANGED vars
    BY <1>6 DEF vars, Quiet
  <1> QED BY <1>1, <1>2, <1>3, <1>4, <1>5, <1>6, <1>7 DEF Next, Listener, Handler

-----------------------------------------------------------------------------
\* What a handler saves or publishes is its user's last message.
LEMMA PendingIsSent ==
  ASSUME ChatTypeOK, SavedFirst, NEW u \in Users, pc[u] \in Sending
  PROVE  Pending(u) \in 1 .. sent /\ IsLast(u, Pending(u))
  <1>1. PICK m \in 1 .. sent : IsLast(u, m)
    BY DEF SavedFirst
  <1>2. Pending(u) = m
    BY <1>1, PendingLast DEF ChatTypeOK
  <1> QED BY <1>1, <1>2

\* The last Session object of a user, and what a handler does to it.
LEMMA ConnIsLast ==
  ASSUME ChatTypeOK, NEW u \in Users
  PROVE  /\ conn[u] \in Seq(Conns) /\ Len(conn[u]) \in Nat
         /\ Len(conn[u]) \in DOMAIN conn[u] /\ conn[u][Len(conn[u])] \in Conns
  <1>1. conn[u] \in Seq(Conns) /\ conn[u] # <<>>
    BY DEF ChatTypeOK
  <1> QED BY <1>1

LEMMA ConnStays ==
  ASSUME ChatTypeOK, NEW u \in Users,
         \/ conn' = conn
         \/ \E c \in Conns : conn' = [conn EXCEPT ![u][Len(conn[u])] = c]
         \/ conn' = [conn EXCEPT ![u] = Append(@, "open")]
  PROVE  conn' \in [Users -> Seq(Conns) \ {<<>>}]
  <1>1. conn[u] \in Seq(Conns) /\ Len(conn[u]) \in DOMAIN conn[u] /\ conn[u] # <<>>
    BY ConnIsLast DEF ChatTypeOK
  <1>2. ASSUME NEW c \in Conns
        PROVE  [conn[u] EXCEPT ![Len(conn[u])] = c] \in Seq(Conns) \ {<<>>}
    <2>1. DOMAIN [conn[u] EXCEPT ![Len(conn[u])] = c] = DOMAIN conn[u]
      OBVIOUS
    <2> QED BY <1>1, <2>1
  <1>3. Append(conn[u], "open") \in Seq(Conns) \ {<<>>}
    BY <1>1 DEF Conns
  <1> QED BY <1>2, <1>3 DEF ChatTypeOK

LEMMA ChatNextType == ChatTypeOK /\ SavedFirst /\ [Next]_vars => ChatTypeOK'
  <1> SUFFICES ASSUME ChatTypeOK, SavedFirst, [Next]_vars PROVE ChatTypeOK'
    OBVIOUS
  <1>1. ASSUME NEW u \in Users,
               \/ JoinRoom(u) \/ LeaveRoom(u) \/ Membership(u)
               \/ Disconnect(u) \/ AskToDisconnect(u) \/ HandleUserIdentify(u)
        PROVE  ChatTypeOK'
    <2> USE DEF Disconnect, AskToDisconnect
    <2>1. UNCHANGED <<now, written, store, channel, listening, inbox>>
      BY <1>1 DEF JoinRoom, LeaveRoom, Membership, HandleUserDisconnect,
                  HandleUserIdentify, Moves, served
    <2>2. index' \subseteq Users /\ live' \subseteq Users /\ inRoom' \subseteq Users
      BY <1>1 DEF JoinRoom, LeaveRoom, Receive, Membership, HandleUserDisconnect,
                  HandleUserIdentify, Moves, ChatTypeOK
    <2>3. pc' = pc \/ \E step \in Steps : Goto(u, step)
      BY <1>1 DEF JoinRoom, LeaveRoom, Membership, HandleUserDisconnect,
                  HandleUserIdentify, Steps
    <2>4. pc' \in [Users -> Steps]
      BY <2>3 DEF Goto, ChatTypeOK
    <2>5. \/ conn' = conn
          \/ \E c \in Conns : conn' = [conn EXCEPT ![u][Len(conn[u])] = c]
          \/ conn' = [conn EXCEPT ![u] = Append(@, "open")]
      <3>1. CASE Disconnect(u)
        <4> DEFINE old == conn[u][Len(conn[u])]
        <4>1. conn[u] \in Seq(Conns) /\ Len(conn[u]) \in DOMAIN conn[u] /\ old \in Conns
          BY ConnIsLast
        <4>2. conn' = [conn EXCEPT ![u][Len(conn[u])] = IF old = "open" THEN "closed" ELSE old]
          BY <3>1, <4>1 DEF ChatTypeOK
        <4> QED BY <4>1, <4>2 DEF Conns
      <3> QED BY <1>1, <3>1 DEF JoinRoom, LeaveRoom, Receive, objects, Membership,
                               HandleUserIdentify, Conns
    <2>6. conn' \in [Users -> Seq(Conns) \ {<<>>}]
      BY <2>5, ConnStays
    <2> QED BY <2>1, <2>2, <2>4, <2>6 DEF ChatTypeOK, written
  <1>2. CASE Sweep \/ CheckConn
    <2>0. \/ listening' = Served
          \/ \E step \in {"sweep", "write"} : listening' = [listening EXCEPT !.step = step]
      BY <1>2 DEF Sweep, CheckConn
    <2>1. listening' \in Listenings
      <3>1. listening \in Listenings
        BY DEF ChatTypeOK
      <3>2. CASE listening' = Served
        BY <3>1, <3>2 DEF Served, Listenings
      <3>3. ASSUME NEW step \in {"sweep", "write"}, listening' = [listening EXCEPT !.step = step]
            PROVE  listening' \in Listenings
        BY <3>1, <3>3 DEF Listenings
      <3> QED BY <2>0, <3>2, <3>3
    <2>2. listening'.step # "next" => listening'.to \in Users \ listening'.todo
      BY <1>2 DEF Sweep, CheckConn, Served, Listens, ChatTypeOK, Listenings
    <2> QED BY <1>2, <2>1, <2>2 DEF Sweep, CheckConn, ChatTypeOK, written, members, sessions, objects, served
  <1>3. ASSUME NEW u \in Users, LookUp(u) PROVE ChatTypeOK'
    <2>1. Len(conn[u]) \in Nat
      BY ConnIsLast
    <2>2. listening' \in Listenings
      BY <1>3, <2>1 DEF LookUp, ChatTypeOK, Listenings
    <2>3. listening'.step # "next" => listening'.to \in Users \ listening'.todo
      BY <1>3 DEF LookUp, ChatTypeOK, Listenings
    <2> QED BY <1>3, <2>2, <2>3 DEF LookUp, ChatTypeOK, written, members, sessions, objects, served
  <1>9. CASE Deliver
    <2>0. listening' \in Listenings /\ listening'.step = "next"
      BY <1>9 DEF Deliver, Served, ChatTypeOK, Listenings
    <2>1. inbox' \in [Users -> Seq(Messages)]
      <3>1. CASE inbox' = inbox
        BY <3>1 DEF ChatTypeOK
      <3>2. CASE /\ listening.msg # Notice
                 /\ inbox' = [inbox EXCEPT ![listening.to] = Append(@, listening.msg)]
        <4>1. listening.to \in Users /\ listening.msg \in Messages
          BY <1>9, <3>2 DEF Deliver, Listens, ChatTypeOK, Listenings, Carried
        <4>2. Append(inbox[listening.to], listening.msg) \in Seq(Messages)
          BY <4>1 DEF ChatTypeOK
        <4> QED BY <3>2, <4>2 DEF ChatTypeOK
      <3> QED BY <1>9, <3>1, <3>2 DEF Deliver
    <2> QED BY <1>9, <2>0, <2>1 DEF Deliver, ChatTypeOK, written, members, sessions, objects
  <1>4. CASE Listen
    <2>1. channel # <<>> /\ channel \in Seq(Carried)
      BY <1>4 DEF Listen, ChatTypeOK
    <2>2. Head(channel) \in Carried /\ Tail(channel) \in Seq(Carried)
      BY <2>1
    <2>3. listening' \in Listenings
      <3>1. CASE listening' = listening
        BY <3>1 DEF ChatTypeOK
      <3>2. CASE listening' = [Waiting EXCEPT !.msg = Head(channel), !.todo = index]
        BY <2>2, <3>2 DEF Waiting, ChatTypeOK, Listenings
      <3> QED BY <1>4, <3>1, <3>2 DEF Listen
    <2>4. listening'.step = "next"
      BY <1>4 DEF Listen, Listens, Waiting
    <2> QED BY <1>4, <2>2, <2>3, <2>4 DEF Listen, ChatTypeOK, written, members, sessions, objects
  <1>5. ASSUME NEW u \in Users, HandleChatSend(u) PROVE ChatTypeOK'
    <2>1. sent + 1 \in Messages /\ sent' = sent + 1 /\ now' \in Nat
      BY <1>5, BoundsAssumption DEF HandleChatSend, ChatTypeOK, Messages
    <2>2. pc' \in [Users -> Steps]
      BY <1>5 DEF HandleChatSend, Goto, ChatTypeOK, Steps, Sending
    <2>3. ts' \in [Messages -> Nat] /\ sender' \in [Messages -> Users \cup {NoUser}]
      BY <1>5, <2>1 DEF HandleChatSend, ChatTypeOK
    <2>4. sent' \in Nat /\ sent' <= MaxMessages /\ store' \subseteq 1 .. sent'
      BY <1>5, <2>1, BoundsAssumption DEF HandleChatSend, ChatTypeOK
    <2>5. live' \subseteq Users /\ UNCHANGED <<looping, conn>>
      BY <1>5 DEF HandleChatSend, Receive, objects, ChatTypeOK
    <2> QED BY <1>5, <2>1, <2>2, <2>3, <2>4, <2>5 DEF HandleChatSend, ChatTypeOK, served
  <1>6. ASSUME NEW u \in Users, SaveChatMessage(u) PROVE ChatTypeOK'
    <2>0. Pending(u) \in 1 .. sent
      BY <1>6, PendingIsSent DEF SaveChatMessage, At, Sending
    <2>1. store' \subseteq 1 .. sent
      BY <1>6, <2>0 DEF SaveChatMessage, ChatTypeOK
    <2>2. pc' \in [Users -> Steps]
      BY <1>6 DEF SaveChatMessage, Goto, ChatTypeOK, Steps, Sending
    <2> QED BY <1>6, <2>1, <2>2 DEF SaveChatMessage, ChatTypeOK, written, members, sessions, objects, served
  <1>7. ASSUME NEW u \in Users, BroadcastToRoom(u) PROVE ChatTypeOK'
    <2> DEFINE e == IF At(u, "publish") THEN Pending(u) ELSE Notice
    <2>0. At(u, "publish") => Pending(u) \in 1 .. sent
      BY PendingIsSent DEF At, Sending
    <2>1. At(u, "publish") => Pending(u) \in Messages
      BY <2>0, BoundsAssumption DEF ChatTypeOK, Messages
    <2>2. e \in Carried
      BY <2>1 DEF Carried
    <2>3. channel' = Append(channel, e) \/ channel' = channel
      BY <1>7 DEF BroadcastToRoom
    <2> HIDE DEF e
    <2>4. channel' \in Seq(Carried)
      <3>1. channel \in Seq(Carried)
        BY DEF ChatTypeOK
      <3>2. Append(channel, e) \in Seq(Carried)
        BY <2>2, <3>1
      <3> QED BY <2>3, <3>1, <3>2
    <2>5. pc' \in [Users -> Steps]
      BY <1>7 DEF BroadcastToRoom, Goto, ChatTypeOK, Steps
    <2> QED BY <1>7, <2>4, <2>5 DEF BroadcastToRoom, ChatTypeOK, written, members, sessions, objects, served
  <1>8. CASE UNCHANGED vars
    BY <1>8 DEF vars, ChatTypeOK, written, members, sessions, objects, served
  <1> QED BY <1>1, <1>2, <1>3, <1>4, <1>5, <1>6, <1>7, <1>8, <1>9 DEF Next, Listener, Handler

-----------------------------------------------------------------------------
\* What a step does to the channel, the listener and the inboxes.
LEMMA ListenMoves ==
  ASSUME ChatTypeOK, Listen
  PROVE  /\ UNCHANGED <<now, sent, ts, sender, store, inbox, pc>>
         /\ \A i \in DOMAIN channel' :
              i \in Nat \ {0} /\ i + 1 \in DOMAIN channel /\ channel'[i] = channel[i + 1]
         /\ \/ listening' = listening
            \/ 1 \in DOMAIN channel /\ listening'.msg = channel[1]
  <1>0. listening' = listening \/ listening'.msg = Head(channel)
    BY DEF Listen, Waiting
  <1>1. channel \in Seq(Carried) /\ channel # <<>>
    BY DEF Listen, ChatTypeOK
  <1>2. channel' = Tail(channel)
    BY DEF Listen
  <1>3. \A i \in DOMAIN channel' :
          i \in Nat \ {0} /\ i + 1 \in DOMAIN channel /\ channel'[i] = channel[i + 1]
    BY <1>1, <1>2
  <1> QED BY <1>0, <1>1, <1>3 DEF Listen, written

LEMMA BroadcastAppends ==
  ASSUME ChatTypeOK, NEW u \in Users, BroadcastToRoom(u)
  PROVE  /\ UNCHANGED <<now, sent, ts, sender, store, listening, inbox>>
         /\ pc' = [pc EXCEPT ![u] = "idle"]
         /\ \A i \in DOMAIN channel' : i \in Nat /\
              \/ i \in DOMAIN channel /\ channel'[i] = channel[i]
              \/ /\ \A j \in DOMAIN channel' : ~(i < j)
                 /\ channel'[i] = Notice \/ (pc[u] = "publish" /\ channel'[i] = Pending(u))
  <1> DEFINE e == IF At(u, "publish") THEN Pending(u) ELSE Notice
  <1>1. channel' = Append(channel, e) \/ channel' = channel
    BY DEF BroadcastToRoom
  <1>2. e = Notice \/ (pc[u] = "publish" /\ e = Pending(u))
    BY DEF At
  <1> HIDE DEF e
  <1>3. channel \in Seq(Carried)
    BY DEF ChatTypeOK
  <1>4. \A i \in DOMAIN channel' : i \in Nat /\
          \/ i \in DOMAIN channel /\ channel'[i] = channel[i]
          \/ (\A j \in DOMAIN channel' : ~(i < j)) /\ channel'[i] = e
    BY <1>1, <1>3
  <1>5. /\ UNCHANGED <<now, sent, ts, sender, store, listening, inbox>>
        /\ pc' = [pc EXCEPT ![u] = "idle"]
    BY DEF BroadcastToRoom, written, served, Goto
  <1> QED BY <1>2, <1>4, <1>5

LEMMA WrittenAppends ==
  ASSUME ChatTypeOK, NEW u \in Users, Written(u)
  PROVE  /\ UNCHANGED <<now, sent, ts, sender, store, channel, pc>>
         /\ ToServe(u) /\ listening.msg \in Messages /\ listening.msg # Notice
         /\ listening'.msg = listening.msg /\ ~ToServe(u)'
         /\ \A v \in Users : ToServe(v)' => ToServe(v)
         /\ \A v \in Users \ {u} : inbox'[v] = inbox[v]
         /\ Len(inbox'[u]) = Len(inbox[u]) + 1
         /\ \A i \in DOMAIN inbox'[u] : i \in Nat /\
              \/ i \in DOMAIN inbox[u] /\ i <= Len(inbox[u]) /\ inbox'[u][i] = inbox[u][i]
              \/ i = Len(inbox[u]) + 1 /\ inbox'[u][i] = listening.msg
         /\ \A i \in DOMAIN inbox[u] : i < Len(inbox[u]) + 1
  <1>1. inbox[u] \in Seq(Messages) /\ listening.msg \in Messages
    BY DEF Written, ChatTypeOK, Listenings, Carried
  <1>2. inbox'[u] = Append(inbox[u], listening.msg)
    BY DEF Written, ChatTypeOK
  <1>3. /\ Len(inbox'[u]) = Len(inbox[u]) + 1
        /\ \A i \in DOMAIN inbox'[u] : i \in Nat /\
              \/ i \in DOMAIN inbox[u] /\ i <= Len(inbox[u]) /\ inbox'[u][i] = inbox[u][i]
              \/ i = Len(inbox[u]) + 1 /\ inbox'[u][i] = listening.msg
        /\ \A i \in DOMAIN inbox[u] : i < Len(inbox[u]) + 1
    BY <1>1, <1>2
  <1>4. \A v \in Users \ {u} : inbox'[v] = inbox[v]
    BY DEF Written, ChatTypeOK
  <1>5. /\ UNCHANGED <<now, sent, ts, sender, store, channel, pc>>
        /\ listening.msg # Notice /\ listening'.msg = listening.msg
    BY DEF Written, Served, written, ChatTypeOK, Listenings
  <1>6. ToServe(u) /\ ~ToServe(u)' /\ \A v \in Users : ToServe(v)' => ToServe(v)
    BY DEF Written, Served, Listens, ToServe, ChatTypeOK, Listenings
  <1> QED BY <1>1, <1>3, <1>4, <1>5, <1>6

\* Only a handler that publishes makes a message seen; whatever else happens
\* carries messages on, or loses them.
LEMMA EmittedFrom ==
  ASSUME ChatTypeOK, [Next]_vars, NEW x \in Messages, Emitted(x)'
  PROVE  \/ Emitted(x)
         \/ \E u \in Users : BroadcastToRoom(u) /\ pc[u] = "publish" /\ x = Pending(u)
  <1>0. x # Notice
    BY BoundsAssumption DEF Messages
  <1>1. CASE Quiet
    BY <1>1 DEF Quiet, Emitted
  <1>2. CASE Listen
    BY <1>2, ListenMoves DEF Emitted
  <1>3. ASSUME NEW u \in Users, HandleChatSend(u) \/ SaveChatMessage(u)
        PROVE  Emitted(x)
    BY <1>3 DEF HandleChatSend, SaveChatMessage, Emitted, served
  <1>4. ASSUME NEW u \in Users, BroadcastToRoom(u)
        PROVE  Emitted(x) \/ (pc[u] = "publish" /\ x = Pending(u))
    BY <1>0, <1>4, BroadcastAppends DEF Emitted
  <1>5. ASSUME NEW u \in Users, Written(u) PROVE Emitted(x)
    BY <1>5, WrittenAppends DEF Emitted
  <1> QED BY <1>1, <1>2, <1>3, <1>4, <1>5, ChatShapes

\* What only HandleChatSend changes.
LEMMA OnlySendWrites ==
  ASSUME ChatTypeOK, [Next]_vars, \A u \in Users : ~HandleChatSend(u)
  PROVE  /\ UNCHANGED <<now, sent, ts, sender>>
         /\ \A u \in Users : pc'[u] \in Sending => pc[u] \in Sending
  <1>1. CASE Quiet
    BY <1>1 DEF Quiet
  <1>2. CASE Listen
    BY <1>2 DEF Listen, written
  <1>3. ASSUME NEW u \in Users, SaveChatMessage(u) \/ BroadcastToRoom(u) \/ Written(u)
        PROVE  /\ UNCHANGED <<now, sent, ts, sender>>
               /\ \A v \in Users : pc'[v] \in Sending => pc[v] \in Sending
    <2>1. UNCHANGED <<now, sent, ts, sender>>
      BY <1>3 DEF SaveChatMessage, BroadcastToRoom, Written, written
    <2>2. CASE SaveChatMessage(u)
      BY <2>1, <2>2 DEF SaveChatMessage, At, Goto, Sending, ChatTypeOK
    <2>3. CASE BroadcastToRoom(u)
      BY <2>1, <2>3 DEF BroadcastToRoom, At, Goto, Sending, ChatTypeOK
    <2>4. CASE Written(u)
      BY <2>1, <2>4 DEF Written
    <2> QED BY <1>3, <2>2, <2>3, <2>4
  <1> QED BY <1>1, <1>2, <1>3, ChatShapes

\* A new message is its sender's last one, and takes nobody else's place.
LEMMA SentIsLast ==
  ASSUME ChatTypeOK, NEW u \in Users, HandleChatSend(u)
  PROVE  /\ sent' = sent + 1 /\ sent' \in Messages /\ sender'[sent'] = u
         /\ \A x \in 1 .. sent : sender'[x] = sender[x]
         /\ \A m \in 1 .. sent' : IsLast(u, m)' <=> m = sent'
         /\ \A v \in Users \ {u} : \A m \in 1 .. sent' :
              IsLast(v, m)' <=> m \in 1 .. sent /\ IsLast(v, m)
  <1>1. /\ sent \in Nat /\ sent' = sent + 1 /\ sent' <= MaxMessages /\ MaxMessages \in Nat
        /\ sender' = [sender EXCEPT ![sent + 1] = u]
        /\ sender \in [Messages -> Users \cup {NoUser}]
    BY BoundsAssumption DEF HandleChatSend, ChatTypeOK
  <1>2. sent' \in Messages /\ sender'[sent'] = u
    BY <1>1 DEF Messages
  <1>3. \A x \in 1 .. sent : sender'[x] = sender[x]
    BY <1>1 DEF Messages
  <1>4. ASSUME NEW m \in 1 .. sent' PROVE IsLast(u, m)' <=> m = sent'
    BY <1>1, <1>2 DEF IsLast
  <1>5. ASSUME NEW v \in Users \ {u}, NEW m \in 1 .. sent'
        PROVE  IsLast(v, m)' <=> m \in 1 .. sent /\ IsLast(v, m)
    BY <1>1, <1>2, <1>3 DEF IsLast
  <1> QED BY <1>1, <1>2, <1>3, <1>4, <1>5

\* Where no message is sent, the senders and their last messages stay.
LEMMA LastStays ==
  ASSUME ChatTypeOK, [Next]_vars, \A u \in Users : ~HandleChatSend(u)
  PROVE  /\ sent' = sent
         /\ \A x, y : Before(x, y)' <=> Before(x, y)
         /\ \A u \in Users, m \in 1 .. sent : IsLast(u, m)' <=> IsLast(u, m)
  BY OnlySendWrites DEF Before, IsLast

LEMMA NextSaved == ChatTypeOK /\ SavedFirst /\ [Next]_vars => SavedFirst'
  <1> SUFFICES ASSUME ChatTypeOK, SavedFirst, [Next]_vars PROVE SavedFirst'
    OBVIOUS
  <1>1. store \subseteq store'
    <2>1. Quiet \/ Listen => store' = store
      BY DEF Quiet, Listen
    <2>2. ASSUME NEW u \in Users, \/ HandleChatSend(u) \/ SaveChatMessage(u)
                                  \/ BroadcastToRoom(u) \/ Written(u)
          PROVE  store \subseteq store'
      BY <2>2 DEF HandleChatSend, SaveChatMessage, BroadcastToRoom, Written
    <2> QED BY <2>1, <2>2, ChatShapes
  <1>2. ASSUME NEW x \in Messages, Emitted(x)' PROVE x \in store'
    <2>1. CASE Emitted(x)
      BY <1>1, <2>1 DEF SavedFirst
    <2>2. ASSUME NEW u \in Users, pc[u] = "publish", x = Pending(u) PROVE x \in store
      BY <2>2, PendingIsSent DEF SavedFirst, Sending
    <2> QED BY <1>1, <1>2, <2>1, <2>2, EmittedFrom
  <1>3. CASE \A u \in Users : ~HandleChatSend(u)
    <2>1. ASSUME NEW v \in Users, pc'[v] \in Sending
          PROVE  \E m \in 1 .. sent' : IsLast(v, m)'
      <3>1. PICK m \in 1 .. sent : IsLast(v, m)
        BY <1>3, <2>1, OnlySendWrites DEF SavedFirst
      <3> QED BY <1>3, <3>1, LastStays
    <2>2. ASSUME NEW v \in Users, pc'[v] = "publish", NEW m \in 1 .. sent', IsLast(v, m)'
          PROVE  m \in store'
      <3>1. m \in 1 .. sent /\ IsLast(v, m)
        BY <1>3, <2>2, LastStays
      <3>2. CASE pc[v] = "publish"
        BY <1>1, <3>1, <3>2 DEF SavedFirst
      <3>3. CASE pc[v] # "publish"
        <4>1. SaveChatMessage(v) /\ Pending(v) \in store'
          <5>1. ~Quiet /\ ~Listen
            BY <2>2, <3>3 DEF Quiet, Listen, Sending
          <5>2. \A u \in Users : ~BroadcastToRoom(u) /\ ~Written(u)
            BY <2>2, <3>3 DEF BroadcastToRoom, Written, Goto, ChatTypeOK
          <5>3. PICK u \in Users : SaveChatMessage(u)
            BY <1>3, <5>1, <5>2, ChatShapes
          <5>4. u = v
            BY <2>2, <3>3, <5>3 DEF SaveChatMessage, Goto, ChatTypeOK
          <5>5. Pending(v) \in store' \/ pc' = [pc EXCEPT ![v] = "idle"]
            BY <5>3, <5>4 DEF SaveChatMessage, Goto
          <5> QED BY <2>2, <5>3, <5>4, <5>5 DEF ChatTypeOK
        <4>2. Pending(v) = m
          BY <3>1, PendingLast DEF ChatTypeOK
        <4> QED BY <4>1, <4>2
      <3> QED BY <3>2, <3>3
    <2> QED BY <1>2, <2>1, <2>2 DEF SavedFirst
  <1>4. ASSUME NEW u \in Users, HandleChatSend(u) PROVE SavedFirst'
    <2>1. pc' = [pc EXCEPT ![u] = "save"] /\ pc \in [Users -> Steps] /\ sent \in Nat
      BY <1>4 DEF HandleChatSend, Goto, ChatTypeOK
    <2>2. ASSUME NEW v \in Users, pc'[v] \in Sending
          PROVE  \E m \in 1 .. sent' : IsLast(v, m)'
      <3>1. CASE v = u
        <4>1. sent' \in 1 .. sent'
          BY <1>4, <2>1, SentIsLast
        <4> QED BY <1>4, <3>1, <4>1, SentIsLast
      <3>2. CASE v # u
        <4>1. PICK m \in 1 .. sent : IsLast(v, m)
          BY <2>1, <2>2, <3>2 DEF SavedFirst
        <4>2. m \in 1 .. sent'
          BY <1>4, <2>1, SentIsLast
        <4> QED BY <1>4, <3>2, <4>1, <4>2, SentIsLast
      <3> QED BY <3>1, <3>2
    <2>3. ASSUME NEW v \in Users, pc'[v] = "publish", NEW m \in 1 .. sent', IsLast(v, m)'
          PROVE  m \in store'
      <3>1. v # u /\ pc[v] = "publish"
        BY <2>1, <2>3
      <3>2. m \in 1 .. sent /\ IsLast(v, m)
        BY <1>4, <2>3, <3>1, SentIsLast
      <3> QED BY <1>1, <3>1, <3>2 DEF SavedFirst
    <2> QED BY <1>2, <2>2, <2>3 DEF SavedFirst
  <1> QED BY <1>3, <1>4

-----------------------------------------------------------------------------
\* What is in the channel, with the listener or in an inbox was sent.
LEMMA EmittedWasSent ==
  ASSUME ChatTypeOK, SavedFirst
  PROVE  /\ \A i \in DOMAIN channel : channel[i] # Notice =>
              channel[i] \in 1 .. sent /\ Emitted(channel[i])
         /\ listening.msg # Notice =>
              listening.msg \in 1 .. sent /\ Emitted(listening.msg)
         /\ \A u \in Users : \A i \in DOMAIN inbox[u] :
              inbox[u][i] \in 1 .. sent /\ Emitted(inbox[u][i])
  <1>1. ASSUME NEW x \in Messages, Emitted(x) PROVE x \in 1 .. sent
    BY <1>1 DEF SavedFirst, ChatTypeOK
  <1>2. ASSUME NEW i \in DOMAIN channel, channel[i] # Notice
        PROVE  channel[i] \in 1 .. sent /\ Emitted(channel[i])
    <2>1. channel[i] \in Messages
      BY <1>2 DEF ChatTypeOK, Carried
    <2>2. Emitted(channel[i])
      BY <1>2 DEF Emitted
    <2> QED BY <1>1, <2>1, <2>2
  <1>3. ASSUME listening.msg # Notice
        PROVE  listening.msg \in 1 .. sent /\ Emitted(listening.msg)
    <2>1. listening.msg \in Messages
      BY <1>3 DEF ChatTypeOK, Listenings, Carried
    <2>2. Emitted(listening.msg)
      BY <1>3 DEF Emitted
    <2> QED BY <1>1, <2>1, <2>2
  <1>4. ASSUME NEW u \in Users, NEW i \in DOMAIN inbox[u]
        PROVE  inbox[u][i] \in 1 .. sent /\ Emitted(inbox[u][i])
    <2>1. inbox[u] \in Seq(Messages)
      BY DEF ChatTypeOK
    <2>2. inbox[u][i] \in Messages
      BY <2>1
    <2>3. inbox[u][i] # Notice
      BY <2>2, BoundsAssumption DEF Messages
    <2>4. Emitted(inbox[u][i])
      BY <2>3 DEF Emitted
    <2> QED BY <1>1, <2>2, <2>4
  <1> QED BY <1>2, <1>3, <1>4

\* A message that is sent now changes no order among those sent before.
LEMMA OrderStays ==
  ASSUME ChatTypeOK, [Next]_vars, NEW x \in 1 .. sent, NEW y \in 1 .. sent
  PROVE  Before(x, y)' <=> Before(x, y)
  <1>1. CASE \A u \in Users : ~HandleChatSend(u)
    BY <1>1, OnlySendWrites DEF Before
  <1>2. ASSUME NEW u \in Users, HandleChatSend(u) PROVE Before(x, y)' <=> Before(x, y)
    BY <1>2, SentIsLast DEF Before
  <1> QED BY <1>1, <1>2

LEMMA NextKeepsAfter ==
  ASSUME ChatTypeOK, SavedFirst, NextIsAfter, [Next]_vars
  PROVE  NextIsAfter'
  <1> SUFFICES ASSUME NEW v \in Users, pc'[v] \in Sending, NEW m \in 1 .. sent',
                      IsLast(v, m)', NEW x \in Messages, Emitted(x)'
               PROVE  Before(x, m)'
    BY DEF NextIsAfter
  <1>1. CASE \A u \in Users : ~HandleChatSend(u)
    <2>1. pc[v] \in Sending /\ m \in 1 .. sent /\ IsLast(v, m) /\ sender' = sender
      BY <1>1, OnlySendWrites, LastStays
    <2>2. CASE Emitted(x)
      BY <2>1, <2>2 DEF NextIsAfter, Before
    <2>3. ASSUME NEW u \in Users, BroadcastToRoom(u), pc[u] = "publish", x = Pending(u)
          PROVE  Before(x, m)'
      <3>1. u # v
        BY <2>3, BroadcastAppends DEF Sending, ChatTypeOK
      <3>2. sender[x] = u
        BY <2>3, PendingIsSent DEF Sending, IsLast
      <3> QED BY <2>1, <3>1, <3>2 DEF Before, IsLast
    <2> QED BY <2>2, <2>3, EmittedFrom
  <1>2. ASSUME NEW u \in Users, HandleChatSend(u) PROVE Before(x, m)'
    <2>1. Emitted(x)
      BY <1>2 DEF HandleChatSend, Emitted, served
    <2>2. x \in 1 .. sent
      BY <2>1 DEF SavedFirst, ChatTypeOK
    <2>3. CASE v = u
      BY <1>2, <2>2, <2>3, SentIsLast DEF Before, ChatTypeOK
    <2>4. CASE v # u
      <3>1. m \in 1 .. sent /\ IsLast(v, m)
        BY <1>2, <2>4, SentIsLast
      <3>2. pc[v] \in Sending
        BY <1>2, <2>4 DEF HandleChatSend, Goto, ChatTypeOK
      <3> QED BY <2>1, <2>2, <3>1, <3>2, OrderStays DEF NextIsAfter
    <2> QED BY <2>3, <2>4
  <1> QED BY <1>1, <1>2

LEMMA NextPlaces ==
  ASSUME ChatTypeOK, SavedFirst, NextIsAfter, PlacesInOrder, [Next]_vars
  PROVE  PlacesInOrder'
  <1> DEFINE InChannel(i) == i \in DOMAIN channel /\ channel[i] # Notice
  <1>1. CASE Quiet \/ (\E u \in Users : HandleChatSend(u) \/ SaveChatMessage(u))
    <2>1. UNCHANGED <<channel, inbox>> /\ listening'.msg = listening.msg
      BY <1>1 DEF Quiet, HandleChatSend, SaveChatMessage, served
    <2> QED BY <2>1, EmittedWasSent, OrderStays DEF PlacesInOrder
  <1>2. CASE Listen
    <2>1. \A x, y : Before(x, y)' <=> Before(x, y)
      BY <1>2, ListenMoves DEF Before
    <2>2. \A i, j \in DOMAIN channel' :
            i < j /\ channel'[i] # Notice /\ channel'[j] # Notice =>
              Before(channel'[i], channel'[j])
      BY <1>2, ListenMoves DEF PlacesInOrder
    <2>3. \A j \in DOMAIN channel' : channel'[j] # Notice =>
            \A u \in Users : \A i \in DOMAIN inbox[u] : Before(inbox[u][i], channel'[j])
      BY <1>2, ListenMoves DEF PlacesInOrder
    <2>4. CASE listening' = listening
      BY <1>2, <2>1, <2>2, <2>3, <2>4, ListenMoves DEF PlacesInOrder
    <2>5. CASE 1 \in DOMAIN channel /\ listening'.msg = channel[1]
      <3>1. \A j \in DOMAIN channel' :
              channel'[j] # Notice /\ listening'.msg # Notice =>
                Before(listening'.msg, channel'[j])
        BY <1>2, <2>5, ListenMoves DEF PlacesInOrder
      <3>2. listening'.msg # Notice =>
              \A u \in Users : \A i \in DOMAIN inbox[u] : Before(inbox[u][i], listening'.msg)
        BY <2>5 DEF PlacesInOrder
      <3> QED BY <1>2, <2>1, <2>2, <2>3, <3>1, <3>2, ListenMoves DEF PlacesInOrder
    <2> QED BY <1>2, <2>4, <2>5, ListenMoves
  <1>3. ASSUME NEW u \in Users, BroadcastToRoom(u) PROVE PlacesInOrder'
    <2>1. \A x, y : Before(x, y)' <=> Before(x, y)
      BY <1>3, BroadcastAppends DEF Before
    <2>2. pc[u] = "publish" => \A x \in Messages : Emitted(x) => Before(x, Pending(u))
      BY PendingIsSent DEF NextIsAfter, Sending
    <2>3. \A x \in 1 .. sent : x \in Messages
      BY BoundsAssumption DEF ChatTypeOK, Messages
    <2>4. ASSUME NEW j \in DOMAIN channel', channel'[j] # Notice
          PROVE  \/ InChannel(j) /\ channel'[j] = channel[j]
                 \/ /\ \A i \in DOMAIN channel' : ~(j < i)
                    /\ \A x \in Messages : Emitted(x) => Before(x, channel'[j])
      BY <1>3, <2>2, <2>4, BroadcastAppends
    <2>5. ASSUME NEW i \in DOMAIN channel', NEW j \in DOMAIN channel',
                 i < j, channel'[i] # Notice, channel'[j] # Notice
          PROVE  Before(channel'[i], channel'[j])
      <3>1. InChannel(i) /\ channel'[i] = channel[i]
        BY <2>4, <2>5
      <3>2. channel[i] \in Messages /\ Emitted(channel[i])
        BY <2>3, <3>1, EmittedWasSent
      <3> QED BY <2>4, <2>5, <3>1, <3>2 DEF PlacesInOrder
    <2>6. ASSUME NEW j \in DOMAIN channel', channel'[j] # Notice
          PROVE  /\ listening.msg # Notice => Before(listening.msg, channel'[j])
                 /\ \A v \in Users : \A i \in DOMAIN inbox[v] :
                      Before(inbox[v][i], channel'[j])
      BY <2>3, <2>4, <2>6, EmittedWasSent DEF PlacesInOrder
    <2> QED BY <1>3, <2>1, <2>5, <2>6, BroadcastAppends DEF PlacesInOrder
  <1>4. ASSUME NEW u \in Users, Written(u) PROVE PlacesInOrder'
    <2>1. \A x, y : Before(x, y)' <=> Before(x, y)
      BY <1>4, WrittenAppends DEF Before
    <2>2. ASSUME NEW v \in Users, NEW i \in DOMAIN inbox'[v]
          PROVE  \/ i \in DOMAIN inbox[v] /\ inbox'[v][i] = inbox[v][i]
                 \/ inbox'[v][i] = listening.msg
      BY <1>4, WrittenAppends
    <2> QED BY <1>4, <2>1, <2>2, WrittenAppends DEF PlacesInOrder
  <1> QED BY <1>1, <1>2, <1>3, <1>4, ChatShapes

\* The message the listener takes is in no inbox, and it writes it to each of
\* its users once.
LEMMA NextServed ==
  ASSUME ChatTypeOK, SavedFirst, PlacesInOrder, ServedOnce, [Next]_vars
  PROVE  ServedOnce'
  <1>0. \A u \in Users : inbox[u] \in Seq(Messages) /\ Notice \notin Messages
    BY BoundsAssumption DEF ChatTypeOK, Messages
  <1>1. CASE Quiet \/ (\E u \in Users : \/ HandleChatSend(u) \/ SaveChatMessage(u)
                                        \/ BroadcastToRoom(u))
    <2>1. UNCHANGED inbox /\ listening'.msg = listening.msg
          /\ \A u \in Users : ToServe(u)' => ToServe(u)
      BY <1>1 DEF Quiet, HandleChatSend, SaveChatMessage, BroadcastToRoom, served, ToServe
    <2> QED BY <2>1 DEF ServedOnce
  <1>2. CASE Listen
    <2>1. CASE listening' = listening
      BY <1>2, <2>1, ListenMoves DEF ServedOnce, ToServe
    <2>2. CASE 1 \in DOMAIN channel /\ listening'.msg = channel[1]
      <3>1. ASSUME NEW u \in Users, NEW i \in DOMAIN inbox[u], inbox[u][i] = channel[1]
            PROVE  FALSE
        <4>1. inbox[u][i] \in Messages
          BY <1>0
        <4>2. Before(inbox[u][i], channel[1])
          BY <1>0, <2>2, <3>1, <4>1 DEF PlacesInOrder
        <4> QED BY <3>1, <4>1, <4>2 DEF Before, Messages
      <3> QED BY <1>2, <2>2, <3>1, ListenMoves DEF ServedOnce
    <2> QED BY <1>2, <2>1, <2>2, ListenMoves
  <1>3. ASSUME NEW u \in Users, Written(u) PROVE ServedOnce'
    <2> SUFFICES ASSUME NEW v \in Users, NEW i \in DOMAIN inbox'[v],
                        listening'.msg = inbox'[v][i]
                 PROVE  i = Len(inbox'[v]) /\ ~ToServe(v)'
      BY DEF ServedOnce
    <2>1. CASE v # u
      BY <1>3, <2>1, WrittenAppends DEF ServedOnce
    <2>2. CASE v = u
      BY <1>3, <2>2, WrittenAppends DEF ServedOnce
    <2> QED BY <2>1, <2>2
  <1> QED BY <1>1, <1>2, <1>3, ChatShapes

LEMMA NextOneOrder ==
  ASSUME ChatTypeOK, SavedFirst, PlacesInOrder, ServedOnce, OneOrderForAll, [Next]_vars
  PROVE  OneOrderForAll'
  <1>1. CASE ~(\E u \in Users : Written(u))
    <2>1. UNCHANGED inbox
      BY <1>1, ChatShapes DEF Quiet, Listen, HandleChatSend, SaveChatMessage, BroadcastToRoom,
                              served
    <2>2. \A u, v \in Users : \A i \in DOMAIN inbox[u], j \in DOMAIN inbox[v] :
            Before(inbox[u][i], inbox[v][j])' <=> Before(inbox[u][i], inbox[v][j])
      BY <2>1, EmittedWasSent, OrderStays
    <2> QED BY <2>1, <2>2 DEF OneOrderForAll, Before
  <1>2. ASSUME NEW u \in Users, Written(u) PROVE OneOrderForAll'
    <2> DEFINE m == listening.msg
               last == Len(inbox[u]) + 1
    <2>1. sender' = sender
      BY <1>2, WrittenAppends
    <2>2. ASSUME NEW v \in Users, NEW i \in DOMAIN inbox'[v]
          PROVE  \/ i \in DOMAIN inbox[v] /\ inbox'[v][i] = inbox[v][i]
                 \/ v = u /\ i = last /\ inbox'[v][i] = m
      BY <1>2, WrittenAppends
    <2>3. \A i \in DOMAIN inbox[u] : i < last /\ inbox[u][i] # m /\ Before(inbox[u][i], m)
      BY <1>2, WrittenAppends DEF ServedOnce, PlacesInOrder
    <2>4. \A v \in Users : \A i, j \in DOMAIN inbox[v] : inbox[v][i] = m => ~(i < j)
      <3>1. \A v \in Users : inbox[v] \in Seq(Messages)
        BY DEF ChatTypeOK
      <3> QED BY <3>1 DEF ServedOnce
    <2> HIDE DEF m
    <2>5. ASSUME NEW v \in Users, NEW i \in DOMAIN inbox'[v], NEW j \in DOMAIN inbox'[v], i < j
          PROVE  inbox'[v][i] # inbox'[v][j] /\ Before(inbox'[v][i], inbox'[v][j])
                 /\ i \in DOMAIN inbox[v] /\ inbox'[v][i] = inbox[v][i]
      <3>1. i \in DOMAIN inbox[v] /\ inbox'[v][i] = inbox[v][i]
        <4>1. \A k \in DOMAIN inbox'[u] : k \in Nat /\ k <= last
          BY <1>2, WrittenAppends
        <4> QED BY <1>2, <2>2, <2>5, <4>1, WrittenAppends
      <3>2. CASE j \in DOMAIN inbox[v] /\ inbox'[v][j] = inbox[v][j]
        BY <2>5, <3>1, <3>2 DEF OneOrderForAll, Before
      <3>3. CASE v = u /\ inbox'[v][j] = m
        BY <2>3, <3>1, <3>3
      <3> QED BY <2>2, <3>1, <3>2, <3>3
    <2>6. ASSUME NEW v \in Users, NEW i \in DOMAIN inbox'[v], NEW j \in DOMAIN inbox'[v], i < j,
                 NEW w \in Users, NEW k \in DOMAIN inbox'[w], NEW l \in DOMAIN inbox'[w], k < l,
                 inbox'[w][k] = inbox'[v][j], inbox'[w][l] = inbox'[v][i]
          PROVE  FALSE
      <3>1. /\ i \in DOMAIN inbox[v] /\ inbox'[v][i] = inbox[v][i]
            /\ k \in DOMAIN inbox[w] /\ inbox'[w][k] = inbox[w][k]
        BY <2>5, <2>6
      <3>2. CASE /\ j \in DOMAIN inbox[v] /\ inbox'[v][j] = inbox[v][j]
                 /\ l \in DOMAIN inbox[w] /\ inbox'[w][l] = inbox[w][l]
        <4>1. inbox[w][k] = inbox[v][j] /\ inbox[w][l] = inbox[v][i]
          BY <2>6, <3>1, <3>2
        <4> QED BY <2>6, <3>1, <3>2, <4>1 DEF OneOrderForAll
      <3>3. CASE v = u /\ j = last /\ inbox'[v][j] = m
        <4>1. inbox[w][k] = m
          BY <2>6, <3>1, <3>3
        <4>2. CASE l \in DOMAIN inbox[w]
          BY <2>4, <2>6, <3>1, <4>1, <4>2
        <4>3. CASE w = u
          BY <2>3, <3>1, <4>1, <4>3
        <4> QED BY <2>2, <4>2, <4>3
      <3>4. CASE w = u /\ l = last /\ inbox'[w][l] = m
        <4>1. inbox[v][i] = m
          BY <2>6, <3>1, <3>4
        <4>2. CASE j \in DOMAIN inbox[v]
          BY <2>4, <2>6, <3>1, <4>1, <4>2
        <4>3. CASE v = u
          BY <2>3, <3>1, <4>1, <4>3
        <4> QED BY <2>2, <4>2, <4>3
      <3> QED BY <2>2, <3>2, <3>3, <3>4
    <2> QED BY <2>1, <2>5, <2>6 DEF OneOrderForAll, Before
  <1> QED BY <1>1, <1>2

LEMMA InitChat == Init => ChatInv
  <1> SUFFICES ASSUME Init PROVE ChatInv
    OBVIOUS
  <1>1. ChatTypeOK
    <2>1. sent \in Nat /\ sent <= MaxMessages /\ now \in Nat
      BY BoundsAssumption DEF Init
    <2>2. ts \in [Messages -> Nat] /\ sender \in [Messages -> Users \cup {NoUser}]
      BY DEF Init
    <2>3. store \subseteq 1 .. sent /\ channel \in Seq(Carried) /\ inbox \in [Users -> Seq(Messages)]
      BY DEF Init
    <2>4. /\ index \subseteq Users /\ live \subseteq Users /\ inRoom \subseteq Users
          /\ pc \in [Users -> Steps]
      BY UsersAssumption DEF Init, Steps
    <2>5. listening \in Listenings /\ listening.step = "next"
      BY DEF Init, Waiting, Listenings, Carried
    <2>6. conn \in [Users -> Seq(Conns) \ {<<>>}]
      BY DEF Init, Conns
    <2> QED BY <2>1, <2>2, <2>3, <2>4, <2>5, <2>6 DEF ChatTypeOK
  <1>2. \A u \in Users : pc[u] = "idle" /\ inbox[u] = <<>>
    BY DEF Init
  <1>3. channel = <<>> /\ listening.msg = Notice
    BY DEF Init, Waiting
  <1>4. \A x : ~Emitted(x)
    BY <1>2, <1>3 DEF Emitted
  <1>5. SavedFirst /\ NextIsAfter
    BY <1>2, <1>4 DEF SavedFirst, NextIsAfter, Sending
  <1>6. PlacesInOrder /\ ServedOnce /\ OneOrderForAll
    BY <1>2, <1>3 DEF PlacesInOrder, ServedOnce, OneOrderForAll
  <1> QED BY <1>1, <1>5, <1>6 DEF ChatInv

LEMMA NextChat == ChatInv /\ [Next]_vars => ChatInv'
  BY ChatNextType, NextSaved, NextKeepsAfter, NextPlaces, NextServed, NextOneOrder
     DEF ChatInv

LEMMA ChatInvariant == FairSpec => []ChatInv
  <1>1. FairSpec => Init /\ [][Next]_vars
    BY PTL DEF FairSpec
  <1> QED BY <1>1, InitChat, NextChat, PTL

\* Several connections save and publish at once, and clients come and go while
\* the listener writes: nobody is shown a message twice, and all see what they
\* have in common in one order, each sender's messages in the order it sent
\* them.
THEOREM OneOrder == FairSpec => []OneOrderForAll
  <1>1. ChatInv => OneOrderForAll
    BY DEF ChatInv
  <1> QED BY <1>1, ChatInvariant, PTL

-----------------------------------------------------------------------------
\* A sort of finitely many messages leaves none out.
LEMMA SortHasAll ==
  ASSUME NEW ms, IsFiniteSet(ms), NEW s \in NewestFirst(ms), NEW m \in ms
  PROVE  \E i \in 1 .. Cardinality(ms) : s[i] = m
  <1> DEFINE n == Cardinality(ms)
  <1>1. n \in Nat
    BY FS_CardinalityType
  <1>2. s \in Injection(1 .. n, ms)
    BY DEF NewestFirst, Injection
  <1>3. Cardinality(1 .. n) = n
    BY <1>1, FS_Interval
  <1>4. s \in Surjection(1 .. n, ms)
    BY <1>2, <1>3, FS_Injection
  <1> QED BY <1>4 DEF Surjection

\* A history is the newest messages of a sort, turned around.
LEMMA HistoryShape ==
  ASSUME NEW ms, IsFiniteSet(ms), NEW limit \in Nat, NEW h \in GetChatHistory(ms, limit)
  PROVE  \E s \in NewestFirst(ms) : \E k \in Nat :
           /\ k <= Cardinality(ms) /\ k <= limit
           /\ k = Cardinality(ms) \/ k = limit
           /\ Len(h) = k /\ DOMAIN h = 1 .. k
           /\ \A i \in 1 .. k : h[i] = s[k - i + 1]
  <1> DEFINE n == Cardinality(ms)
  <1>1. n \in Nat
    BY FS_CardinalityType
  <1>2. PICK s \in NewestFirst(ms) :
          h = Reverse(SubSeq(s, 1, IF Len(s) < limit THEN Len(s) ELSE limit))
    BY DEF GetChatHistory
  <1>3. s \in [1 .. n -> ms]
    BY DEF NewestFirst
  <1> HIDE DEF n
  <1>4. s \in Seq(ms) /\ Len(s) = n
    BY <1>1, <1>3
  <1> DEFINE k == IF n < limit THEN n ELSE limit
  <1>5. k \in Nat /\ k <= n /\ k <= limit /\ (k = n \/ k = limit)
    BY <1>1
  <1>6. h = Reverse(SubSeq(s, 1, k))
    BY <1>2, <1>4
  <1> HIDE DEF k
  <1> DEFINE t == SubSeq(s, 1, k)
  <1>7. t \in Seq(ms) /\ Len(t) = k /\ \A i \in 1 .. k : t[i] = s[i]
    BY <1>1, <1>4, <1>5
  <1> HIDE DEF t
  <1>8. h = [i \in 1 .. k |-> t[(k - i) + 1]]
    BY <1>6, <1>7 DEF Reverse, t
  <1>9. h \in Seq(ms) /\ Len(h) = k /\ DOMAIN h = 1 .. k
    BY <1>5, <1>7, <1>8
  <1>10. \A i \in 1 .. k : h[i] = s[k - i + 1]
    BY <1>5, <1>7, <1>8
  <1> QED BY <1>5, <1>9, <1>10 DEF n

\* Whatever fails, and whatever order MongoDB gives to messages of one time, a
\* history is chronological, and what a client was shown is in it or is older
\* than all of it.
THEOREM ShownStays == FairSpec => []ShownStaysInHistory
  <1>1. ASSUME ChatInv PROVE ShownStaysInHistory
    <2>1. ChatTypeOK /\ SavedFirst
      BY <1>1 DEF ChatInv
    <2>2. IsFiniteSet(store)
      <3>1. IsFiniteSet(1 .. sent)
        BY <2>1, FS_Interval DEF ChatTypeOK
      <3> QED BY <2>1, <3>1, FS_Subset DEF ChatTypeOK
    <2>3. Cardinality(store) \in Nat
      BY <2>2, FS_CardinalityType
    <2>4. ASSUME NEW x \in store PROVE ts[x] \in Nat
      <3>1. x \in Messages
        BY <2>1, BoundsAssumption DEF ChatTypeOK, Messages
      <3> QED BY <2>1, <3>1 DEF ChatTypeOK
    <2> SUFFICES ASSUME NEW limit \in 1 .. MaxChatHistory, NEW h \in GetChatHistory(store, limit)
                 PROVE  /\ \A i, j \in DOMAIN h : i < j => ts[h[i]] <= ts[h[j]]
                        /\ \A u \in Users : \A m \in ToSet(inbox[u]) \ ToSet(h) :
                             Len(h) = limit /\ \A x \in ToSet(h) : ts[x] >= ts[m]
      BY DEF ShownStaysInHistory
    <2>5. PICK s \in NewestFirst(store) : \E k \in Nat :
            /\ k <= Cardinality(store) /\ k <= limit
            /\ k = Cardinality(store) \/ k = limit
            /\ Len(h) = k /\ DOMAIN h = 1 .. k
            /\ \A i \in 1 .. k : h[i] = s[k - i + 1]
      BY <2>2, HistoryShape
    <2>6. PICK k \in Nat :
            /\ k <= Cardinality(store) /\ k <= limit
            /\ k = Cardinality(store) \/ k = limit
            /\ Len(h) = k /\ DOMAIN h = 1 .. k
            /\ \A i \in 1 .. k : h[i] = s[k - i + 1]
      BY <2>5
    <2>7. /\ \A i \in 1 .. Cardinality(store) : s[i] \in store
          /\ \A i, j \in 1 .. Cardinality(store) : i < j => ts[s[i]] >= ts[s[j]]
      BY DEF NewestFirst
    <2>8. ASSUME NEW i \in DOMAIN h, NEW j \in DOMAIN h, i < j
          PROVE  ts[h[i]] <= ts[h[j]]
      <3>1. /\ k - i + 1 \in 1 .. Cardinality(store) /\ k - j + 1 \in 1 .. Cardinality(store)
            /\ k - j + 1 < k - i + 1
        BY <2>3, <2>6, <2>8
      <3>2. ts[s[k - j + 1]] >= ts[s[k - i + 1]]
        BY <2>7, <3>1
      <3>3. h[i] = s[k - i + 1] /\ h[j] = s[k - j + 1]
        BY <2>6
      <3>4. ts[h[i]] \in Nat /\ ts[h[j]] \in Nat
        BY <2>4, <2>7, <3>1, <3>3
      <3> QED BY <3>2, <3>3, <3>4
    <2>9. ASSUME NEW u \in Users, NEW m \in ToSet(inbox[u]) \ ToSet(h)
          PROVE  Len(h) = limit /\ \A x \in ToSet(h) : ts[x] >= ts[m]
      <3>1. m \in store
        <4>1. PICK i \in DOMAIN inbox[u] : m = inbox[u][i]
          BY DEF ToSet
        <4>2. m \in 1 .. sent /\ Emitted(m)
          BY <2>1, <4>1, EmittedWasSent
        <4>3. m \in Messages
          BY <2>1, <4>2, BoundsAssumption DEF ChatTypeOK, Messages
        <4> QED BY <2>1, <4>2, <4>3 DEF SavedFirst
      <3>2. PICK i \in 1 .. Cardinality(store) : s[i] = m
        BY <2>2, <3>1, SortHasAll
      <3>3. ~(i <= k)
        <4> SUFFICES ASSUME i <= k PROVE FALSE
          OBVIOUS
        <4>1. k - i + 1 \in 1 .. k /\ k - (k - i + 1) + 1 = i
          BY <2>3, <2>6
        <4>2. h[k - i + 1] = m
          BY <2>6, <3>2, <4>1
        <4> QED BY <2>6, <4>1, <4>2 DEF ToSet
      <3>4. k = limit
        BY <2>3, <2>6, <3>3
      <3>5. ASSUME NEW x \in ToSet(h) PROVE ts[x] >= ts[m]
        <4>1. PICK j \in 1 .. k : x = h[j]
          BY <2>6 DEF ToSet
        <4>2. k - j + 1 \in 1 .. Cardinality(store) /\ k - j + 1 < i
          BY <2>3, <2>6, <3>3
        <4>3. x = s[k - j + 1]
          BY <2>6, <4>1
        <4> QED BY <2>7, <3>2, <4>2, <4>3
      <3> QED BY <2>6, <3>4, <3>5
    <2> QED BY <2>8, <2>9
  <1> QED BY <1>1, ChatInvariant, PTL
=============================================================================
