--------------------------- MODULE AIManagerProofs ---------------------------
(***************************************************************************)
(* What holds of the turns of AI players for every number of rooms and     *)
(* turns, however schedules, cancels and late callbacks interleave.        *)
(***************************************************************************)
EXTENDS AIManager, FiniteSetTheorems, TLAPS

\* Turns are numbered in a row, and those that were scheduled have a room.
Numbered ==
  \E n \in 0 .. MaxTurns :
    \A t \in Turns : /\ t <= n <=> phase[t] # "unused"
                     /\ phase[t] # "unused" => roomOf[t] \in Rooms
                     /\ phase[t] = "unused" => roomOf[t] = NoRoom

\* A turn that holds its room's entry while an older callback is on its way
\* was scheduled while that callback was.
EntryOverOlderIsOverlapped ==
  \A r \in Rooms : pending[r] # NoTurn =>
    \A t \in TurnsOf(r) :
      t # pending[r] /\ phase[t] \in {"armed", "waiting"} => pending[r] \in overlapped

IInv == /\ TypeOK /\ Numbered /\ EntryIsStillToCome
        /\ EntryOverOlderIsOverlapped /\ CancelStopsTheRest

-----------------------------------------------------------------------------
\* The number of a new turn is that of the last one plus one.
LEMMA NewTurnIsNext ==
  ASSUME Numbered, TypeOK, Used # Turns
  PROVE  /\ NewTurn \in Turns /\ phase[NewTurn] = "unused"
         /\ \A t \in Turns : phase[t] # "unused" => t < NewTurn
         /\ \A t \in Turns : t < NewTurn => phase[t] # "unused" /\ roomOf[t] \in Rooms
         /\ \A t \in Turns : phase[t] = "unused" => roomOf[t] = NoRoom
  <1>0. MaxTurns \in Nat
    BY RoomsAssumption
  <1>1. PICK n \in 0 .. MaxTurns :
          \A t \in Turns : /\ t <= n <=> phase[t] # "unused"
                           /\ phase[t] # "unused" => roomOf[t] \in Rooms
                           /\ phase[t] = "unused" => roomOf[t] = NoRoom
    BY DEF Numbered
  <1>2. Used = 1 .. n
    BY <1>0, <1>1 DEF Used, Turns
  <1>3. Cardinality(Used) = n
    BY <1>0, <1>2, FS_Interval
  <1>4. n # MaxTurns
    BY <1>2 DEF Turns
  <1>5. NewTurn = n + 1
    BY <1>3 DEF NewTurn
  <1> QED BY <1>0, <1>1, <1>4, <1>5 DEF Turns

LEMMA InitInv == Init => IInv
  <1> SUFFICES ASSUME Init PROVE IInv
    OBVIOUS
  <1>0. MaxTurns \in Nat
    BY RoomsAssumption
  <1>1. TypeOK
    BY DEF Init, TypeOK, Phases, NoTurn
  <1>2. Numbered
    <2>1. 0 \in 0 .. MaxTurns
      BY <1>0
    <2>2. \A t \in Turns : /\ t <= 0 <=> phase[t] # "unused"
                           /\ phase[t] # "unused" => roomOf[t] \in Rooms
                           /\ phase[t] = "unused" => roomOf[t] = NoRoom
      BY <1>0 DEF Init, Turns
    <2> QED BY <2>1, <2>2 DEF Numbered
  <1> QED BY <1>1, <1>2
     DEF Init, IInv, EntryIsStillToCome, EntryOverOlderIsOverlapped, CancelStopsTheRest

\* A step that only moves one turn on, from a phase it is in by its guard.
LEMMA MoveInv ==
  ASSUME IInv, NEW t \in Turns, NEW p \in Phases,
         \/ /\ phase[t] = "armed" /\ p = "waiting"
         \/ /\ phase[t] = "deciding" /\ p \in {"executing", "done"}
         \/ /\ phase[t] = "executing" /\ p = "done",
         phase' = [phase EXCEPT ![t] = p],
         UNCHANGED <<pending, roomOf, cancelled, late, overlapped>>
  PROVE  IInv'
  <1>1. TypeOK'
    BY DEF IInv, TypeOK
  <1>2. \A u \in Turns : phase'[u] = IF u = t THEN p ELSE phase[u]
    BY DEF IInv, TypeOK
  <1>3. Numbered'
    BY <1>2 DEF IInv, Numbered
  <1>4. EntryIsStillToCome'
    BY <1>2 DEF IInv, EntryIsStillToCome, TurnsOf, TypeOK, NoTurn
  <1>5. EntryOverOlderIsOverlapped'
    BY <1>2 DEF IInv, EntryOverOlderIsOverlapped, TurnsOf
  <1>6. CancelStopsTheRest'
    BY <1>2 DEF IInv, CancelStopsTheRest, TypeOK
  <1> QED BY <1>1, <1>3, <1>4, <1>5, <1>6 DEF IInv

LEMMA ScheduleInv ==
  ASSUME IInv, NEW r \in Rooms, ScheduleAITurn(r)
  PROVE  IInv'
  <1> DEFINE n == NewTurn
  <1>0. MaxTurns \in Nat
    BY RoomsAssumption
  <1>1. /\ n \in Turns /\ phase[n] = "unused"
        /\ \A t \in Turns : phase[t] # "unused" => t < n
        /\ \A t \in Turns : t < n => phase[t] # "unused" /\ roomOf[t] \in Rooms
        /\ \A t \in Turns : phase[t] = "unused" => roomOf[t] = NoRoom
    BY NewTurnIsNext DEF IInv, ScheduleAITurn
  <1>2. TypeOK
    BY DEF IInv
  <1> HIDE DEF n
  <1>3. /\ \A t \in Turns : StopPending({r})[t] =
             IF phase[t] = "armed" /\ pending[r] = t THEN "stopped" ELSE phase[t]
        /\ StopPending({r}) \in [Turns -> Phases]
    BY <1>2 DEF StopPending, TypeOK, Phases
  <1>4. /\ phase'[n] = "armed"
        /\ \A t \in Turns : t # n => phase'[t] =
             IF phase[t] = "armed" /\ pending[r] = t THEN "stopped" ELSE phase[t]
    BY <1>1, <1>3 DEF ScheduleAITurn, n
  <1>5. /\ pending'[r] = n
        /\ \A q \in Rooms : q # r => pending'[q] = pending[q]
    BY <1>2 DEF ScheduleAITurn, TypeOK, n
  <1>6. /\ roomOf'[n] = r
        /\ \A t \in Turns : t # n => roomOf'[t] = roomOf[t]
    BY <1>1, <1>2 DEF ScheduleAITurn, TypeOK, n
  <1>7. /\ \A t \in Turns : t \in overlapped => t \in overlapped'
        /\ \A t \in Turns : t # n /\ roomOf[t] = r /\ phase'[t] \in {"armed", "waiting"}
             => n \in overlapped'
    <2>1. ASSUME NEW t \in Turns, t # n, roomOf[t] = r, phase'[t] \in {"armed", "waiting"}
          PROVE  n \in overlapped'
      <3>1. StopPending({r})[t] \in {"armed", "waiting"}
        BY <1>3, <1>4, <2>1
      <3> QED BY <2>1, <3>1 DEF ScheduleAITurn, TurnsOf, n
    <2> QED BY <2>1 DEF ScheduleAITurn
  <1>8. /\ \A t \in Turns : t \in cancelled' =>
             \/ t \in cancelled
             \/ roomOf[t] = r /\ phase[t] = "armed"
             \/ t \in late'
        /\ \A t \in Turns : t \in late => t \in late'
    BY DEF ScheduleAITurn, Coming, Waiting, TurnsOf
  <1>9. TypeOK'
    <2>1. phase' \in [Turns -> Phases]
      BY <1>3 DEF ScheduleAITurn, Phases
    <2>2. pending' \in [Rooms -> Turns \cup {NoTurn}]
      BY <1>1, <1>2 DEF ScheduleAITurn, TypeOK, n
    <2>3. roomOf' \in [Turns -> Rooms \cup {NoRoom}]
      BY <1>2 DEF ScheduleAITurn, TypeOK
    <2>4. cancelled' \subseteq Turns /\ late' \subseteq Turns /\ overlapped' \subseteq Turns
      BY <1>1, <1>2 DEF ScheduleAITurn, TypeOK, Coming, Waiting, TurnsOf, n
    <2> QED BY <2>1, <2>2, <2>3, <2>4 DEF TypeOK
  <1>10. Numbered'
    <2>1. n \in 0 .. MaxTurns
      BY <1>0, <1>1 DEF Turns
    <2>2. ASSUME NEW t \in Turns
          PROVE  /\ t <= n <=> phase'[t] # "unused"
                 /\ phase'[t] # "unused" => roomOf'[t] \in Rooms
                 /\ phase'[t] = "unused" => roomOf'[t] = NoRoom
      <3>1. CASE t = n
        BY <1>0, <1>4, <1>6, <2>1, <3>1
      <3>2. CASE t # n
        <4>1. phase'[t] = "unused" <=> phase[t] = "unused"
          BY <1>4, <3>2
        <4>2. t <= n <=> t < n
          BY <1>0, <2>1, <3>2 DEF Turns
        <4> QED BY <1>1, <1>6, <3>2, <4>1, <4>2
      <3> QED BY <3>1, <3>2
    <2> QED BY <2>1, <2>2 DEF Numbered
  <1>11. EntryIsStillToCome'
    <2> SUFFICES ASSUME NEW q \in Rooms, pending'[q] # NoTurn
                 PROVE  /\ roomOf'[pending'[q]] = q
                        /\ phase'[pending'[q]] \in {"armed", "waiting"}
                        /\ \A t \in Turns : roomOf'[t] = q => t <= pending'[q]
      BY DEF EntryIsStillToCome, TurnsOf
    <2>1. CASE q = r
      <3>1. ASSUME NEW t \in Turns, roomOf'[t] = r PROVE t <= n
        <4>1. t = n \/ phase[t] # "unused"
          BY <1>1, <1>6, <3>1, RoomsAssumption
        <4> QED BY <1>0, <1>1, <4>1 DEF Turns
      <3> QED BY <1>4, <1>5, <1>6, <2>1, <3>1
    <2>2. CASE q # r
      <3>1. /\ pending'[q] = pending[q] /\ pending[q] \in Turns
            /\ roomOf[pending[q]] = q /\ phase[pending[q]] \in {"armed", "waiting"}
            /\ \A t \in Turns : roomOf[t] = q => t <= pending[q]
        BY <1>2, <1>5, <2>2 DEF IInv, EntryIsStillToCome, TurnsOf, TypeOK
      <3>2. pending[q] # n
        BY <1>1, <3>1
      <3>3. pending[q] # pending[r]
        BY <1>2, <2>2, <3>1 DEF IInv, EntryIsStillToCome, TypeOK
      <3> QED BY <1>4, <1>6, <2>2, <3>1, <3>2, <3>3
    <2> QED BY <2>1, <2>2
  <1>12. EntryOverOlderIsOverlapped'
    <2> SUFFICES ASSUME NEW q \in Rooms, pending'[q] # NoTurn,
                        NEW t \in Turns, roomOf'[t] = q, t # pending'[q],
                        phase'[t] \in {"armed", "waiting"}
                 PROVE  pending'[q] \in overlapped'
      BY DEF EntryOverOlderIsOverlapped, TurnsOf
    <2>1. CASE q = r
      BY <1>5, <1>6, <1>7, <2>1
    <2>2. CASE q # r
      <3>1. t # n /\ roomOf[t] = q /\ phase[t] \in {"armed", "waiting"}
        BY <1>4, <1>6, <2>2
      <3>2. pending[q] \in overlapped /\ pending[q] \in Turns
        BY <1>2, <1>5, <2>2, <3>1 DEF IInv, EntryOverOlderIsOverlapped, TurnsOf, TypeOK
      <3> QED BY <1>5, <1>7, <2>2, <3>2
    <2> QED BY <2>1, <2>2
  <1>13. CancelStopsTheRest'
    <2>1. ASSUME NEW t \in Turns, phase'[t] = "armed", pending'[roomOf'[t]] # t
          PROVE  t \in overlapped'
      <3>1. t # n /\ phase[t] = "armed" /\ roomOf'[t] = roomOf[t] /\ roomOf[t] \in Rooms
        BY <1>1, <1>4, <1>5, <1>6, <2>1
      <3>2. CASE roomOf[t] = r
        <4>1. pending[r] # t
          BY <1>4, <2>1, <3>1
        <4> QED BY <1>7, <3>1, <3>2, <4>1 DEF IInv, CancelStopsTheRest
      <3>3. CASE roomOf[t] # r
        BY <1>5, <1>7, <2>1, <3>1, <3>3 DEF IInv, CancelStopsTheRest
      <3> QED BY <3>2, <3>3
    <2>2. ASSUME NEW t \in cancelled', phase'[t] # "stopped", t \notin late'
          PROVE  t \in overlapped'
      <3>1. t \in Turns
        BY <1>9, <2>2 DEF TypeOK
      <3>2. CASE t \in cancelled
        <4>1. CASE t = n
          \* A turn that was cancelled has been scheduled before.
          <5>1. n \in overlapped
            BY <1>1, <1>8, <2>2, <3>1, <3>2, <4>1 DEF IInv, CancelStopsTheRest
          <5> QED BY <1>7, <3>1, <4>1, <5>1
        <4>2. CASE t # n
          <5>1. phase[t] # "stopped"
            BY <1>4, <2>2, <3>1, <4>2
          <5> QED BY <1>7, <1>8, <2>2, <3>1, <3>2, <5>1 DEF IInv, CancelStopsTheRest
        <4> QED BY <4>1, <4>2
      <3>3. CASE t \notin cancelled
        <4>1. roomOf[t] = r /\ phase[t] = "armed" /\ t # n
          BY <1>1, <1>8, <2>2, <3>1, <3>3
        <4>2. pending[r] # t
          BY <1>4, <2>2, <3>1, <4>1
        <4> QED BY <1>7, <3>1, <4>1, <4>2 DEF IInv, CancelStopsTheRest
      <3> QED BY <3>2, <3>3
    <2> QED BY <2>1, <2>2 DEF CancelStopsTheRest
  <1> QED BY <1>9, <1>10, <1>11, <1>12, <1>13 DEF IInv

LEMMA CancelInv ==
  ASSUME IInv, NEW rs \in SUBSET Rooms, Cancel(rs)
  PROVE  IInv'
  <1>1. TypeOK
    BY DEF IInv
  <1>2. PICK n \in 0 .. MaxTurns :
          \A t \in Turns : /\ t <= n <=> phase[t] # "unused"
                           /\ phase[t] # "unused" => roomOf[t] \in Rooms
                           /\ phase[t] = "unused" => roomOf[t] = NoRoom
    BY DEF IInv, Numbered
  <1>3. \A t \in Turns : phase'[t] =
          IF phase[t] = "armed" /\ \E r \in rs : pending[r] = t THEN "stopped" ELSE phase[t]
    BY DEF Cancel, StopPending
  <1>4. \A r \in Rooms : pending'[r] = IF r \in rs THEN NoTurn ELSE pending[r]
    BY DEF Cancel
  <1>5. /\ \A t \in Turns : t \in cancelled' =>
             \/ t \in cancelled
             \/ roomOf[t] \in rs /\ phase[t] = "armed"
             \/ t \in late'
        /\ \A t \in Turns : t \in late => t \in late'
    BY DEF Cancel, Coming, Waiting, TurnsOf
  <1>6. roomOf' = roomOf /\ overlapped' = overlapped
    BY DEF Cancel
  <1>7. TypeOK'
    <2>1. phase' \in [Turns -> Phases]
      BY <1>1 DEF Cancel, StopPending, TypeOK, Phases
    <2>2. pending' \in [Rooms -> Turns \cup {NoTurn}]
      BY <1>1 DEF Cancel, TypeOK
    <2>3. cancelled' \subseteq Turns /\ late' \subseteq Turns
      BY <1>1 DEF Cancel, TypeOK, Coming, Waiting, TurnsOf
    <2> QED BY <1>1, <1>6, <2>1, <2>2, <2>3 DEF TypeOK
  <1>8. Numbered'
    BY <1>2, <1>3, <1>6 DEF Numbered
  <1>9. ASSUME NEW r \in Rooms, pending'[r] # NoTurn
        PROVE  /\ r \notin rs /\ pending'[r] = pending[r] /\ pending[r] \in Turns
               /\ roomOf[pending[r]] = r
               /\ phase'[pending[r]] = phase[pending[r]]
    <2>1. r \notin rs /\ pending'[r] = pending[r] /\ pending[r] \in Turns
          /\ roomOf[pending[r]] = r
      BY <1>1, <1>4, <1>9 DEF IInv, EntryIsStillToCome, TypeOK
    <2>2. \A q \in rs : pending[q] # pending[r]
      BY <1>9, <2>1 DEF IInv, EntryIsStillToCome
    <2> QED BY <1>3, <2>1, <2>2
  <1>10. EntryIsStillToCome'
    BY <1>6, <1>9 DEF IInv, EntryIsStillToCome, TurnsOf
  <1>11. EntryOverOlderIsOverlapped'
    BY <1>3, <1>6, <1>9 DEF IInv, EntryOverOlderIsOverlapped, TurnsOf
  <1>12. CancelStopsTheRest'
    <2>1. ASSUME NEW t \in Turns, phase'[t] = "armed", pending'[roomOf'[t]] # t
          PROVE  t \in overlapped'
      <3>1. phase[t] = "armed" /\ roomOf[t] \in Rooms
        BY <1>2, <1>3, <2>1
      <3>2. pending[roomOf[t]] # t
        BY <1>3, <1>4, <1>6, <2>1, <3>1
      <3> QED BY <1>6, <3>1, <3>2 DEF IInv, CancelStopsTheRest
    <2>2. ASSUME NEW t \in cancelled', phase'[t] # "stopped", t \notin late'
          PROVE  t \in overlapped'
      <3>1. t \in Turns
        BY <1>7, <2>2 DEF TypeOK
      <3>2. CASE t \in cancelled
        BY <1>3, <1>5, <1>6, <2>2, <3>1, <3>2 DEF IInv, CancelStopsTheRest
      <3>3. CASE t \notin cancelled
        <4>1. roomOf[t] \in rs /\ phase[t] = "armed"
          BY <1>5, <2>2, <3>1, <3>3
        <4>2. pending[roomOf[t]] # t
          BY <1>3, <2>2, <3>1, <4>1
        <4> QED BY <1>6, <3>1, <4>1, <4>2 DEF IInv, CancelStopsTheRest
      <3> QED BY <3>2, <3>3
    <2> QED BY <2>1, <2>2 DEF CancelStopsTheRest
  <1> QED BY <1>7, <1>8, <1>10, <1>11, <1>12 DEF IInv

\* The callback that deletes the entry of a newer turn is the one step that
\* needs EntryOverOlderIsOverlapped.
LEMMA CallbackInv ==
  ASSUME IInv, NEW t \in Turns, Callback(t)
  PROVE  IInv'
  <1>1. TypeOK
    BY DEF IInv
  <1>2. PICK n \in 0 .. MaxTurns :
          \A u \in Turns : /\ u <= n <=> phase[u] # "unused"
                           /\ phase[u] # "unused" => roomOf[u] \in Rooms
                           /\ phase[u] = "unused" => roomOf[u] = NoRoom
    BY DEF IInv, Numbered
  <1>3. /\ phase[t] = "waiting" /\ roomOf[t] \in Rooms
        /\ \A u \in Turns : phase'[u] = IF u = t THEN "deciding" ELSE phase[u]
        /\ \A r \in Rooms : pending'[r] = IF r = roomOf[t] THEN NoTurn ELSE pending[r]
        /\ UNCHANGED <<roomOf, cancelled, late, overlapped>>
    BY <1>1, <1>2 DEF Callback, history, TypeOK
  <1>4. TypeOK'
    BY <1>1, <1>3 DEF Callback, TypeOK, Phases
  <1>5. Numbered'
    BY <1>2, <1>3 DEF Numbered
  <1>6. EntryIsStillToCome'
    BY <1>1, <1>3 DEF IInv, EntryIsStillToCome, TurnsOf, TypeOK
  <1>7. EntryOverOlderIsOverlapped'
    BY <1>3 DEF IInv, EntryOverOlderIsOverlapped, TurnsOf
  <1>8. CancelStopsTheRest'
    <2>1. ASSUME NEW u \in Turns, phase'[u] = "armed", pending'[roomOf'[u]] # u
          PROVE  u \in overlapped'
      <3>1. u # t /\ phase[u] = "armed" /\ roomOf[u] \in Rooms
        BY <1>2, <1>3, <2>1
      <3>2. CASE pending[roomOf[u]] = u
        <4>1. roomOf[u] = roomOf[t]
          BY <1>3, <2>1, <3>1, <3>2
        <4>2. u # NoTurn
          BY RoomsAssumption DEF Turns, NoTurn
        <4> QED BY <1>3, <3>1, <3>2, <4>1, <4>2 DEF IInv, EntryOverOlderIsOverlapped, TurnsOf
      <3>3. CASE pending[roomOf[u]] # u
        BY <1>3, <3>1, <3>3 DEF IInv, CancelStopsTheRest
      <3> QED BY <3>2, <3>3
    <2>2. ASSUME NEW u \in cancelled', phase'[u] # "stopped", u \notin late'
          PROVE  u \in overlapped'
      <3>1. u \in Turns /\ u \in cancelled /\ phase[u] # "stopped"
        BY <1>1, <1>3, <2>2 DEF TypeOK
      <3> QED BY <1>3, <2>2, <3>1 DEF IInv, CancelStopsTheRest
    <2> QED BY <2>1, <2>2 DEF CancelStopsTheRest
  <1> QED BY <1>4, <1>5, <1>6, <1>7, <1>8 DEF IInv

LEMMA NextInv == IInv /\ [Next]_vars => IInv'
  <1> SUFFICES ASSUME IInv, [Next]_vars PROVE IInv'
    OBVIOUS
  <1>1. ASSUME NEW r \in Rooms, ScheduleAITurn(r) PROVE IInv'
    BY <1>1, ScheduleInv
  <1>2. ASSUME NEW r \in Rooms, CancelRoom(r) PROVE IInv'
    BY <1>2, CancelInv DEF CancelRoom
  <1>3. CASE Shutdown
    BY <1>3, CancelInv DEF Shutdown
  <1>4. ASSUME NEW t \in Turns, Fire(t) PROVE IInv'
    BY <1>4, MoveInv DEF Fire, Phases, history
  <1>5. ASSUME NEW t \in Turns, Callback(t) PROVE IInv'
    BY <1>5, CallbackInv
  <1>6. ASSUME NEW t \in Turns, Decide(t) PROVE IInv'
    <2>1. PICK p \in {"executing", "done"} : phase' = [phase EXCEPT ![t] = p]
      BY <1>6 DEF Decide
    <2> QED BY <1>6, <2>1, MoveInv DEF Decide, Phases, history
  <1>7. ASSUME NEW t \in Turns, Execute(t) PROVE IInv'
    BY <1>7, MoveInv DEF Execute, Phases, history
  <1>8. CASE UNCHANGED vars
    BY <1>8 DEF vars, history, IInv, TypeOK, Numbered, EntryIsStillToCome, TurnsOf,
                EntryOverOlderIsOverlapped, CancelStopsTheRest
  <1> QED BY <1>1, <1>2, <1>3, <1>4, <1>5, <1>6, <1>7, <1>8 DEF Next

LEMMA Invariance == Spec => []IInv
  BY InitInv, NextInv, PTL DEF Spec

-----------------------------------------------------------------------------
\* The manager's entries and the turns are of their types.
THEOREM TypeCorrect == Spec => []TypeOK
  <1>1. IInv => TypeOK
    BY DEF IInv
  <1> QED BY <1>1, Invariance, PTL

\* A room's entry is its newest turn, and that turn is still to come.
THEOREM EntryStillToCome == Spec => []EntryIsStillToCome
  <1>1. IInv => EntryIsStillToCome
    BY DEF IInv
  <1> QED BY <1>1, Invariance, PTL

\* Of the turns that are still to come when their room is cancelled, scheduled
\* again or shut down, all are stopped but those whose callback had fired and those
\* that were scheduled while an older turn was on its way (manager.go:49-51).
THEOREM CancelStops == Spec => []CancelStopsTheRest
  <1>1. IInv => CancelStopsTheRest
    BY DEF IInv
  <1> QED BY <1>1, Invariance, PTL

=============================================================================
